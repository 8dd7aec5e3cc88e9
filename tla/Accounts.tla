------------------------------ MODULE Accounts ------------------------------
(***************************************************************************)
(* The accounts of the auth service: users, their login identities, access *)
(* tokens (signed JWTs), refresh token families and the two revocations.   *)
(*                                                                         *)
(* Each database statement or Redis command of a request is a step, so     *)
(* requests interleave between a read and the write that rests on it.  A   *)
(* failing statement ends the request with an error (Fail).  A refresh     *)
(* token family is used through its promise, TokenFamilies: one step to    *)
(* create, rotate or end it.  The set of a user's families is not part of  *)
(* that promise: ending them all lists the set, ends each listed family    *)
(* and deletes the set, in steps of their own.  Rate limits, body parsing  *)
(* and the forms of names end a request before its first step and change   *)
(* nothing.                                                                *)
(***************************************************************************)
EXTENDS Naturals, FiniteSets, FiniteSetsExt, Functions

CONSTANTS
    Users,          \* user ids
    Emails,         \* email or phone identifiers
    Subjects,       \* subjects of OAuth providers
    Passwords,
    Tokens,         \* ids (jti) of access tokens
    Families,       \* refresh token families
    Calls,          \* requests in progress
    RequestKinds,   \* the kinds of requests that happen
    Admin, Member,  \* the administrator and the user of the initial state
    NoUser, NoName, NoPassword, NoToken, NoFamily,
    Second,         \* instants per second: a JWT's times are whole seconds
    MaxTime,        \* bound: the clock stops here
    MaxRequests     \* bound: requests in a behaviour

VARIABLES
    users,          \* user_models
    identities,     \* user_identity_models: the user an identifier belongs to
    token,          \* the access tokens issued and which of them are revoked
    cutoff,         \* revoked-user-since: per user, 0 if there is none
    family,         \* refresh token families, each with whether the set of its user holds it
    now,            \* the clock
    call,           \* the locals of each request
    requests,       \* requests begun
    promised        \* history: the latest revocation that returned without error

accountVars == <<users, identities, token, cutoff, family, now, call, requests, promised>>

ASSUME AccountsAssumption ==
    /\ {Admin, Member} \subseteq Users /\ Admin # Member /\ NoUser \notin Users
    /\ Emails \cap Subjects = {} /\ NoName \notin Emails \cup Subjects
    /\ NoToken \notin Tokens /\ NoFamily \notin Families
    /\ Second \in Nat \ {0} /\ MaxTime \in Nat /\ MaxRequests \in Nat

Names == Emails \cup Subjects
NoRow == [status |-> "none", role |-> "user", pw |-> NoPassword, email |-> NoName]
Rows == [status: {"none", "active", "disabled"}, role: {"user", "admin"},
         pw: Passwords \cup {NoPassword}, email: Emails \cup {NoName}]

Idle == [op |-> "none", pc |-> "idle", user |-> NoUser, name |-> NoName, alt |-> NoName,
         row |-> NoRow, since |-> 0, alone |-> TRUE, fam |-> NoFamily, tok |-> NoToken, todo |-> {}]

AccountsTypeOK ==
    /\ users \in [Users -> Rows]
    /\ identities \in [Names -> Users \cup {NoUser}]
    /\ token \in [Tokens -> [user: Users \cup {NoUser}, at: 0..MaxTime,
                             via: Names \cup {NoName}, revoked: BOOLEAN]]
    /\ cutoff \in [Users -> 0..MaxTime]
    /\ family \in [Families -> [user: Users \cup {NoUser}, born: 0..MaxTime,
                                live: BOOLEAN, held: {"current", "redeemed"},
                                listed: BOOLEAN, dropped: BOOLEAN]]
    /\ now \in 1..MaxTime
    /\ requests \in 0..MaxRequests
    /\ promised \in [Users -> 0..MaxTime]
    /\ \A c \in Calls :
        /\ call[c].user \in Users \cup {NoUser} /\ call[c].row \in Rows
        /\ call[c].name \in Names \cup {NoName} /\ call[c].alt \in Emails \cup {NoName}
        /\ call[c].since \in 0..MaxTime /\ call[c].alone \in BOOLEAN
        /\ call[c].fam \in Families \cup {NoFamily} /\ call[c].tok \in Tokens \cup {NoToken}
        /\ call[c].todo \subseteq Families

-----------------------------------------------------------------------------
(* pkg/store: the tables *)

HasUserIdentity(n) == identities[n] # NoUser

\* The lookups join with user_models: an identity of a deleted user finds nobody.
GetUserByIdentity(n) ==
    IF identities[n] # NoUser /\ users[identities[n]].status # "none"
    THEN identities[n] ELSE NoUser
GetUserByProviderIdentity(s) == GetUserByIdentity(s)

UnusedUsers == {u \in Users : users[u].status = "none" /\ \A a \in Tokens : token[a].user # u}

UserCount == Cardinality({u \in Users : users[u].status # "none"})

\* An upsert of every column: it also brings back a row that was deleted.
SaveUser(u, row) == users' = [users EXCEPT ![u] = row]

\* One transaction: nothing is written when an identifier is taken.
SaveUserWithIdentities(u, row, names) ==
    /\ \A n \in names : ~HasUserIdentity(n)
    /\ users' = [users EXCEPT ![u] = row]
    /\ identities' = [n \in Names |-> IF n \in names THEN u ELSE identities[n]]

\* Email and phone rows are upserted with the new user id; OAuth rows are inserted
\* if absent (the caller checks).
SaveUserIdentity(n, u) == identities' = [identities EXCEPT ![n] = u]

DeleteUserIdentity(u) ==
    identities' = [n \in Names |-> IF n \in Emails /\ identities[n] = u
                                   THEN NoUser ELSE identities[n]]

DeleteUser(u) ==
    /\ users' = [users EXCEPT ![u] = NoRow]
    /\ identities' = [n \in Names |-> IF identities[n] = u THEN NoUser ELSE identities[n]]

\* The email shown for a user: an email identity, else the column of the row.
currentUserContactIdentities(u, row) ==
    LET mine == {n \in Emails : identities[n] = u}
    IN  IF mine # {} THEN CHOOSE n \in mine : TRUE ELSE row.email

-----------------------------------------------------------------------------
(* pkg/store: access tokens *)

\* NewNumericDate cuts the fraction of a second off.
IssuedAt(t) == (t \div Second) * Second

\* As it would be if a token issued at the cutoff were accepted.
AcceptAtCutoff(a) ==
    LET u == token[a].user
    IN  /\ u # NoUser
        /\ ~token[a].revoked
        /\ cutoff[u] = 0 \/ IssuedAt(token[a].at) >= cutoff[u]

\* GetUserIDByToken without the signature and the expiry: not revoked by its id, and
\* issued after the cutoff of its user.
GetUserIDByToken(a) ==
    LET u == token[a].user
    IN  /\ u # NoUser
        /\ ~token[a].revoked
        /\ cutoff[u] = 0 \/ IssuedAt(token[a].at) > cutoff[u]

\* UserFromToken: the row is read again for every request.
UserFromToken(a) ==
    GetUserIDByToken(a) /\ users[token[a].user].status = "active"

\* Ids are random: which unused one is taken does not matter.
UnusedTokens == {a \in Tokens : token[a].user = NoUser}
UnusedFamilies == {f \in Families : family[f].user = NoUser}
FirstTwo(ids) ==
    LET x == CHOOSE i \in ids : TRUE
        y == CHOOSE i \in ids \ {x} : TRUE
    IN  [u \in {Admin, Member} |-> IF u = Admin THEN x ELSE y]
Fresh(unused) == IF unused = {} THEN {} ELSE {CHOOSE x \in unused : TRUE}

NewSession(a, u, via) ==
    token' = [token EXCEPT ![a] = [user |-> u, at |-> now, via |-> via, revoked |-> FALSE]]

\* TokenFamilies: NewToken, and the end of a family.  The same pipeline puts the family on
\* its user's set, or takes it off.
NewToken(f, u) ==
    family' = [family EXCEPT ![f] = [user |-> u, born |-> now, live |-> TRUE, held |-> "current",
                                     listed |-> TRUE, dropped |-> FALSE]]
DeleteToken(f) == family' = [family EXCEPT ![f].live = FALSE, ![f].listed = FALSE]

\* RotateToken of a current token: the pipeline puts the family on the set again.
RotateToken(f) == family' = [family EXCEPT ![f].held = "redeemed", ![f].listed = TRUE]

\* DEL of the user's set, whatever was added since it was listed: a family that goes on
\* living is dropped (history), and the next listing misses it.
DropUserFamilies(u) ==
    family' = [f \in Families |->
                IF family[f].user = u /\ family[f].listed
                THEN [family[f] EXCEPT !.listed = FALSE, !.dropped = TRUE] ELSE family[f]]

-----------------------------------------------------------------------------
(* Requests *)

tables == <<users, identities>>
sessions == <<token, cutoff, family>>

At(c, pc) == call[c].pc = pc
Goto(c, pc) == call' = [call EXCEPT ![c].pc = pc]
Return(c) == call' = [call EXCEPT ![c] = Idle]

Begin(c, op, locals) ==
    /\ op \in RequestKinds
    /\ At(c, "idle") /\ requests < MaxRequests
    /\ requests' = requests + 1
    /\ call' = [call EXCEPT ![c] = [locals EXCEPT !.op = op]]
    /\ UNCHANGED <<tables, sessions, now, promised>>

\* A database or Redis error, or a process that stops: the request ends where it is.
\* A refresh that cannot sign an access token gives its new refresh token up.
Fail(c) ==
    /\ ~At(c, "idle")
    /\ IF call[c].op = "refresh" /\ At(c, "access")
       THEN DeleteToken(call[c].fam) \/ UNCHANGED family
       ELSE UNCHANGED family
    /\ Return(c)
    /\ UNCHANGED <<tables, token, cutoff, now, requests, promised>>

\* authenticated: the middleware reads the user's row once, before the handler.
Authenticated(a, role) == UserFromToken(a) /\ (role = "admin" => users[token[a].user].role = "admin")
adminOnly(a) == Authenticated(a, "admin")

-----------------------------------------------------------------------------
(* Sign-up *)

\* The verification token was checked (module Verification); HasUserIdentity comes first.
handleSignupComplete(c) ==
    \E e \in Emails, p \in Passwords :
        /\ ~HasUserIdentity(e)
        /\ Begin(c, "signup", [Idle EXCEPT !.pc = "count", !.name = e,
                    !.row = [status |-> "active", role |-> "user", pw |-> p, email |-> e]])

\* The first user becomes administrator: counted here, created in a later statement.
CountUsers(c) ==
    /\ At(c, "count")
    /\ call' = [call EXCEPT ![c].pc = "create",
                            ![c].row.role = IF UserCount = 0 THEN "admin" ELSE "user"]
    /\ UNCHANGED <<tables, sessions, now, requests, promised>>

\* createUserWithIdentity; an identifier taken meanwhile refuses the sign-up.
SignUpWithVerifiedIdentity(c) ==
    /\ At(c, "create") /\ call[c].op = "signup"
    /\ \/ \E u \in Fresh(UnusedUsers) :
            /\ SaveUserWithIdentities(u, call[c].row, {call[c].name})
            /\ call' = [call EXCEPT ![c].pc = "access", ![c].user = u]
       \/ /\ HasUserIdentity(call[c].name)
          /\ Return(c) /\ UNCHANGED tables
    /\ UNCHANGED <<sessions, now, requests, promised>>

-----------------------------------------------------------------------------
(* Logins *)

\* A login reads the user of the identifier; with a password it compares it.
LoginWithPasswordByIdentity(e, p) ==
    LET u == GetUserByIdentity(e)
    IN  u # NoUser /\ users[u].status = "active" /\ users[u].pw # NoPassword /\ users[u].pw = p

LoginByIdentity(e) == GetUserByIdentity(e) # NoUser /\ users[GetUserByIdentity(e)].status = "active"

handleLogin(c) ==
    \E e \in Emails, p \in Passwords :
        /\ LoginWithPasswordByIdentity(e, p)
        /\ Begin(c, "login", [Idle EXCEPT !.pc = "access", !.name = e,
                                          !.user = GetUserByIdentity(e)])

\* The login of handleVerificationVerify, after a right code.
LoginByCode(c) ==
    \E e \in Emails :
        /\ LoginByIdentity(e)
        /\ Begin(c, "codeLogin", [Idle EXCEPT !.pc = "access", !.name = e,
                                              !.user = GetUserByIdentity(e)])

\* issueTokens: the access token, then the refresh token; a login that fails in
\* between gives its access token to nobody.  A refresh has its new refresh token
\* already, and the client holds it once the access token is issued.
IssueAccessToken(c) ==
    /\ At(c, "access")
    /\ \E a \in Fresh(UnusedTokens) : NewSession(a, call[c].user, call[c].name)
    /\ IF call[c].op = "refresh"
       THEN Return(c) /\ family' = [family EXCEPT ![call[c].fam].held = "current"]
       ELSE Goto(c, "family") /\ UNCHANGED family
    /\ UNCHANGED <<tables, cutoff, now, requests, promised>>

IssueRefreshToken(c) ==
    /\ At(c, "family")
    /\ \E f \in Fresh(UnusedFamilies) : NewToken(f, call[c].user)
    /\ Return(c)
    /\ UNCHANGED <<tables, token, cutoff, now, requests, promised>>

-----------------------------------------------------------------------------
(* CompleteOAuthLogin: by subject, else by verified email, else a new user *)

\* Two identities of one user, or one when the provider did not verify the email.
OAuthNames(c) == {call[c].name} \cup ({call[c].alt} \ {NoName})

handleOAuthComplete(c) ==
    \E s \in Subjects, e \in Emails \cup {NoName} :
        Begin(c, "oauth", [Idle EXCEPT !.pc = "bySubject", !.name = s, !.alt = e])

\* The user is known by the subject, or known after all when an insert met a
\* conflict: a disabled one is refused.
OAuthKnown(c) ==
    LET u == GetUserByProviderIdentity(call[c].name)
    IN  /\ call[c].pc \in {"bySubject", "again"} /\ u # NoUser
        /\ IF users[u].status = "disabled" THEN Return(c)
           ELSE call' = [call EXCEPT ![c].pc = "access", ![c].user = u]
        /\ UNCHANGED <<tables, sessions, now, requests, promised>>

OAuthUnknown(c) ==
    /\ call[c].pc \in {"bySubject", "again"} /\ GetUserByProviderIdentity(call[c].name) = NoUser
    /\ IF At(c, "again") THEN Return(c)
       ELSE Goto(c, IF call[c].alt = NoName THEN "count" ELSE "byEmail")
    /\ UNCHANGED <<tables, sessions, now, requests, promised>>

OAuthByEmail(c) ==
    LET u == GetUserByIdentity(call[c].alt)
    IN  /\ At(c, "byEmail")
        /\ \/ u = NoUser /\ Goto(c, "count")
           \/ u # NoUser /\ users[u].status = "disabled" /\ Return(c)
           \/ /\ u # NoUser /\ users[u].status # "disabled"
              /\ call' = [call EXCEPT ![c].pc = "link", ![c].user = u]
        /\ UNCHANGED <<tables, sessions, now, requests, promised>>

\* As it would be if the insert overwrote the row of another login.
LinkAnyway(c) ==
    /\ At(c, "link")
    /\ SaveUserIdentity(call[c].name, call[c].user)
    /\ Goto(c, "access")
    /\ UNCHANGED <<users, sessions, now, requests, promised>>

\* The OAuth identity is inserted; a conflict means that another login was faster.
OAuthLink(c) ==
    /\ At(c, "link")
    /\ \/ /\ ~HasUserIdentity(call[c].name)
          /\ SaveUserIdentity(call[c].name, call[c].user)
          /\ Goto(c, "access") /\ UNCHANGED users
       \/ HasUserIdentity(call[c].name) /\ Goto(c, "again") /\ UNCHANGED tables
    /\ UNCHANGED <<sessions, now, requests, promised>>

createOAuthUser(c) ==
    /\ At(c, "create") /\ call[c].op = "oauth"
    /\ \/ \E u \in Fresh(UnusedUsers) :
            /\ SaveUserWithIdentities(u, [status |-> "active", role |-> call[c].row.role,
                                          pw |-> NoPassword, email |-> call[c].alt], OAuthNames(c))
            /\ call' = [call EXCEPT ![c].pc = "access", ![c].user = u]
       \/ /\ \E n \in OAuthNames(c) : HasUserIdentity(n)
          /\ Goto(c, "again") /\ UNCHANGED tables
    /\ UNCHANGED <<sessions, now, requests, promised>>

-----------------------------------------------------------------------------
(* Refresh and logout *)

\* RotateToken: a redeemed token ends its family, the current one is redeemed.
handleRefresh(c) ==
    \E f \in Families :
        /\ "refresh" \in RequestKinds /\ At(c, "idle") /\ requests < MaxRequests
        /\ family[f].live
        /\ requests' = requests + 1
        /\ \/ /\ family[f].held = "redeemed"
              /\ DeleteToken(f) /\ UNCHANGED call
           \/ /\ family[f].held = "current"
              /\ RotateToken(f)
              /\ call' = [call EXCEPT ![c] = [Idle EXCEPT !.op = "refresh", !.pc = "load",
                                                !.user = family[f].user, !.fam = f]]
        /\ UNCHANGED <<tables, token, cutoff, now, promised>>

\* After the rotation the user is loaded: gone or disabled ends the new token.
Refresh(c) ==
    LET u == call[c].user  f == call[c].fam
    IN  /\ At(c, "load")
        /\ \/ users[u].status = "active" /\ Goto(c, "access") /\ UNCHANGED family
           \/ users[u].status # "active" /\ DeleteToken(f) /\ Return(c)
        /\ UNCHANGED <<tables, token, cutoff, now, requests, promised>>

\* DeleteSession, then DeleteToken.  The access token may be revoked and the refresh
\* token kept when the second command fails.
handleLogout(c) ==
    \E a \in Tokens, f \in Families :
        /\ token[a].user # NoUser /\ family[f].user = token[a].user
        /\ Begin(c, "logout", [Idle EXCEPT !.pc = "deleteSession", !.tok = a, !.fam = f])

DeleteSession(c) ==
    /\ At(c, "deleteSession")
    /\ token' = [token EXCEPT ![call[c].tok].revoked = TRUE]
    /\ Goto(c, "deleteToken")
    /\ UNCHANGED <<tables, cutoff, family, now, requests, promised>>

RevokeRefreshToken(c) ==
    /\ At(c, "deleteToken")
    /\ DeleteToken(call[c].fam) /\ Return(c)
    /\ UNCHANGED <<tables, token, cutoff, now, requests, promised>>

-----------------------------------------------------------------------------
(* Requests that save a user row they read before *)

\* handleMe: the row is the one the middleware read; the email is looked up first.
UpdateMyEmail(c) ==
    \E a \in Tokens, e \in Emails :
        LET u == token[a].user
        IN  /\ Authenticated(a, "user")
            /\ users[u].email # e
            /\ GetUserByIdentity(e) \in {NoUser, u}
            /\ Begin(c, "email", [Idle EXCEPT !.pc = "save", !.user = u, !.alt = e,
                                              !.row = [users[u] EXCEPT !.email = e]])

\* A revocation of the same user that is under way when another one takes its time.
Revoking(u) == {c \in Calls : call[c].user = u /\ call[c].since # 0}
MarkOverlaps(c, u, next) ==
    [d \in Calls |-> IF d # c /\ d \in Revoking(u) THEN [next[d] EXCEPT !.alone = FALSE]
                     ELSE next[d]]

BeginRevoking(c, op, u, row, alt, pc) ==
    /\ op \in RequestKinds
    /\ At(c, "idle") /\ requests < MaxRequests
    /\ requests' = requests + 1
    /\ LET mine == [Idle EXCEPT !.op = op, !.pc = pc, !.user = u, !.row = row, !.alt = alt,
                                !.since = now, !.alone = Revoking(u) = {}]
       IN  call' = MarkOverlaps(c, u, [call EXCEPT ![c] = mine])
    /\ UNCHANGED <<tables, sessions, now, promised>>

\* handleChangePassword: the current password is compared with the row read here.
ChangePassword(c) ==
    \E a \in Tokens, p \in Passwords :
        LET u == token[a].user
        IN  /\ Authenticated(a, "user")
            /\ users[u].pw # p
            /\ BeginRevoking(c, "password", u, [users[u] EXCEPT !.pw = p], NoName, "save")

\* handlePasswordResetComplete, the verification token checked.
ResetPasswordByIdentity(c) ==
    \E e \in Emails, p \in Passwords :
        LET u == GetUserByIdentity(e)
        IN  /\ u # NoUser /\ users[u].status # "disabled" /\ users[u].pw # p
            /\ BeginRevoking(c, "reset", u, [users[u] EXCEPT !.pw = p], NoName, "save")

\* AdminUpdateUser with a status: not one's own to disabled.
AdminSetStatus(c) ==
    \E a \in Tokens, u \in Users, s \in {"active", "disabled"} :
        LET row == [users[u] EXCEPT !.status = s,
                                    !.email = currentUserContactIdentities(u, users[u])]
        IN  /\ adminOnly(a)
            /\ users[u].status # "none"
            /\ ~(u = token[a].user /\ s = "disabled")
            /\ IF s = "disabled"
               THEN BeginRevoking(c, "disable", u, row, NoName, "save")
               ELSE Begin(c, "enable", [Idle EXCEPT !.pc = "save", !.user = u, !.row = row])

\* AdminUpdateUser with a role: not one's own to another.
AdminSetRole(c) ==
    \E a \in Tokens, u \in Users, r \in {"user", "admin"} :
        /\ adminOnly(a)
        /\ users[u].status # "none" /\ users[u].role # r /\ u # token[a].user
        /\ Begin(c, "role", [Idle EXCEPT !.pc = "save", !.user = u,
                    !.row = [users[u] EXCEPT !.role = r,
                                             !.email = currentUserContactIdentities(u, users[u])]])

\* AdminUpdateUser with an email, NoName to remove it: the identifier must not be
\* another user's, and a login identity must remain.
AdminSetEmail(c) ==
    \E a \in Tokens, u \in Users, e \in Emails \cup {NoName} :
        /\ adminOnly(a)
        /\ users[u].status # "none"
        /\ e # NoName => GetUserByIdentity(e) \in {NoUser, u}
        /\ e = NoName => \E s \in Subjects : identities[s] = u
        /\ Begin(c, "adminEmail", [Idle EXCEPT !.pc = "save", !.user = u, !.alt = e,
                                               !.row = [users[u] EXCEPT !.email = e]])

\* SaveUser of any of these requests: every column of the row, whatever changed since.
SaveUserRow(c) ==
    /\ At(c, "save")
    /\ SaveUser(call[c].user, call[c].row)
    /\ IF call[c].op \in {"enable", "role"} THEN Return(c)
       ELSE Goto(c, IF call[c].op \in {"email", "adminEmail"} THEN "identity" ELSE "getCutoff")
    /\ UNCHANGED <<identities, sessions, now, requests, promised>>

\* The identity follows in a statement of its own; the old one stays.
SaveEmailIdentity(c) ==
    /\ At(c, "identity")
    /\ IF call[c].alt = NoName THEN DeleteUserIdentity(call[c].user)
       ELSE SaveUserIdentity(call[c].alt, call[c].user)
    /\ Return(c)
    /\ UNCHANGED <<users, sessions, now, requests, promised>>

-----------------------------------------------------------------------------
(* revokeAllUserTokens *)

\* RevokeUser reads the cutoff: nothing is to be set when it is not earlier.
GetCutoff(c) ==
    /\ At(c, "getCutoff")
    /\ Goto(c, IF cutoff[call[c].user] >= call[c].since THEN "families" ELSE "setCutoff")
    /\ UNCHANGED <<tables, sessions, now, requests, promised>>

RevokeUser(c) ==
    /\ At(c, "setCutoff")
    /\ cutoff' = [cutoff EXCEPT ![call[c].user] = call[c].since]
    /\ Goto(c, "families")
    /\ UNCHANGED <<tables, token, family, now, requests, promised>>

\* RevokeUserRefreshTokens lists the user's set (SMEMBERS), then ends one listed family
\* after the other.
RevokeUserRefreshTokens(c) ==
    /\ At(c, "families")
    /\ call' = [call EXCEPT ![c].pc = "endFamilies",
                            ![c].todo = {f \in Families : family[f].user = call[c].user /\ family[f].listed}]
    /\ UNCHANGED <<tables, sessions, now, requests, promised>>

revokeFamily(c) ==
    /\ At(c, "endFamilies")
    /\ \E f \in call[c].todo :
        /\ DeleteToken(f)
        /\ call' = [call EXCEPT ![c].todo = @ \ {f}]
    /\ UNCHANGED <<tables, token, cutoff, now, requests, promised>>

\* The last command of the revocation deletes the set; a deletion of the user goes on
\* with the tables.
revokeAllUserTokens(c) ==
    LET u == call[c].user
    IN  /\ At(c, "endFamilies") /\ call[c].todo = {}
        /\ DropUserFamilies(u)
        /\ promised' = IF call[c].alone THEN [promised EXCEPT ![u] = Max({@, call[c].since})]
                       ELSE promised
        /\ IF call[c].op = "delete" THEN Goto(c, "deleteUser") ELSE Return(c)
        /\ UNCHANGED <<tables, token, cutoff, now, requests>>

\* handleAdminDeleteUser: not oneself; the tokens go first.
AdminDeleteUser(c) ==
    \E a \in Tokens, u \in Users :
        /\ adminOnly(a)
        /\ users[u].status # "none" /\ u # token[a].user
        /\ BeginRevoking(c, "delete", u, NoRow, NoName, "getCutoff")

DeleteUserRow(c) ==
    /\ At(c, "deleteUser")
    /\ DeleteUser(call[c].user) /\ Return(c)
    /\ UNCHANGED <<sessions, now, requests, promised>>

-----------------------------------------------------------------------------
Tick ==
    /\ now < MaxTime
    /\ now' = now + 1
    /\ UNCHANGED <<tables, sessions, call, requests, promised>>

\* The administrator and a user, both signed up and logged in; the user may have
\* linked an OAuth subject.
AccountsInit ==
    \E e \in [{Admin, Member} -> Emails], p \in [{Admin, Member} -> Passwords],
       a \in [{Admin, Member} -> Tokens], f \in [{Admin, Member} -> Families],
       linked \in SUBSET Subjects :
        /\ IsInjective(e) /\ a = FirstTwo(Tokens) /\ f = FirstTwo(Families)
        /\ Cardinality(linked) <= 1
        /\ users = [u \in Users |-> IF u \notin {Admin, Member} THEN NoRow
                ELSE [status |-> "active", role |-> IF u = Admin THEN "admin" ELSE "user",
                      pw |-> p[u], email |-> e[u]]]
        /\ identities = [n \in Names |-> IF n = e[Admin] THEN Admin
                                         ELSE IF n = e[Member] \/ n \in linked THEN Member
                                         ELSE NoUser]
        /\ token = [b \in Tokens |->
                [user |-> IF b = a[Admin] THEN Admin ELSE IF b = a[Member] THEN Member ELSE NoUser,
                 at |-> IF b \in Range(a) THEN 1 ELSE 0, via |-> NoName, revoked |-> FALSE]]
        /\ family = [g \in Families |->
                [user |-> IF g = f[Admin] THEN Admin ELSE IF g = f[Member] THEN Member ELSE NoUser,
                 born |-> IF g \in Range(f) THEN 1 ELSE 0, live |-> g \in Range(f),
                 held |-> "current", listed |-> g \in Range(f), dropped |-> FALSE]]
        /\ cutoff = [u \in Users |-> 0]
        /\ now = 1
        /\ call = [c \in Calls |-> Idle]
        /\ requests = 0
        /\ promised = [u \in Users |-> 0]

NewRequest(c) ==
    \/ handleSignupComplete(c) \/ handleLogin(c) \/ LoginByCode(c) \/ handleOAuthComplete(c)
    \/ handleRefresh(c) \/ handleLogout(c)
    \/ UpdateMyEmail(c) \/ ChangePassword(c) \/ ResetPasswordByIdentity(c)
    \/ AdminSetStatus(c) \/ AdminSetRole(c) \/ AdminSetEmail(c) \/ AdminDeleteUser(c)

RequestStep(c) ==
    \/ CountUsers(c) \/ SignUpWithVerifiedIdentity(c)
    \/ IssueAccessToken(c) \/ IssueRefreshToken(c)
    \/ OAuthKnown(c) \/ OAuthUnknown(c) \/ OAuthByEmail(c) \/ OAuthLink(c) \/ createOAuthUser(c)
    \/ Refresh(c) \/ DeleteSession(c) \/ RevokeRefreshToken(c)
    \/ SaveUserRow(c) \/ SaveEmailIdentity(c)
    \/ GetCutoff(c) \/ RevokeUser(c) \/ RevokeUserRefreshTokens(c) \/ revokeFamily(c)
    \/ revokeAllUserTokens(c) \/ DeleteUserRow(c)
    \/ Fail(c)

AccountsNext ==
    \/ Tick
    \/ \E c \in Calls :
        \/ At(c, "idle") /\ requests < MaxRequests /\ NewRequest(c)
        \/ ~At(c, "idle") /\ RequestStep(c)

-----------------------------------------------------------------------------
(* What the accounts promise *)

\* A revocation that returned and met no other one of the same user holds from then on
\* (password change or reset, disabling, deletion): every access token issued up to its
\* time is refused although tokens are signed and never stored, and every older refresh
\* token family has ended, whatever logins and refreshes were under way.  Excepted is the
\* family that an earlier revocation dropped: a login between its SMEMBERS and its DEL,
\* which no later revocation lists.
RevocationHolds ==
    \A u \in Users :
        /\ \A a \in Tokens : token[a].user = u /\ token[a].at <= promised[u] => ~GetUserIDByToken(a)
        /\ \A f \in Families : family[f].user = u /\ family[f].born < promised[u] =>
              ~family[f].live \/ family[f].dropped

\* A login through an OAuth subject logs in the user the subject belongs to, and the
\* subject never moves from one user to another, also when two first logins of the same
\* person, or a login and a sign-up with the same email, overlap.
SubjectKeepsOwner ==
    [][\A s \in Subjects :
        /\ identities[s] # NoUser => identities'[s] \in {identities[s], NoUser}
        /\ \A a \in Tokens : token'[a].via = s /\ token[a].user = NoUser =>
              LET u == token'[a].user
              IN  cutoff[u] = 0 => identities[s] = u]_accountVars

AccountsSpec == AccountsInit /\ [][AccountsNext]_accountVars
=============================================================================
