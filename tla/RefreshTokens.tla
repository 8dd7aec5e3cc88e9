---------------------------- MODULE RefreshTokens ----------------------------
(***************************************************************************)
(* RedisRefreshTokenStore (backend/pkg/store/refresh_token_store.go): the  *)
(* refresh token families of the auth service, kept in four kinds of Redis *)
(* keys and changed by concurrent calls. One step is one Redis command or  *)
(* one MULTI/EXEC; RotateToken's EXEC is conditional on its WATCH.         *)
(*                                                                         *)
(* A token stands for its hash. Any call may present any token that was    *)
(* ever issued: the same cookie sent twice, or an old one.                 *)
(***************************************************************************)
EXTENDS Integers

CONSTANTS
    Tokens, Families, Users,      \* ids, each drawn once at random
    Calls,                        \* concurrent calls of the store
    NoToken, NoFamily, NoUser,
    MaxRevokes,                   \* bound: calls of RevokeUserRefreshTokens
    RedisErrors                   \* whether Redis commands may fail

ASSUME NoneAssumption ==
    NoToken \notin Tokens /\ NoFamily \notin Families /\ NoUser \notin Users
ASSUME BoundsAssumption == MaxRevokes \in Nat /\ RedisErrors \in BOOLEAN

VARIABLES
    tokenFamily,    \* refresh:token:<hash> -> family
    current,        \* refresh:family:<id> currentHash; NoToken when the key is gone
    owner,          \* refresh:family:<id> userId; it stays when the key is gone
    familyTokens,   \* refresh:family_tokens:<id>
    userFamilies,   \* refresh:user_families:<id>
    issued,         \* tokens generated so far
    redeemed,       \* tokens rotated successfully so far
    watching,       \* calls whose WATCH has seen no write
    pc, op,         \* where each call is, and which method it runs
    tok, fam, usr,  \* its token, its family and the user id it has read
    hashes,         \* SMEMBERS of the family's tokens, read by revokeFamily
    todo,           \* families RevokeUserRefreshTokens has still to revoke
    target,         \* families that were live when that call began
    verdict,        \* what the last call of this client returned
    revokes         \* calls of RevokeUserRefreshTokens so far

store == <<tokenFamily, current, owner, familyTokens, userFamilies, issued, redeemed>>
locals == <<op, tok, fam, usr, hashes, todo, target>>
vars == <<store, watching, pc, locals, verdict, revokes>>

Init ==
    /\ tokenFamily = [t \in Tokens |-> NoFamily]
    /\ current = [f \in Families |-> NoToken]
    /\ owner = [f \in Families |-> NoUser]
    /\ familyTokens = [f \in Families |-> {}]
    /\ userFamilies = [u \in Users |-> {}]
    /\ issued = {}
    /\ redeemed = {}
    /\ watching = {}
    /\ pc = [c \in Calls |-> "idle"]
    /\ op = [c \in Calls |-> "none"]
    /\ tok = [c \in Calls |-> NoToken]
    /\ fam = [c \in Calls |-> NoFamily]
    /\ usr = [c \in Calls |-> NoUser]
    /\ hashes = [c \in Calls |-> {}]
    /\ todo = [c \in Calls |-> {}]
    /\ target = [c \in Calls |-> {}]
    /\ verdict = [c \in Calls |-> "none"]
    /\ revokes = 0

Live(f) == current[f] # NoToken

Goto(c, p) == pc' = [pc EXCEPT ![c] = p]
\* The call returns v and its locals go; fam stays to say what v is about.
Return(c, v) ==
    /\ Goto(c, "idle")
    /\ verdict' = [verdict EXCEPT ![c] = v]
    /\ op' = [op EXCEPT ![c] = "none"]
    /\ tok' = [tok EXCEPT ![c] = NoToken]
    /\ usr' = [usr EXCEPT ![c] = NoUser]
    /\ hashes' = [hashes EXCEPT ![c] = {}]
    /\ todo' = [todo EXCEPT ![c] = {}]
    /\ target' = [target EXCEPT ![c] = {}]

\* A write to refresh:family:<f> breaks the WATCH of every other call on it.
BreakWatches(f) == watching' = {c \in watching : fam[c] # f}

-----------------------------------------------------------------------------
\* Mutant: NewToken does not add the family to the user's set.
NewTokenUnlisted(u) ==
    \E f \in Families, t \in Tokens :
        /\ owner[f] = NoUser
        /\ t \notin issued
        /\ tokenFamily' = [tokenFamily EXCEPT ![t] = f]
        /\ current' = [current EXCEPT ![f] = t]
        /\ owner' = [owner EXCEPT ![f] = u]
        /\ familyTokens' = [familyTokens EXCEPT ![f] = {t}]
        /\ issued' = issued \cup {t}
        /\ UNCHANGED <<userFamilies, redeemed, watching, pc, locals, verdict, revokes>>

(* NewToken: one MULTI/EXEC *)
NewToken(u) ==
    \E f \in Families, t \in Tokens :
        /\ owner[f] = NoUser
        /\ t \notin issued
        /\ tokenFamily' = [tokenFamily EXCEPT ![t] = f]
        /\ current' = [current EXCEPT ![f] = t]
        /\ owner' = [owner EXCEPT ![f] = u]
        /\ familyTokens' = [familyTokens EXCEPT ![f] = {t}]
        /\ userFamilies' = [userFamilies EXCEPT ![u] = @ \cup {f}]
        /\ issued' = issued \cup {t}
        /\ UNCHANGED <<redeemed, watching, pc, locals, verdict, revokes>>

-----------------------------------------------------------------------------
(* RotateToken *)

\* A call has found the family of the token t.
Lookup(c, t, kind, next) ==
    /\ op' = [op EXCEPT ![c] = kind]
    /\ tok' = [tok EXCEPT ![c] = t]
    /\ fam' = [fam EXCEPT ![c] = tokenFamily[t]]
    /\ verdict' = [verdict EXCEPT ![c] = "none"]
    /\ Goto(c, next)
    /\ UNCHANGED <<store, watching, usr, hashes, todo, target, revokes>>

\* A call of RotateToken begins with any issued token, and each turn of its
\* loop looks the same token up again.
Presents(c, t) ==
    \/ pc[c] = "idle" /\ t \in issued
    \/ pc[c] = "rotateGet" /\ t = tok[c]

\* GET refresh:token:<hash>
RotateGet(c, t) ==
    /\ Presents(c, t)
    /\ IF tokenFamily[t] = NoFamily
       THEN Return(c, "invalid") /\ UNCHANGED <<store, watching, fam, revokes>>
       ELSE Lookup(c, t, "rotate", "rotateWatch")

\* WATCH and HGETALL refresh:family:<id>; the three ways out that revoke the
\* family, and the one that goes on to EXEC.
RotateRead(c) ==
    /\ pc[c] = "rotateWatch"
    /\ LET f == fam[c]
       IN  \/ /\ ~ Live(f)
              /\ Goto(c, "revokeUser")
              /\ verdict' = [verdict EXCEPT ![c] = "invalid"]
              /\ usr' = [usr EXCEPT ![c] = NoUser]
              /\ UNCHANGED watching
           \/ /\ Live(f)
              /\ usr' = [usr EXCEPT ![c] = owner[f]]
              /\ IF current[f] # tok[c]
                 THEN /\ Goto(c, "revokeList")
                      /\ verdict' = [verdict EXCEPT ![c] = "replay"]
                      /\ UNCHANGED watching
                 ELSE /\ Goto(c, "rotateExec")
                      /\ watching' = watching \cup {c}
                      /\ UNCHANGED verdict
    /\ UNCHANGED <<store, op, tok, fam, hashes, todo, target, revokes>>

\* Mutant: EXEC without WATCH.
RotateExecUnwatched(c) ==
    /\ pc[c] = "rotateExec"
    /\ LET f == fam[c]
       IN  \E t \in Tokens :
            /\ t \notin issued
            /\ tokenFamily' = [tokenFamily EXCEPT ![t] = f]
            /\ current' = [current EXCEPT ![f] = t]
            /\ familyTokens' = [familyTokens EXCEPT ![f] = @ \cup {t}]
            /\ userFamilies' = [userFamilies EXCEPT ![usr[c]] = @ \cup {f}]
            /\ issued' = issued \cup {t}
            /\ redeemed' = redeemed \cup {tok[c]}
            /\ BreakWatches(f)
    /\ Return(c, "ok")
    /\ UNCHANGED <<owner, fam, revokes>>

\* EXEC: it writes only if the WATCH is intact, and else the loop starts again.
RotateExec(c) ==
    /\ pc[c] = "rotateExec"
    /\ c \in watching
    /\ LET f == fam[c]
       IN  \E t \in Tokens :
            /\ t \notin issued
            /\ tokenFamily' = [tokenFamily EXCEPT ![t] = f]
            /\ current' = [current EXCEPT ![f] = t]
            /\ familyTokens' = [familyTokens EXCEPT ![f] = @ \cup {t}]
            /\ userFamilies' = [userFamilies EXCEPT ![usr[c]] = @ \cup {f}]
            /\ issued' = issued \cup {t}
            /\ redeemed' = redeemed \cup {tok[c]}
            /\ BreakWatches(f)
    /\ \/ Return(c, "ok")
       \/ RedisErrors /\ Return(c, "error")   \* the reply is lost
    /\ UNCHANGED <<owner, fam, revokes>>

RotateTxFailed(c) ==
    /\ pc[c] = "rotateExec"
    /\ c \notin watching
    /\ Goto(c, "rotateGet")
    /\ UNCHANGED <<store, watching, locals, verdict, revokes>>

-----------------------------------------------------------------------------
(* DeleteToken *)

DeleteGet(c, t) ==
    /\ pc[c] = "idle"
    /\ t \in issued
    /\ IF tokenFamily[t] = NoFamily
       THEN Return(c, "unknown") /\ UNCHANGED <<store, watching, fam, revokes>>
       ELSE Lookup(c, t, "delete", "deleteRead")

\* HGETALL for the user id, then revokeFamily.
DeleteRead(c) ==
    /\ pc[c] = "deleteRead"
    /\ IF Live(fam[c])
       THEN usr' = [usr EXCEPT ![c] = owner[fam[c]]] /\ Goto(c, "revokeList")
       ELSE UNCHANGED usr /\ Goto(c, "revokeUser")
    /\ verdict' = [verdict EXCEPT ![c] = "deleted"]
    /\ UNCHANGED <<store, watching, op, tok, fam, hashes, todo, target, revokes>>

-----------------------------------------------------------------------------
(* revokeFamily: called by all three *)

\* HGETALL once more when the caller knows no user id.
RevokeReadUser(c) ==
    /\ pc[c] = "revokeUser"
    /\ usr' = [usr EXCEPT ![c] = IF Live(fam[c]) THEN owner[fam[c]] ELSE NoUser]
    /\ Goto(c, "revokeList")
    /\ UNCHANGED <<store, watching, op, tok, fam, hashes, todo, target, verdict, revokes>>

\* SMEMBERS refresh:family_tokens:<id>
RevokeList(c) ==
    /\ pc[c] = "revokeList"
    /\ hashes' = [hashes EXCEPT ![c] = familyTokens[fam[c]]]
    /\ Goto(c, "revokeExec")
    /\ UNCHANGED <<store, watching, op, tok, fam, usr, todo, target, verdict, revokes>>

\* Mutant: the tokens are deleted and the family is not.
DeleteTokensOnly(f, ts) ==
    /\ tokenFamily' = [t \in Tokens |-> IF t \in ts THEN NoFamily ELSE tokenFamily[t]]
    /\ familyTokens' = [familyTokens EXCEPT ![f] = {}]
    /\ UNCHANGED current

\* The DELs of the family's keys.
DeleteFamily(f, ts) ==
    /\ tokenFamily' = [t \in Tokens |-> IF t \in ts THEN NoFamily ELSE tokenFamily[t]]
    /\ familyTokens' = [familyTokens EXCEPT ![f] = {}]
    /\ current' = [current EXCEPT ![f] = NoToken]

\* The MULTI/EXEC of the DELs and the SREM: it is not conditional on what was
\* read. RevokeUserRefreshTokens goes on with its next family.
RevokeExec(c) ==
    /\ pc[c] = "revokeExec"
    /\ DeleteFamily(fam[c], hashes[c])
    /\ BreakWatches(fam[c])
    /\ userFamilies' = [u \in Users |->
            IF u = usr[c] THEN userFamilies[u] \ {fam[c]} ELSE userFamilies[u]]
    /\ IF op[c] = "revokeUser"
       THEN Goto(c, "userNext") /\ UNCHANGED <<op, tok, usr, hashes, todo, target, verdict>>
       ELSE Return(c, verdict[c])
    /\ UNCHANGED <<owner, issued, redeemed, fam, revokes>>

-----------------------------------------------------------------------------
(* RevokeUserRefreshTokens *)

\* SMEMBERS refresh:user_families:<id>
UserRevokeBegin(c) ==
    /\ pc[c] = "idle"
    /\ revokes < MaxRevokes
    /\ revokes' = revokes + 1
    /\ op' = [op EXCEPT ![c] = "revokeUser"]
    /\ \E u \in Users :
        /\ usr' = [usr EXCEPT ![c] = u]
        /\ todo' = [todo EXCEPT ![c] = userFamilies[u]]
        /\ target' = [target EXCEPT ![c] = {f \in Families : Live(f) /\ owner[f] = u}]
    /\ Goto(c, "userNext")
    /\ verdict' = [verdict EXCEPT ![c] = "none"]
    /\ UNCHANGED <<store, watching, tok, fam, hashes>>

UserRevokeNext(c) ==
    /\ pc[c] = "userNext"
    /\ \E f \in todo[c] :
        /\ fam' = [fam EXCEPT ![c] = f]
        /\ todo' = [todo EXCEPT ![c] = @ \ {f}]
    /\ Goto(c, "revokeList")
    /\ UNCHANGED <<store, watching, op, tok, usr, hashes, target, verdict, revokes>>

\* DEL refresh:user_families:<id>, whatever has been added to it since.
UserRevokeEnd(c) ==
    /\ pc[c] = "userNext"
    /\ todo[c] = {}
    /\ userFamilies' = [userFamilies EXCEPT ![usr[c]] = {}]
    /\ Return(c, "revoked")
    /\ UNCHANGED <<tokenFamily, current, owner, familyTokens, issued, redeemed,
                   watching, fam, revokes>>

-----------------------------------------------------------------------------
(* Expiry and errors *)

\* The TTL of a rotated token ends before that of its family, which each
\* rotation renews; a token left behind by a revocation expires too.
ExpireToken(t) ==
    /\ tokenFamily[t] # NoFamily
    /\ current[tokenFamily[t]] # t
    /\ tokenFamily' = [tokenFamily EXCEPT ![t] = NoFamily]
    /\ UNCHANGED <<current, owner, familyTokens, userFamilies, issued, redeemed,
                   watching, pc, locals, verdict, revokes>>

\* The family, its token set and its current token were last written together,
\* with the same TTL, and its older tokens before.
ExpireFamily(f) ==
    /\ Live(f)
    /\ DeleteFamily(f, {t \in Tokens : tokenFamily[t] = f})
    /\ BreakWatches(f)
    /\ UNCHANGED <<owner, userFamilies, issued, redeemed, pc, locals, verdict, revokes>>

\* A command fails or the 3s context ends. RotateToken drops the error of its
\* revokeFamily and reports the replay or the invalid token all the same: that
\* verdict is told apart here, because the family lives on.
RedisError(c) ==
    /\ RedisErrors
    /\ pc[c] # "idle"
    /\ IF op[c] = "rotate" /\ pc[c] \in {"revokeUser", "revokeList", "revokeExec"}
       THEN Return(c, "unrevoked")
       ELSE Return(c, "error")
    /\ watching' = watching \ {c}
    /\ UNCHANGED <<store, fam, revokes>>

-----------------------------------------------------------------------------
CallStep(c) ==
    \/ RotateRead(c) \/ RotateExec(c) \/ RotateTxFailed(c)
    \/ DeleteRead(c)
    \/ RevokeReadUser(c) \/ RevokeList(c) \/ RevokeExec(c)
    \/ UserRevokeBegin(c) \/ UserRevokeNext(c) \/ UserRevokeEnd(c)
    \/ RedisError(c)

Next ==
    \/ \E u \in Users : NewToken(u)
    \/ \E c \in Calls, t \in Tokens : RotateGet(c, t) \/ DeleteGet(c, t)
    \/ \E c \in Calls : CallStep(c)
    \/ \E t \in Tokens : ExpireToken(t)
    \/ \E f \in Families : ExpireFamily(f)

Spec == Init /\ [][Next]_vars

-----------------------------------------------------------------------------
(* Properties *)

CallPcs == {"idle", "rotateGet", "rotateWatch", "rotateExec", "deleteRead",
            "revokeUser", "revokeList", "revokeExec", "userNext"}
Verdicts == {"none", "ok", "invalid", "replay", "deleted", "unknown", "revoked",
             "unrevoked", "error"}

\* The keys and the locals of the calls have their types, and a call that works
\* on a family has found one.
TypeOK ==
    /\ tokenFamily \in [Tokens -> Families \cup {NoFamily}]
    /\ current \in [Families -> Tokens \cup {NoToken}]
    /\ owner \in [Families -> Users \cup {NoUser}]
    /\ familyTokens \in [Families -> SUBSET Tokens]
    /\ userFamilies \in [Users -> SUBSET Families]
    /\ issued \subseteq Tokens
    /\ redeemed \subseteq Tokens
    /\ watching \subseteq Calls
    /\ pc \in [Calls -> CallPcs]
    /\ op \in [Calls -> {"none", "rotate", "delete", "revokeUser"}]
    /\ tok \in [Calls -> Tokens \cup {NoToken}]
    /\ fam \in [Calls -> Families \cup {NoFamily}]
    /\ usr \in [Calls -> Users \cup {NoUser}]
    /\ hashes \in [Calls -> SUBSET Tokens]
    /\ todo \in [Calls -> SUBSET Families]
    /\ target \in [Calls -> SUBSET Families]
    /\ verdict \in [Calls -> Verdicts]
    /\ revokes \in 0..MaxRevokes
    /\ \A c \in Calls : pc[c] \in {"rotateWatch", "rotateExec", "deleteRead", "revokeUser",
                                   "revokeList", "revokeExec"} => fam[c] \in Families

TF == INSTANCE TokenFamilies
        WITH owner <- owner, current <- current, issued <- issued, redeemed <- redeemed

\* The store implements TokenFamilies: whatever calls overlap, no token is
\* redeemed twice, a rotation replaces the current token of a live family, and
\* a family that is revoked or expired stays so, although RotateToken reads
\* the family and writes it in two commands and revokeFamily writes blindly.
ImplementsTokenFamilies == TF!Spec

\* A WATCH that has seen no write still describes the family.
WatchIsCurrent ==
    \A c \in watching :
        /\ pc[c] = "rotateExec"
        /\ current[fam[c]] = tok[c]
        /\ tok[c] # NoToken
        /\ usr[c] \in Users

\* A family is live with a token of its own that is issued and not redeemed.
CurrentIsFresh ==
    /\ redeemed \subseteq issued
    /\ \A f \in Families : Live(f) => current[f] \in issued \ redeemed /\ owner[f] # NoUser
    /\ \A f, g \in Families : Live(f) /\ current[f] = current[g] => f = g

\* What revokeFamily deletes are tokens of the family it revokes, as far as
\* other families can tell.
TokensOfFamily ==
    /\ \A f \in Families : familyTokens[f] \subseteq issued
    /\ \A c \in Calls : hashes[c] \subseteq issued
    /\ \A f, g \in Families : Live(g) /\ f # g => current[g] \notin familyTokens[f]
    /\ \A c \in Calls, g \in Families :
        pc[c] = "revokeExec" /\ Live(g) /\ fam[c] # g => current[g] \notin hashes[c]

\* A family that a key or a call names has been created: its id is not drawn again.
NamedFamilyCreated ==
    /\ \A t \in Tokens : tokenFamily[t] # NoFamily => owner[tokenFamily[t]] # NoUser
    /\ \A u \in Users : \A f \in userFamilies[u] : owner[f] # NoUser
    /\ \A c \in Calls : fam[c] # NoFamily => owner[fam[c]] # NoUser
    /\ \A c \in Calls : \A f \in todo[c] : owner[f] # NoUser

\* The holder of a live family's current token can always use it: no revocation
\* or expiry takes the token key and leaves the family.
CurrentTokenUsable == \A f \in Families : Live(f) => tokenFamily[current[f]] = f

\* When RotateToken has found a replay, or DeleteToken the family, and their
\* revokeFamily has run to its end, the family is dead when the call returns
\* and whatever runs later: a rotation that read the family before cannot bring
\* it back.
RevokedStaysDead ==
    \A c \in Calls :
        pc[c] = "idle" /\ verdict[c] \in {"replay", "deleted"} =>
            fam[c] \in Families /\ ~ Live(fam[c])

\* RevokeUserRefreshTokens has revoked, when it ends, every family of the user
\* that was live when it began: user_families lists them all, and none is
\* rotated out of its reach.
RevokeUserReachesAll ==
    \A c \in Calls :
        op[c] = "revokeUser" /\ pc[c] = "userNext" /\ todo[c] = {} =>
            \A f \in target[c] : ~ Live(f)
=============================================================================
