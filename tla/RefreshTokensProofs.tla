------------------------- MODULE RefreshTokensProofs -------------------------
(* Proofs about RefreshTokens for any number of tokens, families, users and  *)
(* concurrent calls: it implements TokenFamilies.                            *)
EXTENDS RefreshTokens, TLAPS

\* The types of a call's locals.
LocalsType ==
    /\ pc \in [Calls -> CallPcs]
    /\ op \in [Calls -> {"none", "rotate", "delete", "revokeUser"}]
    /\ tok \in [Calls -> Tokens \cup {NoToken}]
    /\ fam \in [Calls -> Families \cup {NoFamily}]
    /\ usr \in [Calls -> Users \cup {NoUser}]
    /\ hashes \in [Calls -> SUBSET Tokens]
    /\ todo \in [Calls -> SUBSET Families]
    /\ target \in [Calls -> SUBSET Families]
    /\ verdict \in [Calls -> Verdicts]
    /\ \A c \in Calls : pc[c] \in {"rotateWatch", "rotateExec", "deleteRead", "revokeUser",
                                   "revokeList", "revokeExec"} => fam[c] \in Families

\* A call that returns, or that finds its token's family, leaves well typed locals.
LEMMA ReturnType ==
    ASSUME TypeOK, NEW c \in Calls, NEW v \in Verdicts, Return(c, v), UNCHANGED fam
    PROVE  LocalsType'
BY DEF TypeOK, LocalsType, Return, Goto, CallPcs

\* The same for Lookup.
LEMMA LookupType ==
    ASSUME TypeOK, NEW c \in Calls, NEW t \in Tokens, tokenFamily[t] # NoFamily,
           NEW k \in {"rotate", "delete"}, NEW p \in {"rotateWatch", "deleteRead"}, Lookup(c, t, k, p)
    PROVE  LocalsType'
BY DEF TypeOK, LocalsType, Lookup, Goto, CallPcs, Verdicts

\* Every Redis command and every local assignment keeps the types.
LEMMA TypeStep ==
    ASSUME TypeOK, WatchIsCurrent, [Next]_vars
    PROVE  TypeOK'
<1> USE NoneAssumption, BoundsAssumption DEF TypeOK, CallPcs, Verdicts
<1>1. ASSUME NEW u \in Users, NewToken(u) PROVE TypeOK'
  BY <1>1 DEF NewToken, store, locals
<1>2. ASSUME NEW c \in Calls, NEW t \in Tokens, RotateGet(c, t) PROVE TypeOK'
  <2>1. CASE tokenFamily[t] = NoFamily
    <3>1. LocalsType'
      BY <1>2, <2>1, ReturnType DEF RotateGet, Verdicts
    <3> QED BY <1>2, <2>1, <3>1 DEF RotateGet, LocalsType, store
  <2>2. CASE tokenFamily[t] # NoFamily
    <3>1. Lookup(c, t, "rotate", "rotateWatch")
      BY <1>2, <2>2 DEF RotateGet
    <3>2. LocalsType'
      BY <2>2, <3>1, LookupType
    <3> QED BY <3>1, <3>2 DEF Lookup, LocalsType, store
  <2> QED BY <2>1, <2>2
<1>3. ASSUME NEW c \in Calls, NEW t \in Tokens, DeleteGet(c, t) PROVE TypeOK'
  <2>1. CASE tokenFamily[t] = NoFamily
    <3>1. LocalsType'
      BY <1>3, <2>1, ReturnType DEF DeleteGet, Verdicts
    <3> QED BY <1>3, <2>1, <3>1 DEF DeleteGet, LocalsType, store
  <2>2. CASE tokenFamily[t] # NoFamily
    <3>1. Lookup(c, t, "delete", "deleteRead")
      BY <1>3, <2>2 DEF DeleteGet
    <3>2. LocalsType'
      BY <2>2, <3>1, LookupType
    <3> QED BY <3>1, <3>2 DEF Lookup, LocalsType, store
  <2> QED BY <2>1, <2>2
<1>4. ASSUME NEW c \in Calls, RotateRead(c) PROVE TypeOK'
  BY <1>4 DEF RotateRead, Goto, Live, store, locals
<1>5. ASSUME NEW c \in Calls, RotateExec(c) PROVE TypeOK'
  <2>1. LocalsType'
    BY <1>5, ReturnType DEF RotateExec
  <2>t. PICK t \in Tokens :
            /\ tokenFamily' = [tokenFamily EXCEPT ![t] = fam[c]]
            /\ current' = [current EXCEPT ![fam[c]] = t]
            /\ familyTokens' = [familyTokens EXCEPT ![fam[c]] = @ \cup {t}]
            /\ userFamilies' = [userFamilies EXCEPT ![usr[c]] = @ \cup {fam[c]}]
            /\ issued' = issued \cup {t}
            /\ redeemed' = redeemed \cup {tok[c]}
    BY <1>5 DEF RotateExec
  <2>f. fam[c] \in Families /\ pc[c] = "rotateExec" /\ c \in watching
    BY <1>5 DEF RotateExec
  <2>2. /\ tokenFamily' \in [Tokens -> Families \cup {NoFamily}]
        /\ current' \in [Families -> Tokens \cup {NoToken}]
        /\ familyTokens' \in [Families -> SUBSET Tokens]
    BY <2>t, <2>f
  <2>3. issued' \subseteq Tokens /\ redeemed' \subseteq Tokens /\ watching' \subseteq Calls
    BY <1>5, <2>t, <2>f DEF RotateExec, BreakWatches, WatchIsCurrent
  <2>4. userFamilies' \in [Users -> SUBSET Families]
    <3>1. CASE usr[c] \in Users
      BY <2>t, <2>f, <3>1
    <3>2. CASE usr[c] \notin Users
      <4>1. userFamilies' = userFamilies
        BY <2>t, <3>2
      <4> QED BY <4>1
    <3> QED BY <3>1, <3>2
  <2> QED BY <1>5, <2>1, <2>2, <2>3, <2>4 DEF RotateExec, LocalsType
<1>6. ASSUME NEW c \in Calls, RotateTxFailed(c) PROVE TypeOK'
  BY <1>6 DEF RotateTxFailed, Goto, store, locals
<1>7. ASSUME NEW c \in Calls, DeleteRead(c) PROVE TypeOK'
  BY <1>7, SMTT(30) DEF DeleteRead, Goto, Live, store, locals
<1>8. ASSUME NEW c \in Calls, RevokeReadUser(c) PROVE TypeOK'
  BY <1>8 DEF RevokeReadUser, Goto, Live, store, locals
<1>9. ASSUME NEW c \in Calls, RevokeList(c) PROVE TypeOK'
  BY <1>9 DEF RevokeList, Goto, store, locals
<1>10. ASSUME NEW c \in Calls, RevokeExec(c) PROVE TypeOK'
  <2>1. LocalsType'
    <3>1. CASE op[c] = "revokeUser"
      BY <1>10, <3>1 DEF RevokeExec, Goto, LocalsType
    <3>2. CASE op[c] # "revokeUser"
      BY <1>10, <3>2, ReturnType DEF RevokeExec
    <3> QED BY <3>1, <3>2
  <2>2. /\ tokenFamily' \in [Tokens -> Families \cup {NoFamily}]
        /\ current' \in [Families -> Tokens \cup {NoToken}]
        /\ familyTokens' \in [Families -> SUBSET Tokens]
        /\ userFamilies' \in [Users -> SUBSET Families]
        /\ watching' \subseteq Calls
    BY <1>10 DEF RevokeExec, DeleteFamily, BreakWatches
  <2> QED BY <1>10, <2>1, <2>2 DEF RevokeExec, LocalsType
<1>11. ASSUME NEW c \in Calls, UserRevokeBegin(c) PROVE TypeOK'
  BY <1>11 DEF UserRevokeBegin, Goto, Live, store, locals
<1>12. ASSUME NEW c \in Calls, UserRevokeNext(c) PROVE TypeOK'
  BY <1>12 DEF UserRevokeNext, Goto, store, locals
<1>13. ASSUME NEW c \in Calls, UserRevokeEnd(c) PROVE TypeOK'
  <2>1. LocalsType'
    BY <1>13, ReturnType DEF UserRevokeEnd
  <2>2. userFamilies' \in [Users -> SUBSET Families]
    BY <1>13 DEF UserRevokeEnd
  <2> QED BY <1>13, <2>1, <2>2 DEF UserRevokeEnd, LocalsType
<1>14. ASSUME NEW c \in Calls, RedisError(c) PROVE TypeOK'
  <2>1. LocalsType'
    BY <1>14, ReturnType DEF RedisError
  <2> QED BY <1>14, <2>1 DEF RedisError, LocalsType, store
<1>15. ASSUME NEW t \in Tokens, ExpireToken(t) PROVE TypeOK'
  BY <1>15 DEF ExpireToken, store, locals
<1>16. ASSUME NEW f \in Families, ExpireFamily(f) PROVE TypeOK'
  BY <1>16 DEF ExpireFamily, DeleteFamily, BreakWatches, Live, store, locals
<1>17. CASE UNCHANGED vars
  BY <1>17 DEF vars, store, locals
<1> QED
  BY <1>1, <1>2, <1>3, <1>4, <1>5, <1>6, <1>7, <1>8, <1>9, <1>10, <1>11,
     <1>12, <1>13, <1>14, <1>15, <1>16, <1>17 DEF Next, CallStep

\* Every write to a family breaks the watches on it, so an intact watch tells
\* the truth.
LEMMA WatchStep ==
    ASSUME TypeOK, WatchIsCurrent, CurrentIsFresh, [Next]_vars
    PROVE  WatchIsCurrent'
<1> USE NoneAssumption DEF TypeOK, WatchIsCurrent
<1>1. ASSUME NEW u \in Users, NewToken(u) PROVE WatchIsCurrent'
  BY <1>1 DEF NewToken, CurrentIsFresh, Live, locals
<1>2. ASSUME NEW c \in Calls, NEW t \in Tokens, RotateGet(c, t) PROVE WatchIsCurrent'
  BY <1>2 DEF RotateGet, Presents, Return, Lookup, Goto, store, locals
<1>3. ASSUME NEW c \in Calls, NEW t \in Tokens, DeleteGet(c, t) PROVE WatchIsCurrent'
  BY <1>3 DEF DeleteGet, Return, Lookup, Goto, store, locals
<1>4. ASSUME NEW c \in Calls, RotateRead(c) PROVE WatchIsCurrent'
  BY <1>4 DEF RotateRead, Goto, Live, CurrentIsFresh, store
<1>5. ASSUME NEW c \in Calls, RotateExec(c) PROVE WatchIsCurrent'
  BY <1>5 DEF RotateExec, Return, Goto, BreakWatches, store, locals
<1>6. ASSUME NEW c \in Calls, RotateTxFailed(c) PROVE WatchIsCurrent'
  BY <1>6 DEF RotateTxFailed, Goto, store, locals
<1>7. ASSUME NEW c \in Calls, DeleteRead(c) PROVE WatchIsCurrent'
  BY <1>7 DEF DeleteRead, Goto, Live, store, locals
<1>8. ASSUME NEW c \in Calls, RevokeReadUser(c) PROVE WatchIsCurrent'
  BY <1>8 DEF RevokeReadUser, Goto, Live, store, locals
<1>9. ASSUME NEW c \in Calls, RevokeList(c) PROVE WatchIsCurrent'
  BY <1>9 DEF RevokeList, Goto, store, locals
<1>10. ASSUME NEW c \in Calls, RevokeExec(c) PROVE WatchIsCurrent'
  BY <1>10 DEF RevokeExec, Return, Goto, DeleteFamily, BreakWatches, store, locals
<1>11. ASSUME NEW c \in Calls, UserRevokeBegin(c) PROVE WatchIsCurrent'
  BY <1>11 DEF UserRevokeBegin, Goto, Live, store, locals
<1>12. ASSUME NEW c \in Calls, UserRevokeNext(c) PROVE WatchIsCurrent'
  BY <1>12 DEF UserRevokeNext, Goto, store, locals
<1>13. ASSUME NEW c \in Calls, UserRevokeEnd(c) PROVE WatchIsCurrent'
  BY <1>13 DEF UserRevokeEnd, Return, Goto, store, locals
<1>14. ASSUME NEW c \in Calls, RedisError(c) PROVE WatchIsCurrent'
  BY <1>14 DEF RedisError, Return, Goto, store, locals
<1>15. ASSUME NEW t \in Tokens, ExpireToken(t) PROVE WatchIsCurrent'
  BY <1>15 DEF ExpireToken, store, locals
<1>16. ASSUME NEW f \in Families, ExpireFamily(f) PROVE WatchIsCurrent'
  BY <1>16 DEF ExpireFamily, DeleteFamily, BreakWatches, Live, store, locals
<1>17. CASE UNCHANGED vars
  BY <1>17 DEF vars, store, locals
<1> QED
  BY <1>1, <1>2, <1>3, <1>4, <1>5, <1>6, <1>7, <1>8, <1>9, <1>10, <1>11,
     <1>12, <1>13, <1>14, <1>15, <1>16, <1>17 DEF Next, CallStep

\* A rotation puts a fresh token in the place of the one it redeems.
LEMMA FreshStep ==
    ASSUME TypeOK, WatchIsCurrent, CurrentIsFresh, [Next]_vars
    PROVE  CurrentIsFresh'
<1> USE NoneAssumption DEF TypeOK, CurrentIsFresh, Live
<1>1. ASSUME NEW u \in Users, NewToken(u) PROVE CurrentIsFresh'
  BY <1>1 DEF NewToken, store, locals
<1>2. ASSUME NEW c \in Calls, NEW t \in Tokens, RotateGet(c, t) PROVE CurrentIsFresh'
  BY <1>2 DEF RotateGet, Presents, Return, Lookup, Goto, store, locals
<1>3. ASSUME NEW c \in Calls, NEW t \in Tokens, DeleteGet(c, t) PROVE CurrentIsFresh'
  BY <1>3 DEF DeleteGet, Return, Lookup, Goto, store, locals
<1>4. ASSUME NEW c \in Calls, RotateRead(c) PROVE CurrentIsFresh'
  BY <1>4 DEF RotateRead, Goto, Live, store, locals
<1>5. ASSUME NEW c \in Calls, RotateExec(c) PROVE CurrentIsFresh'
  BY <1>5 DEF RotateExec, WatchIsCurrent
<1>6. ASSUME NEW c \in Calls, RotateTxFailed(c) PROVE CurrentIsFresh'
  BY <1>6 DEF RotateTxFailed, Goto, store, locals
<1>7. ASSUME NEW c \in Calls, DeleteRead(c) PROVE CurrentIsFresh'
  BY <1>7 DEF DeleteRead, Goto, Live, store, locals
<1>8. ASSUME NEW c \in Calls, RevokeReadUser(c) PROVE CurrentIsFresh'
  BY <1>8 DEF RevokeReadUser, Goto, Live, store, locals
<1>9. ASSUME NEW c \in Calls, RevokeList(c) PROVE CurrentIsFresh'
  BY <1>9 DEF RevokeList, Goto, store, locals
<1>10. ASSUME NEW c \in Calls, RevokeExec(c) PROVE CurrentIsFresh'
  BY <1>10 DEF RevokeExec, Return, Goto, DeleteFamily, BreakWatches, store, locals
<1>11. ASSUME NEW c \in Calls, UserRevokeBegin(c) PROVE CurrentIsFresh'
  BY <1>11 DEF UserRevokeBegin, Goto, Live, store, locals
<1>12. ASSUME NEW c \in Calls, UserRevokeNext(c) PROVE CurrentIsFresh'
  BY <1>12 DEF UserRevokeNext, Goto, store, locals
<1>13. ASSUME NEW c \in Calls, UserRevokeEnd(c) PROVE CurrentIsFresh'
  BY <1>13 DEF UserRevokeEnd, Return, Goto, store, locals
<1>14. ASSUME NEW c \in Calls, RedisError(c) PROVE CurrentIsFresh'
  BY <1>14 DEF RedisError, Return, Goto, store, locals
<1>15. ASSUME NEW t \in Tokens, ExpireToken(t) PROVE CurrentIsFresh'
  BY <1>15 DEF ExpireToken, store, locals
<1>16. ASSUME NEW f \in Families, ExpireFamily(f) PROVE CurrentIsFresh'
  BY <1>16 DEF ExpireFamily, DeleteFamily, BreakWatches, Live, store, locals
<1>17. CASE UNCHANGED vars
  BY <1>17 DEF vars, store, locals
<1> QED
  BY <1>1, <1>2, <1>3, <1>4, <1>5, <1>6, <1>7, <1>8, <1>9, <1>10, <1>11,
     <1>12, <1>13, <1>14, <1>15, <1>16, <1>17 DEF Next, CallStep

\* The keys and locals have their types in every reachable state, and an intact
\* WATCH still describes its family, whose current token has not been redeemed.
THEOREM TypeCorrect == Spec => [](TypeOK /\ WatchIsCurrent /\ CurrentIsFresh)
<1>1. Init => TypeOK /\ WatchIsCurrent /\ CurrentIsFresh
  BY BoundsAssumption DEF Init, TypeOK, CallPcs, Verdicts, WatchIsCurrent, CurrentIsFresh, Live
<1> QED BY <1>1, TypeStep, WatchStep, FreshStep, PTL DEF Spec

-----------------------------------------------------------------------------
(* Refinement *)

\* What a successful rotation does.
LEMMA RotateExecEffect ==
    ASSUME TypeOK, WatchIsCurrent, NEW c \in Calls, RotateExec(c)
    PROVE  /\ fam[c] \in Families
           /\ current[fam[c]] = tok[c]
           /\ tok[c] \in Tokens
           /\ \E t \in Tokens :
                /\ t \notin issued
                /\ tokenFamily' = [tokenFamily EXCEPT ![t] = fam[c]]
                /\ current' = [current EXCEPT ![fam[c]] = t]
                /\ familyTokens' = [familyTokens EXCEPT ![fam[c]] = @ \cup {t}]
                /\ issued' = issued \cup {t}
                /\ redeemed' = redeemed \cup {tok[c]}
           /\ UNCHANGED <<owner, fam>>
           /\ pc' = [pc EXCEPT ![c] = "idle"]
           /\ hashes' = [hashes EXCEPT ![c] = {}]
BY NoneAssumption, ZenonT(30) DEF TypeOK, WatchIsCurrent, RotateExec, Return, Goto

\* Every step of the store is a step of TokenFamilies or leaves it alone.
LEMMA StepRefines ==
    ASSUME TypeOK, WatchIsCurrent, CurrentIsFresh, [Next]_vars
    PROVE  [TF!Next]_(TF!vars)
<1> USE NoneAssumption
<1>1. ASSUME NEW u \in Users, NewToken(u) PROVE [TF!Next]_(TF!vars)
  BY <1>1 DEF NewToken, TF!Next, TF!Issue
<1>2. ASSUME NEW c \in Calls, NEW t \in Tokens, RotateGet(c, t) PROVE [TF!Next]_(TF!vars)
  BY <1>2 DEF RotateGet, Return, Lookup, Goto, store, TF!vars
<1>3. ASSUME NEW c \in Calls, NEW t \in Tokens, DeleteGet(c, t) PROVE [TF!Next]_(TF!vars)
  BY <1>3 DEF DeleteGet, Return, Lookup, Goto, store, TF!vars
<1>4. ASSUME NEW c \in Calls, RotateRead(c) PROVE [TF!Next]_(TF!vars)
  BY <1>4 DEF RotateRead, Goto, store, TF!vars
<1>5. ASSUME NEW c \in Calls, RotateExec(c) PROVE [TF!Next]_(TF!vars)
  <2>1. current[fam[c]] # NoToken /\ current[fam[c]] \notin redeemed /\ fam[c] \in Families
    BY <1>5, RotateExecEffect DEF CurrentIsFresh, Live
  <2>2. \E t \in Tokens : TF!Redeem(fam[c], t)
    BY <1>5, <2>1, RotateExecEffect DEF TF!Redeem
  <2> QED BY <2>1, <2>2 DEF TF!Next
<1>6. ASSUME NEW c \in Calls, RotateTxFailed(c) PROVE [TF!Next]_(TF!vars)
  BY <1>6 DEF RotateTxFailed, Goto, store, TF!vars
<1>7. ASSUME NEW c \in Calls, DeleteRead(c) PROVE [TF!Next]_(TF!vars)
  BY <1>7 DEF DeleteRead, Goto, store, TF!vars
<1>8. ASSUME NEW c \in Calls, RevokeReadUser(c) PROVE [TF!Next]_(TF!vars)
  BY <1>8 DEF RevokeReadUser, Goto, store, TF!vars
<1>9. ASSUME NEW c \in Calls, RevokeList(c) PROVE [TF!Next]_(TF!vars)
  BY <1>9 DEF RevokeList, Goto, store, TF!vars
<1>10. ASSUME NEW c \in Calls, RevokeExec(c) PROVE [TF!Next]_(TF!vars)
  <2>1. fam[c] \in Families /\ current' = [current EXCEPT ![fam[c]] = NoToken] /\ UNCHANGED <<owner, issued, redeemed>>
    BY <1>10 DEF RevokeExec, DeleteFamily, TypeOK
  <2>2. CASE Live(fam[c])
    BY <2>1, <2>2 DEF Live, TF!Next, TF!Revoke
  <2>3. CASE ~ Live(fam[c])
    <3>1. current' = current
      BY <2>1, <2>3 DEF Live, TypeOK
    <3> QED BY <2>1, <3>1 DEF TF!vars
  <2> QED BY <2>2, <2>3
<1>11. ASSUME NEW c \in Calls, UserRevokeBegin(c) PROVE [TF!Next]_(TF!vars)
  BY <1>11 DEF UserRevokeBegin, Goto, store, TF!vars
<1>12. ASSUME NEW c \in Calls, UserRevokeNext(c) PROVE [TF!Next]_(TF!vars)
  BY <1>12 DEF UserRevokeNext, Goto, store, TF!vars
<1>13. ASSUME NEW c \in Calls, UserRevokeEnd(c) PROVE [TF!Next]_(TF!vars)
  BY <1>13 DEF UserRevokeEnd, Return, Goto, store, TF!vars
<1>14. ASSUME NEW c \in Calls, RedisError(c) PROVE [TF!Next]_(TF!vars)
  BY <1>14 DEF RedisError, Return, Goto, store, TF!vars
<1>15. ASSUME NEW t \in Tokens, ExpireToken(t) PROVE [TF!Next]_(TF!vars)
  BY <1>15 DEF ExpireToken, TF!vars
<1>16. ASSUME NEW f \in Families, ExpireFamily(f) PROVE [TF!Next]_(TF!vars)
  BY <1>16 DEF ExpireFamily, DeleteFamily, Live, TF!Next, TF!Revoke
<1>17. CASE UNCHANGED vars
  BY <1>17 DEF vars, store, TF!vars
<1> QED
  BY <1>1, <1>2, <1>3, <1>4, <1>5, <1>6, <1>7, <1>8, <1>9, <1>10, <1>11,
     <1>12, <1>13, <1>14, <1>15, <1>16, <1>17 DEF Next, CallStep

\* The Redis store implements TokenFamilies for any number of overlapping calls,
\* Redis errors and expiries included.
THEOREM Refinement == Spec => ImplementsTokenFamilies
<1>1. Init => TF!Init
  BY DEF Init, TF!Init
<1> QED BY <1>1, StepRefines, TypeCorrect, PTL DEF Spec, ImplementsTokenFamilies, TF!Spec

-----------------------------------------------------------------------------
(* The current token of a live family is usable. *)

\* A token belongs to one family: no other family lists it and no call that
\* revokes another family has read it.
LEMMA TokensOfFamilyStep ==
    ASSUME TypeOK, WatchIsCurrent, CurrentIsFresh, TokensOfFamily, [Next]_vars
    PROVE  TokensOfFamily'
<1> USE NoneAssumption DEF TypeOK, TokensOfFamily, CurrentIsFresh, Live
<1>1. ASSUME NEW u \in Users, NewToken(u) PROVE TokensOfFamily'
  BY <1>1 DEF NewToken, store, locals
<1>2. ASSUME NEW c \in Calls, NEW t \in Tokens, RotateGet(c, t) PROVE TokensOfFamily'
  <2>1. CASE tokenFamily[t] = NoFamily
    BY <1>2, <2>1, SMTT(30) DEF RotateGet, Presents, Return, Goto, store
  <2>2. CASE tokenFamily[t] # NoFamily
    BY <1>2, <2>2 DEF RotateGet, Presents, Lookup, Goto, store
  <2> QED BY <2>1, <2>2
<1>3. ASSUME NEW c \in Calls, NEW t \in Tokens, DeleteGet(c, t) PROVE TokensOfFamily'
  <2>1. CASE tokenFamily[t] = NoFamily
    BY <1>3, <2>1, SMTT(30) DEF DeleteGet, Return, Goto, store
  <2>2. CASE tokenFamily[t] # NoFamily
    BY <1>3, <2>2 DEF DeleteGet, Lookup, Goto, store
  <2> QED BY <2>1, <2>2
<1>4. ASSUME NEW c \in Calls, RotateRead(c) PROVE TokensOfFamily'
  BY <1>4 DEF RotateRead, Goto, Live, store, locals
<1>5. ASSUME NEW c \in Calls, RotateExec(c) PROVE TokensOfFamily'
  <2> HIDE DEF TypeOK, TokensOfFamily, CurrentIsFresh
  <2>1. PICK t \in Tokens :
            /\ t \notin issued
            /\ current' = [current EXCEPT ![fam[c]] = t]
            /\ familyTokens' = [familyTokens EXCEPT ![fam[c]] = @ \cup {t}]
            /\ issued' = issued \cup {t}
    BY <1>5, RotateExecEffect
  <2>2. fam[c] \in Families /\ Live(fam[c])
    BY <1>5, RotateExecEffect DEF Live
  <2>3. /\ fam' = fam
        /\ \A d \in Calls : pc'[d] = "revokeExec" => pc[d] = "revokeExec"
        /\ \A d \in Calls : hashes'[d] \subseteq hashes[d]
    BY <1>5, RotateExecEffect DEF TypeOK
  <2>4. \A f \in Families : /\ familyTokens'[f] = IF f = fam[c] THEN familyTokens[f] \cup {t} ELSE familyTokens[f]
                            /\ current'[f] = IF f = fam[c] THEN t ELSE current[f]
    BY <2>1, <2>2 DEF TypeOK
  <2>5. \A f, g \in Families : Live(g)' /\ f # g => current'[g] \notin familyTokens'[f]
    BY <2>1, <2>2, <2>4 DEF TokensOfFamily, CurrentIsFresh, Live
  <2>6. \A d \in Calls, g \in Families :
            pc'[d] = "revokeExec" /\ Live(g)' /\ fam'[d] # g => current'[g] \notin hashes'[d]
    BY <2>1, <2>2, <2>3, <2>4 DEF TokensOfFamily, Live
  <2>7. /\ \A f \in Families : familyTokens'[f] \subseteq issued'
        /\ \A d \in Calls : hashes'[d] \subseteq issued'
    BY <2>1, <2>3, <2>4 DEF TokensOfFamily
  <2> QED BY <2>5, <2>6, <2>7 DEF TokensOfFamily
<1>6. ASSUME NEW c \in Calls, RotateTxFailed(c) PROVE TokensOfFamily'
  BY <1>6 DEF RotateTxFailed, Goto, store, locals
<1>7. ASSUME NEW c \in Calls, DeleteRead(c) PROVE TokensOfFamily'
  BY <1>7 DEF DeleteRead, Goto, Live, store, locals
<1>8. ASSUME NEW c \in Calls, RevokeReadUser(c) PROVE TokensOfFamily'
  BY <1>8 DEF RevokeReadUser, Goto, Live, store, locals
<1>9. ASSUME NEW c \in Calls, RevokeList(c) PROVE TokensOfFamily'
  BY <1>9 DEF RevokeList, Goto, store, locals
<1>10. ASSUME NEW c \in Calls, RevokeExec(c) PROVE TokensOfFamily'
  BY <1>10, SMTT(30) DEF RevokeExec, Return, Goto, DeleteFamily, BreakWatches, store, locals
<1>11. ASSUME NEW c \in Calls, UserRevokeBegin(c) PROVE TokensOfFamily'
  BY <1>11 DEF UserRevokeBegin, Goto, Live, store, locals
<1>12. ASSUME NEW c \in Calls, UserRevokeNext(c) PROVE TokensOfFamily'
  BY <1>12 DEF UserRevokeNext, Goto, store, locals
<1>13. ASSUME NEW c \in Calls, UserRevokeEnd(c) PROVE TokensOfFamily'
  BY <1>13 DEF UserRevokeEnd, Return, Goto, store, locals
<1>14. ASSUME NEW c \in Calls, RedisError(c) PROVE TokensOfFamily'
  <2>1. /\ UNCHANGED <<issued, current, familyTokens, fam>>
        /\ hashes' = [hashes EXCEPT ![c] = {}]
        /\ pc' = [pc EXCEPT ![c] = "idle"]
    BY <1>14 DEF RedisError, Return, Goto, store
  <2> QED BY <2>1
<1>15. ASSUME NEW t \in Tokens, ExpireToken(t) PROVE TokensOfFamily'
  BY <1>15 DEF ExpireToken, store, locals
<1>16. ASSUME NEW f \in Families, ExpireFamily(f) PROVE TokensOfFamily'
  BY <1>16 DEF ExpireFamily, DeleteFamily, BreakWatches, Live, store, locals
<1>17. CASE UNCHANGED vars
  BY <1>17 DEF vars, store, locals
<1> QED
  BY <1>1, <1>2, <1>3, <1>4, <1>5, <1>6, <1>7, <1>8, <1>9, <1>10, <1>11,
     <1>12, <1>13, <1>14, <1>15, <1>16, <1>17 DEF Next, CallStep

\* No step takes the key of a current token and leaves its family.
LEMMA CurrentTokenUsableStep ==
    ASSUME TypeOK, WatchIsCurrent, CurrentIsFresh, TokensOfFamily, CurrentTokenUsable, [Next]_vars
    PROVE  CurrentTokenUsable'
<1> USE NoneAssumption DEF TypeOK, CurrentTokenUsable, CurrentIsFresh, Live
<1>1. ASSUME NEW u \in Users, NewToken(u) PROVE CurrentTokenUsable'
  BY <1>1 DEF NewToken, store, locals
<1>2. ASSUME NEW c \in Calls, NEW t \in Tokens, RotateGet(c, t) PROVE CurrentTokenUsable'
  BY <1>2 DEF RotateGet, Presents, Return, Lookup, Goto, store, locals
<1>3. ASSUME NEW c \in Calls, NEW t \in Tokens, DeleteGet(c, t) PROVE CurrentTokenUsable'
  BY <1>3 DEF DeleteGet, Return, Lookup, Goto, store, locals
<1>4. ASSUME NEW c \in Calls, RotateRead(c) PROVE CurrentTokenUsable'
  BY <1>4 DEF RotateRead, Goto, Live, store, locals
<1>5. ASSUME NEW c \in Calls, RotateExec(c) PROVE CurrentTokenUsable'
  BY <1>5 DEF RotateExec, Return, Goto, BreakWatches, store, locals
<1>6. ASSUME NEW c \in Calls, RotateTxFailed(c) PROVE CurrentTokenUsable'
  BY <1>6 DEF RotateTxFailed, Goto, store, locals
<1>7. ASSUME NEW c \in Calls, DeleteRead(c) PROVE CurrentTokenUsable'
  BY <1>7 DEF DeleteRead, Goto, Live, store, locals
<1>8. ASSUME NEW c \in Calls, RevokeReadUser(c) PROVE CurrentTokenUsable'
  BY <1>8 DEF RevokeReadUser, Goto, Live, store, locals
<1>9. ASSUME NEW c \in Calls, RevokeList(c) PROVE CurrentTokenUsable'
  BY <1>9 DEF RevokeList, Goto, store, locals
<1>10. ASSUME NEW c \in Calls, RevokeExec(c) PROVE CurrentTokenUsable'
  BY <1>10 DEF RevokeExec, DeleteFamily, TokensOfFamily
<1>11. ASSUME NEW c \in Calls, UserRevokeBegin(c) PROVE CurrentTokenUsable'
  BY <1>11 DEF UserRevokeBegin, Goto, Live, store, locals
<1>12. ASSUME NEW c \in Calls, UserRevokeNext(c) PROVE CurrentTokenUsable'
  BY <1>12 DEF UserRevokeNext, Goto, store, locals
<1>13. ASSUME NEW c \in Calls, UserRevokeEnd(c) PROVE CurrentTokenUsable'
  BY <1>13 DEF UserRevokeEnd, Return, Goto, store, locals
<1>14. ASSUME NEW c \in Calls, RedisError(c) PROVE CurrentTokenUsable'
  BY <1>14 DEF RedisError, Return, Goto, store, locals
<1>15. ASSUME NEW t \in Tokens, ExpireToken(t) PROVE CurrentTokenUsable'
  BY <1>15 DEF ExpireToken, store, locals
<1>16. ASSUME NEW f \in Families, ExpireFamily(f) PROVE CurrentTokenUsable'
  BY <1>16 DEF ExpireFamily, DeleteFamily, BreakWatches, Live, store, locals
<1>17. CASE UNCHANGED vars
  BY <1>17 DEF vars, store, locals
<1> QED
  BY <1>1, <1>2, <1>3, <1>4, <1>5, <1>6, <1>7, <1>8, <1>9, <1>10, <1>11,
     <1>12, <1>13, <1>14, <1>15, <1>16, <1>17 DEF Next, CallStep

\* The holder of the current token of a live family is never locked out.
THEOREM CurrentTokenUsableCorrect == Spec => []CurrentTokenUsable
<1>1. Init => TokensOfFamily /\ CurrentTokenUsable
  BY DEF Init, TokensOfFamily, CurrentTokenUsable, Live
<1> QED BY <1>1, TokensOfFamilyStep, CurrentTokenUsableStep, TypeCorrect, PTL DEF Spec

-----------------------------------------------------------------------------
(* Revoked families stay dead. *)

\* Every family id that is stored anywhere has been drawn.
LEMMA NamedFamilyStep ==
    ASSUME TypeOK, WatchIsCurrent, CurrentIsFresh, NamedFamilyCreated, [Next]_vars
    PROVE  NamedFamilyCreated'
<1> USE NoneAssumption DEF TypeOK, NamedFamilyCreated
<1>1. ASSUME NEW u \in Users, NewToken(u) PROVE NamedFamilyCreated'
  BY <1>1 DEF NewToken, store, locals
<1>2. ASSUME NEW c \in Calls, NEW t \in Tokens, RotateGet(c, t) PROVE NamedFamilyCreated'
  BY <1>2 DEF RotateGet, Presents, Return, Lookup, Goto, store, locals
<1>3. ASSUME NEW c \in Calls, NEW t \in Tokens, DeleteGet(c, t) PROVE NamedFamilyCreated'
  <2>1. CASE tokenFamily[t] = NoFamily
    BY <1>3, <2>1 DEF DeleteGet, Return, Goto, store
  <2>2. CASE tokenFamily[t] # NoFamily
    BY <1>3, <2>2 DEF DeleteGet, Lookup, Goto, store
  <2> QED BY <2>1, <2>2
<1>4. ASSUME NEW c \in Calls, RotateRead(c) PROVE NamedFamilyCreated'
  BY <1>4 DEF RotateRead, Goto, Live, store, locals
<1>5. ASSUME NEW c \in Calls, RotateExec(c) PROVE NamedFamilyCreated'
  <2>1. /\ fam[c] \in Families
        /\ owner[fam[c]] # NoUser
        /\ UNCHANGED <<owner, fam>>
    BY <1>5 DEF RotateExec
  <2>2. /\ \A t \in Tokens : tokenFamily'[t] \in {tokenFamily[t], fam[c]}
        /\ \A u \in Users : userFamilies'[u] \subseteq userFamilies[u] \cup {fam[c]}
    BY <1>5, <2>1 DEF RotateExec
  <2>3. \A d \in Calls : todo'[d] \subseteq todo[d]
    BY <1>5 DEF RotateExec, Return
  <2> QED BY <2>1, <2>2, <2>3
<1>6. ASSUME NEW c \in Calls, RotateTxFailed(c) PROVE NamedFamilyCreated'
  BY <1>6 DEF RotateTxFailed, Goto, store, locals
<1>7. ASSUME NEW c \in Calls, DeleteRead(c) PROVE NamedFamilyCreated'
  BY <1>7 DEF DeleteRead, Goto, Live, store, locals
<1>8. ASSUME NEW c \in Calls, RevokeReadUser(c) PROVE NamedFamilyCreated'
  BY <1>8 DEF RevokeReadUser, Goto, Live, store, locals
<1>9. ASSUME NEW c \in Calls, RevokeList(c) PROVE NamedFamilyCreated'
  BY <1>9 DEF RevokeList, Goto, store, locals
<1>10. ASSUME NEW c \in Calls, RevokeExec(c) PROVE NamedFamilyCreated'
  BY <1>10 DEF RevokeExec, Return, Goto, DeleteFamily, BreakWatches, store, locals
<1>11. ASSUME NEW c \in Calls, UserRevokeBegin(c) PROVE NamedFamilyCreated'
  BY <1>11 DEF UserRevokeBegin, Goto, Live, store, locals
<1>12. ASSUME NEW c \in Calls, UserRevokeNext(c) PROVE NamedFamilyCreated'
  BY <1>12 DEF UserRevokeNext, Goto, store, locals
<1>13. ASSUME NEW c \in Calls, UserRevokeEnd(c) PROVE NamedFamilyCreated'
  BY <1>13 DEF UserRevokeEnd, Return, Goto, store, locals
<1>14. ASSUME NEW c \in Calls, RedisError(c) PROVE NamedFamilyCreated'
  BY <1>14 DEF RedisError, Return, Goto, store, locals
<1>15. ASSUME NEW t \in Tokens, ExpireToken(t) PROVE NamedFamilyCreated'
  BY <1>15 DEF ExpireToken, store, locals
<1>16. ASSUME NEW f \in Families, ExpireFamily(f) PROVE NamedFamilyCreated'
  BY <1>16 DEF ExpireFamily, DeleteFamily, BreakWatches, Live, store, locals
<1>17. CASE UNCHANGED vars
  BY <1>17 DEF vars, store, locals
<1> QED
  BY <1>1, <1>2, <1>3, <1>4, <1>5, <1>6, <1>7, <1>8, <1>9, <1>10, <1>11,
     <1>12, <1>13, <1>14, <1>15, <1>16, <1>17 DEF Next, CallStep

\* A dead family is written by no rotation, whose WATCH would be broken, and
\* its id is not drawn again.
LEMMA RevokedStaysDeadStep ==
    ASSUME TypeOK, WatchIsCurrent, NamedFamilyCreated, RevokedStaysDead, [Next]_vars
    PROVE  RevokedStaysDead'
<1> USE NoneAssumption DEF TypeOK, RevokedStaysDead, Live
<1>1. ASSUME NEW u \in Users, NewToken(u) PROVE RevokedStaysDead'
  BY <1>1 DEF NewToken, NamedFamilyCreated, locals
<1>2. ASSUME NEW c \in Calls, NEW t \in Tokens, RotateGet(c, t) PROVE RevokedStaysDead'
  BY <1>2 DEF RotateGet, Presents, Return, Lookup, Goto, store, locals
<1>3. ASSUME NEW c \in Calls, NEW t \in Tokens, DeleteGet(c, t) PROVE RevokedStaysDead'
  BY <1>3 DEF DeleteGet, Return, Lookup, Goto, store, locals
<1>4. ASSUME NEW c \in Calls, RotateRead(c) PROVE RevokedStaysDead'
  BY <1>4 DEF RotateRead, Goto, Live, store, locals
<1>5. ASSUME NEW c \in Calls, RotateExec(c) PROVE RevokedStaysDead'
  <2>1. /\ fam[c] \in Families
        /\ Live(fam[c])
        /\ UNCHANGED fam
        /\ \A f \in Families : f # fam[c] => current'[f] = current[f]
    BY <1>5, RotateExecEffect
  <2>2. /\ verdict'[c] \in {"ok", "error"}
        /\ \A d \in Calls : d # c => verdict'[d] = verdict[d] /\ pc'[d] = pc[d]
    BY <1>5 DEF RotateExec, Return, Goto
  <2> QED BY <2>1, <2>2
<1>6. ASSUME NEW c \in Calls, RotateTxFailed(c) PROVE RevokedStaysDead'
  BY <1>6 DEF RotateTxFailed, Goto, store, locals
<1>7. ASSUME NEW c \in Calls, DeleteRead(c) PROVE RevokedStaysDead'
  BY <1>7 DEF DeleteRead, Goto, Live, store, locals
<1>8. ASSUME NEW c \in Calls, RevokeReadUser(c) PROVE RevokedStaysDead'
  BY <1>8 DEF RevokeReadUser, Goto, Live, store, locals
<1>9. ASSUME NEW c \in Calls, RevokeList(c) PROVE RevokedStaysDead'
  BY <1>9 DEF RevokeList, Goto, store, locals
<1>10. ASSUME NEW c \in Calls, RevokeExec(c) PROVE RevokedStaysDead'
  BY <1>10 DEF RevokeExec, Return, Goto, DeleteFamily, BreakWatches, store, locals
<1>11. ASSUME NEW c \in Calls, UserRevokeBegin(c) PROVE RevokedStaysDead'
  BY <1>11 DEF UserRevokeBegin, Goto, Live, store, locals
<1>12. ASSUME NEW c \in Calls, UserRevokeNext(c) PROVE RevokedStaysDead'
  BY <1>12 DEF UserRevokeNext, Goto, store, locals
<1>13. ASSUME NEW c \in Calls, UserRevokeEnd(c) PROVE RevokedStaysDead'
  BY <1>13 DEF UserRevokeEnd, Return, Goto, store, locals
<1>14. ASSUME NEW c \in Calls, RedisError(c) PROVE RevokedStaysDead'
  BY <1>14 DEF RedisError, Return, Goto, store, locals
<1>15. ASSUME NEW t \in Tokens, ExpireToken(t) PROVE RevokedStaysDead'
  BY <1>15 DEF ExpireToken, store, locals
<1>16. ASSUME NEW f \in Families, ExpireFamily(f) PROVE RevokedStaysDead'
  BY <1>16 DEF ExpireFamily, DeleteFamily, BreakWatches, Live, store, locals
<1>17. CASE UNCHANGED vars
  BY <1>17 DEF vars, store, locals
<1> QED
  BY <1>1, <1>2, <1>3, <1>4, <1>5, <1>6, <1>7, <1>8, <1>9, <1>10, <1>11,
     <1>12, <1>13, <1>14, <1>15, <1>16, <1>17 DEF Next, CallStep

\* A family is dead for good once RotateToken has reported a replay or
\* DeleteToken has found it, and revokeFamily has run to its end.
THEOREM RevokedStaysDeadCorrect == Spec => []RevokedStaysDead
<1>1. Init => NamedFamilyCreated /\ RevokedStaysDead
  BY DEF Init, NamedFamilyCreated, RevokedStaysDead
<1>2. TypeOK /\ WatchIsCurrent /\ NamedFamilyCreated /\ RevokedStaysDead /\ [Next]_vars => RevokedStaysDead'
  BY RevokedStaysDeadStep
<1> QED BY <1>1, <1>2, NamedFamilyStep, TypeCorrect, PTL DEF Spec

-----------------------------------------------------------------------------
(* RevokeUserRefreshTokens reaches every family of the user. *)

\* Until the first call of RevokeUserRefreshTokens every live family is listed
\* under its user; the DEL at the end of a call may take a later family off.
ListedBefore ==
    revokes = 0 => /\ \A c \in Calls : op[c] # "revokeUser"
                   /\ \A f \in Families : Live(f) => f \in userFamilies[owner[f]]

\* A family that was live when the call began is dead, or the call has it still to
\* revoke or is at it.
AtIt(c, f) == pc[c] \in {"revokeList", "revokeExec"} /\ fam[c] = f
Reaching ==
    /\ \A c \in Calls : pc[c] = "userNext" => op[c] = "revokeUser"
    /\ \A c \in Calls : op[c] = "revokeUser" =>
        /\ pc[c] \in {"userNext", "revokeList", "revokeExec"}
        /\ \A f \in target[c] : owner[f] # NoUser
        /\ \A f \in target[c] : Live(f) => f \in todo[c] \/ AtIt(c, f)

\* Every step keeps the live families listed until the first revocation of a user.
LEMMA ListedBeforeStep ==
    ASSUME TypeOK, WatchIsCurrent, CurrentIsFresh, Reaching, ListedBefore, [Next]_vars
    PROVE  ListedBefore'
<1> USE NoneAssumption DEF TypeOK, ListedBefore, Live
\* No family comes to life, none is taken off a list, and no call begins to revoke a user.
<1>a. ASSUME UNCHANGED <<owner, revokes>>,
             \A c \in Calls : op'[c] = "revokeUser" => op[c] = "revokeUser",
             \A f \in Families : Live(f)' => Live(f),
             \A f \in Families, u \in Users : Live(f)' /\ f \in userFamilies[u] => f \in userFamilies'[u]
      PROVE  ListedBefore'
  BY <1>a DEF CurrentIsFresh
<1>b. ASSUME NEW c \in Calls, op' = [op EXCEPT ![c] = "none"] PROVE \A d \in Calls : op'[d] = "revokeUser" => op[d] = "revokeUser"
  BY <1>b
<1>1. ASSUME NEW u \in Users, NewToken(u) PROVE ListedBefore'
  BY <1>1 DEF NewToken, CurrentIsFresh, locals
<1>2. ASSUME NEW c \in Calls, NEW t \in Tokens, RotateGet(c, t) PROVE ListedBefore'
  BY <1>2 DEF RotateGet, Presents, Return, Lookup, Goto, store
<1>3. ASSUME NEW c \in Calls, NEW t \in Tokens, DeleteGet(c, t) PROVE ListedBefore'
  BY <1>3 DEF DeleteGet, Return, Lookup, Goto, store
<1>4. ASSUME NEW c \in Calls, RotateRead(c) PROVE ListedBefore'
  BY <1>a, <1>4 DEF RotateRead, store
<1>5. ASSUME NEW c \in Calls, RotateExec(c) PROVE ListedBefore'
  <2>1. /\ fam[c] \in Families /\ Live(fam[c])
        /\ \A f \in Families : f # fam[c] => current'[f] = current[f]
    BY <1>5, RotateExecEffect
  <2>2. /\ op' = [op EXCEPT ![c] = "none"]
        /\ userFamilies' = [userFamilies EXCEPT ![usr[c]] = @ \cup {fam[c]}]
        /\ UNCHANGED <<owner, revokes>>
    BY <1>5 DEF RotateExec, Return
  <2>3. \A f \in Families, u \in Users : f \in userFamilies[u] => f \in userFamilies'[u]
    BY <2>2
  <2> QED BY <1>a, <1>b, <2>1, <2>2, <2>3
<1>6. ASSUME NEW c \in Calls, RotateTxFailed(c) PROVE ListedBefore'
  BY <1>a, <1>6 DEF RotateTxFailed, store, locals
<1>7. ASSUME NEW c \in Calls, DeleteRead(c) PROVE ListedBefore'
  BY <1>a, <1>7 DEF DeleteRead, store
<1>8. ASSUME NEW c \in Calls, RevokeReadUser(c) \/ RevokeList(c) \/ UserRevokeNext(c) PROVE ListedBefore'
  BY <1>a, <1>8 DEF RevokeReadUser, RevokeList, UserRevokeNext, store
<1>9. ASSUME NEW c \in Calls, RevokeExec(c) PROVE ListedBefore'
  <2>1. /\ fam[c] \in Families /\ UNCHANGED <<owner, revokes>>
        /\ current' = [current EXCEPT ![fam[c]] = NoToken]
        /\ userFamilies' = [u \in Users |-> IF u = usr[c] THEN userFamilies[u] \ {fam[c]} ELSE userFamilies[u]]
        /\ op' = op \/ op' = [op EXCEPT ![c] = "none"]
    BY <1>9 DEF RevokeExec, DeleteFamily, Return
  <2>2. /\ \A f \in Families : Live(f)' => Live(f) /\ f # fam[c]
        /\ \A f \in Families, u \in Users : f # fam[c] /\ f \in userFamilies[u] => f \in userFamilies'[u]
    BY <2>1
  <2> QED BY <1>a, <1>b, <2>1, <2>2
<1>10. ASSUME NEW c \in Calls, UserRevokeBegin(c) PROVE ListedBefore'
  BY <1>10, BoundsAssumption DEF UserRevokeBegin
<1>11. ASSUME NEW c \in Calls, UserRevokeEnd(c) PROVE ListedBefore'
  BY <1>11 DEF UserRevokeEnd, Reaching
<1>12. ASSUME NEW c \in Calls, RedisError(c) PROVE ListedBefore'
  <2>1. op' = [op EXCEPT ![c] = "none"] /\ UNCHANGED <<owner, current, userFamilies, revokes>>
    BY <1>12 DEF RedisError, Return, store
  <2> QED BY <1>a, <1>b, <2>1
<1>13. ASSUME NEW t \in Tokens, ExpireToken(t) PROVE ListedBefore'
  BY <1>a, <1>13 DEF ExpireToken, locals
<1>14. ASSUME NEW f \in Families, ExpireFamily(f) PROVE ListedBefore'
  BY <1>a, <1>14 DEF ExpireFamily, DeleteFamily, locals
<1>15. CASE UNCHANGED vars
  BY <1>a, <1>15 DEF vars, store, locals
<1> QED
  BY <1>1, <1>2, <1>3, <1>4, <1>5, <1>6, <1>7, <1>8, <1>9, <1>10, <1>11,
     <1>12, <1>13, <1>14, <1>15 DEF Next, CallStep

\* Every step keeps the families a call has to revoke within its reach.
LEMMA ReachingStep ==
    ASSUME MaxRevokes <= 1, TypeOK, WatchIsCurrent, CurrentIsFresh, ListedBefore, Reaching, [Next]_vars
    PROVE  Reaching'
<1> USE NoneAssumption DEF TypeOK, Live
\* The store changes, and no family of a target comes to life.
<1>a. ASSUME UNCHANGED <<pc, op, fam, todo, target>>,
             \A f \in Families : owner[f] # NoUser => owner'[f] # NoUser /\ (Live(f)' => Live(f))
      PROVE  Reaching'
  BY <1>a DEF Reaching, AtIt
\* A call that revokes no user makes a step, and no family of a target comes to life.
<1>b. ASSUME NEW c \in Calls, op[c] # "revokeUser", op'[c] # "revokeUser", pc'[c] # "userNext",
             \A d \in Calls : d # c => /\ pc'[d] = pc[d] /\ op'[d] = op[d] /\ fam'[d] = fam[d]
                                       /\ todo'[d] = todo[d] /\ target'[d] = target[d],
             \A f \in Families : owner[f] # NoUser => owner'[f] # NoUser /\ (Live(f)' => Live(f))
      PROVE  Reaching'
  BY <1>b DEF Reaching, AtIt
\* A call returns.
<1>c. ASSUME NEW c \in Calls, NEW v, Return(c, v), UNCHANGED fam,
             \A f \in Families : owner[f] # NoUser => owner'[f] # NoUser /\ (Live(f)' => Live(f))
      PROVE  Reaching'
  <2>1. /\ pc'[c] = "idle" /\ op'[c] = "none"
        /\ \A d \in Calls : d # c => /\ pc'[d] = pc[d] /\ op'[d] = op[d] /\ fam'[d] = fam[d]
                                     /\ todo'[d] = todo[d] /\ target'[d] = target[d]
    BY <1>c DEF Return, Goto
  <2> QED BY <1>c, <2>1, SMTT(30) DEF Reaching, AtIt
<1>1. ASSUME NEW u \in Users, NewToken(u) PROVE Reaching'
  BY <1>a, <1>1 DEF NewToken, locals
<1>l. ASSUME NEW c \in Calls, NEW t, NEW k \in {"rotate", "delete"}, NEW p \in {"rotateWatch", "deleteRead"},
             pc[c] \in {"idle", "rotateGet"}, Lookup(c, t, k, p)
      PROVE  Reaching'
  <2>1. op[c] # "revokeUser"
    BY <1>l DEF Reaching
  <2> QED BY <1>b, <1>l, <2>1 DEF Lookup, Goto, store
<1>2. ASSUME NEW c \in Calls, NEW t \in Tokens, RotateGet(c, t) \/ DeleteGet(c, t) PROVE Reaching'
  <2>1. pc[c] \in {"idle", "rotateGet"}
    BY <1>2 DEF RotateGet, DeleteGet, Presents
  <2> QED BY <1>2, <1>c, <1>l, <2>1 DEF RotateGet, DeleteGet, store
<1>4. ASSUME NEW c \in Calls, RotateRead(c) \/ DeleteRead(c) \/ RevokeReadUser(c) \/ RotateTxFailed(c) PROVE Reaching'
  <2>1. op[c] # "revokeUser"
    BY <1>4 DEF RotateRead, DeleteRead, RevokeReadUser, RotateTxFailed, Reaching
  <2>2. pc'[c] # "userNext" /\ \A d \in Calls : d # c => pc'[d] = pc[d]
    BY <1>4 DEF RotateRead, DeleteRead, RevokeReadUser, RotateTxFailed, Goto
  <2>3. UNCHANGED <<op, fam, todo, target, owner, current>>
    BY <1>4 DEF RotateRead, DeleteRead, RevokeReadUser, RotateTxFailed, store, locals
  <2> QED BY <1>b, <2>1, <2>2, <2>3
<1>5. ASSUME NEW c \in Calls, RotateExec(c) PROVE Reaching'
  <2>1. /\ fam[c] \in Families /\ Live(fam[c]) /\ UNCHANGED <<owner, fam>>
        /\ \A f \in Families : f # fam[c] => current'[f] = current[f]
    BY <1>5, RotateExecEffect
  <2>2. PICK v : Return(c, v)
    BY <1>5 DEF RotateExec
  <2> QED BY <1>c, <2>1, <2>2
<1>9. ASSUME NEW c \in Calls, RevokeList(c) PROVE Reaching'
  <2>1. /\ pc[c] = "revokeList" /\ pc' = [pc EXCEPT ![c] = "revokeExec"]
        /\ UNCHANGED <<op, fam, todo, target, owner, current>>
    BY <1>9 DEF RevokeList, Goto, store
  <2> QED BY <2>1 DEF Reaching, AtIt
<1>10. ASSUME NEW c \in Calls, RevokeExec(c) PROVE Reaching'
  <2>1. /\ fam[c] \in Families /\ UNCHANGED <<owner, fam>> /\ pc[c] = "revokeExec"
        /\ current' = [current EXCEPT ![fam[c]] = NoToken]
    BY <1>10 DEF RevokeExec, DeleteFamily
  <2>2. \A f \in Families : Live(f)' => Live(f) /\ f # fam[c]
    BY <2>1
  <2>3. CASE op[c] = "revokeUser"
    <3>1. pc' = [pc EXCEPT ![c] = "userNext"] /\ UNCHANGED <<op, todo, target>>
      BY <1>10, <2>3 DEF RevokeExec, Goto
    <3> QED BY <2>1, <2>2, <2>3, <3>1 DEF Reaching, AtIt
  <2>4. CASE op[c] # "revokeUser"
    BY <1>10, <1>c, <2>1, <2>2, <2>4 DEF RevokeExec
  <2> QED BY <2>3, <2>4
<1>11. ASSUME NEW c \in Calls, UserRevokeBegin(c) PROVE Reaching'
  <2>1. revokes = 0
    BY <1>11, BoundsAssumption DEF UserRevokeBegin
  <2>2. PICK u \in Users : /\ todo' = [todo EXCEPT ![c] = userFamilies[u]]
                           /\ target' = [target EXCEPT ![c] = {f \in Families : Live(f) /\ owner[f] = u}]
    BY <1>11 DEF UserRevokeBegin
  <2>3. /\ op' = [op EXCEPT ![c] = "revokeUser"] /\ pc' = [pc EXCEPT ![c] = "userNext"]
        /\ UNCHANGED <<fam, owner, current>>
    BY <1>11 DEF UserRevokeBegin, Goto, store
  <2>4. \A f \in target'[c] : f \in Families /\ owner[f] = u /\ f \in todo'[c]
    BY <2>1, <2>2 DEF ListedBefore
  <2>5. \A d \in Calls : d # c => op[d] = op'[d] /\ pc'[d] = pc[d] /\ target'[d] = target[d] /\ todo'[d] = todo[d]
    BY <2>2, <2>3
  <2>6. op'[c] = "revokeUser" /\ pc'[c] = "userNext"
    BY <2>3
  <2> QED BY <2>3, <2>4, <2>5, <2>6 DEF Reaching, AtIt
<1>12. ASSUME NEW c \in Calls, UserRevokeNext(c) PROVE Reaching'
  <2>1. PICK f \in todo[c] : fam' = [fam EXCEPT ![c] = f] /\ todo' = [todo EXCEPT ![c] = @ \ {f}]
    BY <1>12 DEF UserRevokeNext
  <2>2. /\ pc[c] = "userNext" /\ pc' = [pc EXCEPT ![c] = "revokeList"]
        /\ UNCHANGED <<op, target, owner, current>>
    BY <1>12 DEF UserRevokeNext, Goto, store
  <2> QED BY <2>1, <2>2 DEF Reaching, AtIt
<1>13. ASSUME NEW c \in Calls, UserRevokeEnd(c) PROVE Reaching'
  BY <1>c, <1>13 DEF UserRevokeEnd
<1>14. ASSUME NEW c \in Calls, RedisError(c) PROVE Reaching'
  <2>1. PICK v : Return(c, v)
    BY <1>14 DEF RedisError
  <2> QED BY <1>c, <1>14, <2>1 DEF RedisError, store
<1>15. ASSUME NEW t \in Tokens, ExpireToken(t) PROVE Reaching'
  BY <1>a, <1>15 DEF ExpireToken, locals
<1>16. ASSUME NEW f \in Families, ExpireFamily(f) PROVE Reaching'
  BY <1>a, <1>16 DEF ExpireFamily, DeleteFamily, locals
<1>17. CASE UNCHANGED vars
  BY <1>a, <1>17 DEF vars, store, locals
<1> QED
  BY <1>1, <1>2, <1>4, <1>5, <1>9, <1>10, <1>11,
     <1>12, <1>13, <1>14, <1>15, <1>16, <1>17 DEF Next, CallStep

\* The first call of RevokeUserRefreshTokens has revoked, when it ends, every family of the
\* user that was live when it began, whatever signs in, rotates, logs out or expires meanwhile
\* and however often Redis fails. A second call can miss a family: the DEL at the end of the
\* first takes off the list a family that was added since.
THEOREM RevokeUserReachesAllCorrect ==
    ASSUME MaxRevokes <= 1
    PROVE  Spec => []RevokeUserReachesAll
<1>1. Init => ListedBefore /\ Reaching
  BY DEF Init, ListedBefore, Reaching, Live
<1>2. TypeOK /\ Reaching => RevokeUserReachesAll
  BY DEF Reaching, RevokeUserReachesAll, AtIt, TypeOK
<1>3. TypeOK /\ WatchIsCurrent /\ CurrentIsFresh /\ ListedBefore /\ Reaching /\ [Next]_vars => ListedBefore' /\ Reaching'
  BY ListedBeforeStep, ReachingStep
<1> QED BY <1>1, <1>2, <1>3, TypeCorrect, PTL DEF Spec

=============================================================================
