---------------------- MODULE OIDCAuthenticatorProofs ----------------------
(***************************************************************************)
(* Proofs about OIDCAuthenticator for every set of connections and every  *)
(* bound on the tokens: the type invariant, the inductive invariant IInv, *)
(* no concurrent acquisition (getAccessToken's lock discipline) and the   *)
(* generation fencing of invalidateAccessToken.                           *)
(***************************************************************************)
EXTENDS OIDCAuthenticator, TLAPS

(* The actions that leave everything but pc, tok and connGen alone have   *)
(* no effect on the authenticator's cache; one step per action below.     *)

(* IInv holds initially.                                                  *)
LEMMA InitIInv == Init => IInv
  BY ConnsAssumption, MaxTokensAssumption
  DEF Init, IInv, TypeOK, CacheIsLatest, GenBound, LockHeldInCallback,
      LockedCacheEmpty, Tokens, NoToken, PCs

(* Every step of Next, and every stutter, preserves IInv.                 *)
LEMMA NextIInv == IInv /\ [Next]_vars => IInv'
  <1> SUFFICES ASSUME IInv, [Next]_vars PROVE IInv'
    OBVIOUS
  <1> USE ConnsAssumption, MaxTokensAssumption
  <1> USE DEF IInv, TypeOK, CacheIsLatest, GenBound, LockHeldInCallback,
              LockedCacheEmpty, Tokens, NoToken, PCs, Unlocked
  <1>1. ASSUME NEW c \in Conns, Connect(c) PROVE IInv'
    BY <1>1 DEF Connect
  <1>2. ASSUME NEW c \in Conns, SpeculativeReply(c) PROVE IInv'
    BY <1>2 DEF SpeculativeReply
  <1>3. ASSUME NEW c \in Conns, AuthSnapshot(c) PROVE IInv'
    BY <1>3 DEF AuthSnapshot
  <1>4. ASSUME NEW c \in Conns, SaslCached(c) PROVE IInv'
    BY <1>4 DEF SaslCached
  <1>5. ASSUME NEW c \in Conns, InvalidateAfterReject(c) PROVE IInv'
    BY <1>5 DEF InvalidateAfterReject, Invalidate
  <1>6. ASSUME NEW c \in Conns, DispatchFail(c) PROVE IInv'
    BY <1>6 DEF DispatchFail
  <1>7. ASSUME NEW c \in Conns, GetAccessToken(c) PROVE IInv'
    BY <1>7 DEF GetAccessToken
  <1>8. ASSUME NEW c \in Conns, CallbackSucceed(c) PROVE IInv'
    BY <1>8 DEF CallbackSucceed
  <1>9. ASSUME NEW c \in Conns, CallbackFail(c) PROVE IInv'
    BY <1>9 DEF CallbackFail
  <1>10. ASSUME NEW c \in Conns, SaslNew(c) PROVE IInv'
    BY <1>10 DEF SaslNew
  <1>11. ASSUME NEW c \in Conns, Reauth(c) PROVE IInv'
    BY <1>11 DEF Reauth, Invalidate
  <1>12. ASSUME NEW c \in Conns, Close(c) PROVE IInv'
    BY <1>12 DEF Close
  <1>13. ASSUME NEW t \in Tokens, Expire(t) PROVE IInv'
    BY <1>13 DEF Expire
  <1>14. CASE UNCHANGED vars
    BY <1>14 DEF vars
  <1>15. QED
    BY <1>1, <1>2, <1>3, <1>4, <1>5, <1>6, <1>7, <1>8, <1>9, <1>10,
       <1>11, <1>12, <1>13, <1>14 DEF Next, ConnStep

(* IInv is an invariant of the specification.                             *)
THEOREM IInvHolds == Spec => []IInv
  BY InitIInv, NextIInv, PTL DEF Spec

(* The type invariant (MONGODB-OIDC authenticator state and connections). *)
THEOREM TypeCorrect == Spec => []TypeOK
  BY IInvHolds, PTL DEF IInv

(* No thundering herd: while a connection runs the callback of            *)
(* getAccessToken the cache is empty and no other connection runs it.     *)
THEOREM NoConcurrentAcquisitionHolds == Spec => []NoConcurrentAcquisition
  <1>1. IInv => NoConcurrentAcquisition
    BY ConnsAssumption
    DEF IInv, LockHeldInCallback, LockedCacheEmpty, NoConcurrentAcquisition
  <1>2. QED
    BY <1>1, IInvHolds, PTL

(* Generation fencing: a connection with a recorded generation that       *)
(* clears the cache in invalidateAccessToken clears the token it acquired.*)
LEMMA FencedStep == IInv /\ [Next]_vars => FencedInvalidationStep
  <1> SUFFICES ASSUME IInv, [Next]_vars,
                      NEW c \in Conns,
                      pc'[c] # pc[c], connGen[c] # 0,
                      accessToken # NoToken, accessToken' = NoToken
               PROVE  accessToken = connGen[c]
    BY DEF FencedInvalidationStep
  <1> USE DEF IInv, TypeOK, CacheIsLatest, GenBound, Tokens, NoToken
  (* Only invalidateAccessToken empties the cache, under the fencing      *)
  (* condition, by the connection whose pc changes.                       *)
  <1>1. CASE \E d \in Conns : InvalidateAfterReject(d) \/ Reauth(d)
    <2>1. PICK d \in Conns : InvalidateAfterReject(d) \/ Reauth(d)
      BY <1>1
    <2>2. d = c
      BY <2>1 DEF InvalidateAfterReject, Reauth
    <2>3. connGen[d] = 0 \/ connGen[d] >= tokenGenID
      BY <2>1 DEF InvalidateAfterReject, Reauth, Invalidate
    <2>4. QED
      BY <2>2, <2>3, MaxTokensAssumption
  <1>2. CASE \E d \in Conns : \/ Connect(d) \/ SpeculativeReply(d)
                              \/ AuthSnapshot(d) \/ SaslCached(d)
                              \/ DispatchFail(d) \/ GetAccessToken(d)
                              \/ CallbackFail(d) \/ SaslNew(d) \/ Close(d)
    BY <1>2 DEF Connect, SpeculativeReply, AuthSnapshot, SaslCached,
                DispatchFail, GetAccessToken, CallbackFail, SaslNew, Close
  <1>3. CASE \E d \in Conns : CallbackSucceed(d)
    BY <1>3, MaxTokensAssumption DEF CallbackSucceed
  <1>4. CASE \E t \in Tokens : Expire(t)
    BY <1>4 DEF Expire
  <1>5. CASE UNCHANGED vars
    BY <1>5 DEF vars
  <1>6. QED
    BY <1>1, <1>2, <1>3, <1>4, <1>5 DEF Next, ConnStep

(* invalidateAccessToken's fence holds in every behaviour: a connection  *)
(* that recorded a generation never clears a token newer than its own.   *)
THEOREM FencedInvalidationHolds == Spec => FencedInvalidation
  BY IInvHolds, FencedStep, PTL DEF Spec, FencedInvalidation
-----------------------------------------------------------------------------
(***************************************************************************)
(* Refinement of TokenCache under the mapping CacheState, accessToken,    *)
(* tokenGenID.                                                            *)
(***************************************************************************)

(* The initial state of the pool maps to the abstract initial state.      *)
LEMMA InitRefines == Init => TC!Init
  BY DEF Init, TC!Init, CacheState, NoToken, TC!NoToken

(* Every step of the pool, from a state satisfying IInv, is a step of the *)
(* abstract cache or leaves the mapped state unchanged.                   *)
LEMMA NextRefines == IInv /\ [Next]_vars => [TC!Next]_TC!vars
  <1> SUFFICES ASSUME IInv, [Next]_vars PROVE [TC!Next]_TC!vars
    OBVIOUS
  <1> USE ConnsAssumption, MaxTokensAssumption
  <1> USE DEF IInv, TypeOK, LockHeldInCallback, LockedCacheEmpty, Tokens,
              NoToken, TC!NoToken, Unlocked, TC!vars, CacheState
  (* Steps that leave mu, accessToken and tokenGenID alone are stutters.  *)
  <1>1. CASE UNCHANGED <<mu, accessToken, tokenGenID>>
    BY <1>1
  <1>2. ASSUME NEW c \in Conns, InvalidateAfterReject(c) \/ Reauth(c)
        PROVE  [TC!Next]_TC!vars
    <2>1. mu = NoConn /\ mu' = NoConn /\ tokenGenID' = tokenGenID
      BY <1>2 DEF InvalidateAfterReject, Reauth
    <2>2. accessToken' = NoToken \/ accessToken' = accessToken
      BY <1>2 DEF InvalidateAfterReject, Reauth, Invalidate
    <2>3. CASE accessToken # NoToken /\ accessToken' = NoToken
      BY <2>1, <2>3 DEF TC!Next, TC!Invalidate
    <2>4. QED
      BY <2>1, <2>2, <2>3
  <1>3. ASSUME NEW c \in Conns, GetAccessToken(c) PROVE [TC!Next]_TC!vars
    <2>1. CASE accessToken # NoToken
      BY <1>3, <2>1 DEF GetAccessToken
    <2>2. CASE accessToken = NoToken
      BY <1>3, <2>2 DEF GetAccessToken, TC!Next, TC!BeginAcquire
    <2>3. QED
      BY <2>1, <2>2
  <1>4. ASSUME NEW c \in Conns, CallbackSucceed(c) PROVE [TC!Next]_TC!vars
    <2>1. mu = c /\ mu' = NoConn
      BY <1>4 DEF CallbackSucceed
    <2>2. QED
      BY <1>4, <2>1 DEF CallbackSucceed, TC!Next, TC!AcquireSucceed
  <1>5. ASSUME NEW c \in Conns, CallbackFail(c) PROVE [TC!Next]_TC!vars
    <2>1. mu = c /\ mu' = NoConn /\ accessToken = NoToken
      BY <1>5 DEF CallbackFail
    <2>2. QED
      BY <1>5, <2>1 DEF CallbackFail, TC!Next, TC!AcquireFail
  <1>6. ASSUME NEW c \in Conns,
               \/ Connect(c) \/ SpeculativeReply(c) \/ AuthSnapshot(c)
               \/ SaslCached(c) \/ DispatchFail(c) \/ SaslNew(c) \/ Close(c)
        PROVE  [TC!Next]_TC!vars
    BY <1>6, <1>1 DEF Connect, SpeculativeReply, AuthSnapshot, SaslCached,
                      DispatchFail, SaslNew, Close
  <1>7. ASSUME NEW t \in Tokens, Expire(t) PROVE [TC!Next]_TC!vars
    BY <1>7, <1>1 DEF Expire
  <1>8. CASE UNCHANGED vars
    BY <1>8, <1>1 DEF vars
  <1>9. QED
    BY <1>2, <1>3, <1>4, <1>5, <1>6, <1>7, <1>8 DEF Next, ConnStep

(* The pool of connections implements the abstract token cache: its      *)
(* cache goes NoToken -> Acquiring -> Cached -> NoToken, each token is    *)
(* stored with a fresh generation, and failures and invalidations never   *)
(* change the generation.                                                 *)
THEOREM TokenCacheRefinement == Spec => TokenCacheRefined
  BY IInvHolds, InitRefines, NextRefines, PTL
  DEF Spec, TokenCacheRefined, TC!Spec
=============================================================================
