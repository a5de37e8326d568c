------------------------- MODULE OIDCAuthenticator -------------------------
(***************************************************************************)
(* The MONGODB-OIDC authenticator of x/mongo/driver/auth/oidc.go, shared  *)
(* by every connection of a pool, and the connections that use it.        *)
(*                                                                         *)
(* One OIDCAuthenticator caches an access token (accessToken) and a       *)
(* generation counter (tokenGenID) behind one sync.Mutex (mu).  Each      *)
(* connection runs Auth, Reauth and the speculative handshake on its own  *)
(* goroutine; every statement that runs without the mutex, and every      *)
(* server round trip, is a step of its own, so the model interleaves the  *)
(* connections exactly where the code lets them interleave.               *)
(*                                                                         *)
(* Tokens are abstracted to the number of the acquisition that issued     *)
(* them: the callback's k-th successful return yields token k, and the    *)
(* empty string "" of the code is NoToken = 0.  The server accepts the    *)
(* tokens in the set valid; a token leaves it when it expires.            *)
(***************************************************************************)
EXTENDS Naturals, FiniteSets

CONSTANTS
    Conns,       \* the connections of the pool that share the authenticator
    NoConn,      \* the owner of mu when nobody holds it
    MaxTokens    \* bound on successful callback returns (tokens issued)

(* The outcomes of the dispatch in Auth (oidc.go:334-352): "human"        *)
(* (OIDCHumanCallback set, not implemented), "machine" (a user or a       *)
(* built-in machine callback resolved), "provider_error" (providerCallback *)
(* failed) or "none" (no callback resolved).                              *)
CallbackKinds == {"human", "machine", "provider_error", "none"}

ASSUME ConnsAssumption == Conns # {} /\ NoConn \notin Conns
ASSUME MaxTokensAssumption == MaxTokens \in Nat

NoToken == 0
Tokens == 1..MaxTokens

VARIABLES
    mu,           \* owner of OIDCAuthenticator.mu while a callback runs
    accessToken,  \* OIDCAuthenticator.accessToken (NoToken = "")
    tokenGenID,   \* OIDCAuthenticator.tokenGenID
    connGen,      \* connGen[c]: conn.OIDCTokenGenID() of connection c
    pc,           \* pc[c]: where connection c's goroutine is
    tok,          \* tok[c]: the token c's conversation uses or used
    valid,        \* the tokens the server currently accepts
    callback      \* the authenticator's dispatch outcome, fixed when built

vars == <<mu, accessToken, tokenGenID, connGen, pc, tok, valid, callback>>

(* The program counter values.  "closed": no connection; "spec": the      *)
(* handshake carrying a speculative conversation is in flight; "auth":    *)
(* Auth is about to snapshot the cache; "sasl_cached": the conversation   *)
(* with the cached token is in flight; "invalidate": it was rejected;     *)
(* "dispatch": Auth chooses a callback; "callback": getAccessToken runs   *)
(* the callback holding mu; "sasl_new": the conversation after            *)
(* getAccessToken is in flight; "authenticated": the connection is in use.*)
PCs == {"closed", "spec", "auth", "sasl_cached", "invalidate", "dispatch",
        "callback", "sasl_new", "authenticated"}

(* The states in which an Auth, a Reauth or a handshake is in progress.   *)
Busy == PCs \ {"closed", "authenticated"}

TypeOK ==
    /\ mu \in Conns \cup {NoConn}
    /\ accessToken \in {NoToken} \cup Tokens
    /\ tokenGenID \in 0..MaxTokens
    /\ connGen \in [Conns -> 0..MaxTokens]
    /\ pc \in [Conns -> PCs]
    /\ tok \in [Conns -> {NoToken} \cup Tokens]
    /\ valid \subseteq Tokens
    /\ callback \in CallbackKinds

Init ==
    /\ mu = NoConn
    /\ accessToken = NoToken
    /\ tokenGenID = 0
    /\ connGen = [c \in Conns |-> 0]
    /\ pc = [c \in Conns |-> "closed"]
    /\ tok = [c \in Conns |-> NoToken]
    /\ valid = {}
    /\ callback \in CallbackKinds

(* mu is free: a Lock() would not block.  Every critical section other    *)
(* than the callback in getAccessToken only reads and writes memory, so   *)
(* it is one step taken when the mutex is free.                           *)
Unlocked == mu = NoConn

-----------------------------------------------------------------------------
(* invalidateAccessToken(conn), under mu: clear the cache and the         *)
(* connection's generation when that generation is 0 or not older than    *)
(* the authenticator's.  A mutant drops the generation check.             *)
InvalidateUnfenced(c) ==
    /\ accessToken' = NoToken
    /\ connGen' = [connGen EXCEPT ![c] = 0]

Invalidate(c) ==
    IF connGen[c] = 0 \/ connGen[c] >= tokenGenID
    THEN /\ accessToken' = NoToken
         /\ connGen' = [connGen EXCEPT ![c] = 0]
    ELSE UNCHANGED <<accessToken, connGen>>

(* A new connection object (its OIDCTokenGenID is 0) runs the handshake.  *)
(* CreateSpeculativeConversation reads the cache under mu: with no token  *)
(* speculative authentication is skipped and the handshaker calls Auth,   *)
(* otherwise the token rides on the handshake.                            *)
Connect(c) ==
    /\ pc[c] = "closed"
    /\ Unlocked
    /\ connGen' = [connGen EXCEPT ![c] = 0]
    /\ IF accessToken = NoToken
       THEN /\ pc' = [pc EXCEPT ![c] = "auth"]
            /\ tok' = [tok EXCEPT ![c] = NoToken]
       ELSE /\ pc' = [pc EXCEPT ![c] = "spec"]
            /\ tok' = [tok EXCEPT ![c] = accessToken]
    /\ UNCHANGED <<mu, accessToken, tokenGenID, valid, callback>>

(* The server answers the speculative conversation; when it rejects the   *)
(* token the handshaker falls back to a full Auth.                        *)
SpeculativeReply(c) ==
    /\ pc[c] = "spec"
    /\ pc' = [pc EXCEPT ![c] = IF tok[c] \in valid THEN "authenticated"
                                                   ELSE "auth"]
    /\ UNCHANGED <<mu, accessToken, tokenGenID, connGen, tok, valid, callback>>

(* Auth: snapshot accessToken under mu, then release it.                  *)
AuthSnapshot(c) ==
    /\ pc[c] = "auth"
    /\ Unlocked
    /\ tok' = [tok EXCEPT ![c] = accessToken]
    /\ pc' = [pc EXCEPT ![c] = IF accessToken # NoToken THEN "sasl_cached"
                                                        ELSE "dispatch"]
    /\ UNCHANGED <<mu, accessToken, tokenGenID, connGen, valid, callback>>

(* ConductSaslConversation with the cached token, without mu.             *)
SaslCached(c) ==
    /\ pc[c] = "sasl_cached"
    /\ pc' = [pc EXCEPT ![c] = IF tok[c] \in valid THEN "authenticated"
                                                   ELSE "invalidate"]
    /\ UNCHANGED <<mu, accessToken, tokenGenID, connGen, tok, valid, callback>>

(* The cached token was rejected: invalidateAccessToken, then sleep for   *)
(* invalidateSleepTimeout and fall through to the dispatch.  A mutant     *)
(* retries the cached path instead of falling through.                    *)
InvalidateRetryCached(c) ==
    /\ pc[c] = "invalidate"
    /\ Unlocked
    /\ Invalidate(c)
    /\ pc' = [pc EXCEPT ![c] = "auth"]
    /\ UNCHANGED <<mu, tokenGenID, tok, valid, callback>>

InvalidateAfterReject(c) ==
    /\ pc[c] = "invalidate"
    /\ Unlocked
    /\ Invalidate(c)
    /\ pc' = [pc EXCEPT ![c] = "dispatch"]
    /\ UNCHANGED <<mu, tokenGenID, tok, valid, callback>>

(* No machine callback to run: doAuthHuman fails as not implemented, a    *)
(* providerCallback error is returned, or "no OIDC callback provided".    *)
(* The failed Auth ends the connection.                                   *)
DispatchFail(c) ==
    /\ pc[c] = "dispatch"
    /\ callback # "machine"
    /\ pc' = [pc EXCEPT ![c] = "closed"]
    /\ UNCHANGED <<mu, accessToken, tokenGenID, connGen, tok, valid, callback>>

(* doAuthMachine calls getAccessToken, which takes mu: a cached token is  *)
(* returned at once, otherwise the callback is invoked with mu held.  A   *)
(* mutant invokes the callback without holding mu.                        *)
GetAccessTokenUnlocked(c) ==
    /\ pc[c] = "dispatch"
    /\ callback = "machine"
    /\ Unlocked
    /\ IF accessToken # NoToken
       THEN /\ tok' = [tok EXCEPT ![c] = accessToken]
            /\ pc' = [pc EXCEPT ![c] = "sasl_new"]
       ELSE /\ pc' = [pc EXCEPT ![c] = "callback"]
            /\ tok' = tok
    /\ UNCHANGED <<mu, accessToken, tokenGenID, connGen, valid, callback>>

GetAccessToken(c) ==
    /\ pc[c] = "dispatch"
    /\ callback = "machine"
    /\ Unlocked
    /\ IF accessToken # NoToken
       THEN /\ tok' = [tok EXCEPT ![c] = accessToken]
            /\ pc' = [pc EXCEPT ![c] = "sasl_new"]
            /\ mu' = mu
       ELSE /\ pc' = [pc EXCEPT ![c] = "callback"]
            /\ mu' = c
            /\ tok' = tok
    /\ UNCHANGED <<accessToken, tokenGenID, connGen, valid, callback>>

(* The callback returns a credential: store its token, increment          *)
(* tokenGenID, record it on the connection, release mu.  The server       *)
(* accepts the new token.  (The refresh token it may carry is never read  *)
(* by the machine flow and is not modelled.)                              *)
CallbackSucceed(c) ==
    /\ pc[c] = "callback"
    /\ tokenGenID < MaxTokens
    /\ accessToken' = tokenGenID + 1
    /\ tokenGenID' = tokenGenID + 1
    /\ connGen' = [connGen EXCEPT ![c] = tokenGenID + 1]
    /\ valid' = valid \cup {tokenGenID + 1}
    /\ tok' = [tok EXCEPT ![c] = tokenGenID + 1]
    /\ pc' = [pc EXCEPT ![c] = "sasl_new"]
    /\ mu' = NoConn
    /\ UNCHANGED callback

(* The callback fails or exceeds machineCallbackTimeout: mu is released,  *)
(* the cache is left as it was, and the error ends the connection.  A     *)
(* mutant increments tokenGenID before the callback's error is checked.   *)
CallbackFailPartial(c) ==
    /\ pc[c] = "callback"
    /\ tokenGenID < MaxTokens
    /\ tokenGenID' = tokenGenID + 1
    /\ mu' = NoConn
    /\ pc' = [pc EXCEPT ![c] = "closed"]
    /\ UNCHANGED <<accessToken, connGen, tok, valid, callback>>

CallbackFail(c) ==
    /\ pc[c] = "callback"
    /\ mu' = NoConn
    /\ pc' = [pc EXCEPT ![c] = "closed"]
    /\ UNCHANGED <<accessToken, tokenGenID, connGen, tok, valid, callback>>

(* The conversation with the token getAccessToken returned; its error,    *)
(* if any, is returned without a retry.                                   *)
SaslNew(c) ==
    /\ pc[c] = "sasl_new"
    /\ pc' = [pc EXCEPT ![c] = IF tok[c] \in valid THEN "authenticated"
                                                   ELSE "closed"]
    /\ UNCHANGED <<mu, accessToken, tokenGenID, connGen, tok, valid, callback>>

(* The server answers a command with error 391 because the token this     *)
(* connection authenticated with expired: Reauth invalidates (fenced by   *)
(* the connection's generation) and runs Auth.                            *)
Reauth(c) ==
    /\ pc[c] = "authenticated"
    /\ tok[c] \notin valid
    /\ Unlocked
    /\ Invalidate(c)
    /\ pc' = [pc EXCEPT ![c] = "auth"]
    /\ UNCHANGED <<mu, tokenGenID, tok, valid, callback>>

(* The pool closes an authenticated connection.                           *)
Close(c) ==
    /\ pc[c] = "authenticated"
    /\ pc' = [pc EXCEPT ![c] = "closed"]
    /\ UNCHANGED <<mu, accessToken, tokenGenID, connGen, tok, valid, callback>>

(* The identity provider's token t expires: the server rejects it.        *)
Expire(t) ==
    /\ t \in valid
    /\ valid' = valid \ {t}
    /\ UNCHANGED <<mu, accessToken, tokenGenID, connGen, pc, tok, callback>>

-----------------------------------------------------------------------------
ConnStep(c) ==
    \/ Connect(c)
    \/ SpeculativeReply(c)
    \/ AuthSnapshot(c)
    \/ SaslCached(c)
    \/ InvalidateAfterReject(c)
    \/ DispatchFail(c)
    \/ GetAccessToken(c)
    \/ CallbackSucceed(c)
    \/ CallbackFail(c)
    \/ SaslNew(c)
    \/ Reauth(c)
    \/ Close(c)

Next ==
    \/ \E c \in Conns : ConnStep(c)
    \/ \E t \in Tokens : Expire(t)

(* Each goroutine keeps running (weak fairness on its local steps); the   *)
(* callback returns, at the latest at machineCallbackTimeout; sync.Mutex  *)
(* hands the lock to a waiter that has waited long (starvation mode), so  *)
(* the steps that need mu are strongly fair.  Starting a handshake, a     *)
(* Reauth, a close and an expiry are the environment's and not fair.      *)
Fairness ==
    \A c \in Conns :
        /\ WF_vars(SpeculativeReply(c))
        /\ WF_vars(SaslCached(c))
        /\ WF_vars(DispatchFail(c))
        /\ WF_vars(CallbackSucceed(c) \/ CallbackFail(c))
        /\ WF_vars(SaslNew(c))
        /\ SF_vars(AuthSnapshot(c))
        /\ SF_vars(InvalidateAfterReject(c))
        /\ SF_vars(GetAccessToken(c))

Spec == Init /\ [][Next]_vars /\ Fairness

-----------------------------------------------------------------------------
(***************************************************************************)
(* Properties.                                                             *)
(***************************************************************************)

(* No thundering herd (getAccessToken holds mu across the callback): while *)
(* a connection runs the callback no token is cached and no other         *)
(* connection runs the callback, so concurrent handshakes on an empty     *)
(* cache make one external token request and never overwrite a token      *)
(* another acquisition cached.                                            *)
NoConcurrentAcquisition ==
    \A c \in Conns :
        pc[c] = "callback" =>
            /\ accessToken = NoToken
            /\ \A d \in Conns \ {c} : pc[d] # "callback"

(* Generation fencing in invalidateAccessToken: a step in which a          *)
(* connection that has a recorded generation clears the cached token      *)
(* clears the very token that connection acquired, never a newer token    *)
(* acquired by another connection since.                                  *)
FencedInvalidationStep ==
    \A c \in Conns :
        ( /\ pc'[c] # pc[c]
          /\ connGen[c] # 0
          /\ accessToken # NoToken
          /\ accessToken' = NoToken )
        => accessToken = connGen[c]

FencedInvalidation == [][FencedInvalidationStep]_vars

(* Every handshake, Auth and Reauth a connection starts ends: the         *)
(* connection becomes authenticated or is closed with the error.          *)
AuthTerminates ==
    \A c \in Conns : (pc[c] \in Busy) ~> (pc[c] \in {"authenticated", "closed"})

(* The comment in Auth (oidc.go:327-329): invalidating after the cached   *)
(* token was rejected could clear a token another Auth has already put in *)
(* its place, "but the TokenGenID will prevent that".  Stated as: the     *)
(* invalidation after a rejected cached token clears only that token.     *)
NoStaleInvalidationStep ==
    \A c \in Conns :
        ( /\ pc[c] = "invalidate"
          /\ pc'[c] = "dispatch"
          /\ accessToken # NoToken
          /\ accessToken' = NoToken )
        => accessToken = tok[c]

NoStaleInvalidation == [][NoStaleInvalidationStep]_vars

(* Auth (and spec.md 4.3): when the cached token is rejected, Auth falls  *)
(* through to acquiring a fresh token via the callback.  Stated as: the   *)
(* conversation after the fall-through never reuses the rejected token.   *)
FallbackUsesFreshTokenStep ==
    \A c \in Conns :
        ( /\ pc[c] = "dispatch"
          /\ pc'[c] = "sasl_new"
          /\ tok[c] # NoToken )
        => tok'[c] # tok[c]

FallbackUsesFreshToken == [][FallbackUsesFreshTokenStep]_vars

-----------------------------------------------------------------------------
(***************************************************************************)
(* Refinement: the authenticator implements the abstract cache of         *)
(* TokenCache.  The abstract state is "Acquiring" while a connection      *)
(* holds mu in getAccessToken, else "Cached" or "NoToken" after the       *)
(* cache; the abstract token and generation are accessToken and           *)
(* tokenGenID.                                                            *)
(***************************************************************************)
CacheState ==
    IF mu # NoConn THEN "Acquiring"
    ELSE IF accessToken = NoToken THEN "NoToken" ELSE "Cached"

TC == INSTANCE TokenCache
        WITH state <- CacheState, token <- accessToken, gen <- tokenGenID

(* Every behaviour of the pool of connections is a behaviour of the       *)
(* abstract cache: getAccessToken starts an acquisition only on an empty  *)
(* cache, a callback result stores a token and its generation together or *)
(* nothing, and invalidateAccessToken only empties the cache.             *)
TokenCacheRefined == TC!Spec

-----------------------------------------------------------------------------
(***************************************************************************)
(* The inductive invariant the proofs rest on (OIDCAuthenticatorProofs).   *)
(***************************************************************************)

(* The cache is empty or holds the token of the latest acquisition:       *)
(* accessToken and tokenGenID are written together under mu.              *)
CacheIsLatest == accessToken \in {NoToken, tokenGenID}

(* No connection has recorded a generation the authenticator has not yet  *)
(* reached.                                                               *)
GenBound == \A c \in Conns : connGen[c] <= tokenGenID

(* mu is held exactly by the connection whose callback is running.        *)
LockHeldInCallback == \A c \in Conns : (mu = c) <=> (pc[c] = "callback")

(* While mu is held the cache is empty.                                   *)
LockedCacheEmpty == mu # NoConn => accessToken = NoToken

(* The conjunction, checked by TLC and proved inductive: getAccessToken's *)
(* lock discipline together with the fencing arithmetic.                  *)
IInv ==
    /\ TypeOK
    /\ CacheIsLatest
    /\ GenBound
    /\ LockHeldInCallback
    /\ LockedCacheEmpty

=============================================================================
