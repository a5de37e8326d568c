----------------------------- MODULE TokenCache -----------------------------
(***************************************************************************)
(* What the token authenticator promises about its cache (spec.md 4.3 and *)
(* the invariant of section 3): the cache cycles NoToken -> Acquiring ->  *)
(* Cached -> NoToken; a token is stored only by a successful acquisition, *)
(* which starts from an empty cache and increments the generation once;   *)
(* a failed acquisition leaves everything as it was; invalidation empties *)
(* the cache and never changes the generation.  Tokens are named by the   *)
(* generation that issued them, as in OIDCAuthenticator.                  *)
(***************************************************************************)
EXTENDS Naturals

VARIABLES
    state,   \* "NoToken", "Acquiring" or "Cached"
    token,   \* the cached token, NoToken when none
    gen      \* the generation counter

vars == <<state, token, gen>>

NoToken == 0

States == {"NoToken", "Acquiring", "Cached"}

TypeOK ==
    /\ state \in States
    /\ token \in Nat
    /\ gen \in Nat

Init ==
    /\ state = "NoToken"
    /\ token = NoToken
    /\ gen = 0

(* An acquisition starts on an empty cache.                               *)
BeginAcquire ==
    /\ state = "NoToken"
    /\ state' = "Acquiring"
    /\ UNCHANGED <<token, gen>>

(* It stores a fresh token and its generation together.                   *)
AcquireSucceed ==
    /\ state = "Acquiring"
    /\ state' = "Cached"
    /\ gen' = gen + 1
    /\ token' = gen + 1

(* It fails, and nothing it did persists.                                 *)
AcquireFail ==
    /\ state = "Acquiring"
    /\ state' = "NoToken"
    /\ UNCHANGED <<token, gen>>

(* The cached token is invalidated.                                       *)
Invalidate ==
    /\ state = "Cached"
    /\ state' = "NoToken"
    /\ token' = NoToken
    /\ UNCHANGED gen

Next == BeginAcquire \/ AcquireSucceed \/ AcquireFail \/ Invalidate

Spec == Init /\ [][Next]_vars

=============================================================================
