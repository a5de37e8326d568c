--------------------------- MODULE OIDCProvider ---------------------------
(***************************************************************************)
(* Configuration of the MONGODB-OIDC authenticator and its built-in       *)
(* machine callback, from x/mongo/driver/auth/oidc.go:                    *)
(*   - newOIDCAuthenticator validates a credential (lines 101-130);       *)
(*   - providerCallback maps ENVIRONMENT to a built-in callback (164-186);*)
(*   - Auth dispatches to the human, user or built-in callback (334-352); *)
(*   - the Azure callback, a closure over clientID and resource, builds   *)
(*     and sends the metadata-endpoint request each time it is invoked    *)
(*     (188-229).                                                         *)
(* A credential is one of the records Creds; the authenticator built from *)
(* each Auth builds a new closure and calls it at most once; the closure's *)
(* resource variable is state, and every request it sends is recorded.    *)
(***************************************************************************)
EXTENDS Naturals, Sequences, SequencesExt

CONSTANTS
    EnvValues,    \* ENVIRONMENT values a user may configure (strings)
    Lower,        \* strings.ToLower on EnvValues
    Resource,     \* the configured TOKEN_RESOURCE, a sequence of characters
    HexOf,        \* for each character url.QueryEscape escapes, its %XX digits
    MaxCalls      \* bound on callback invocations

ASSUME EnvAssumption == Lower \in [EnvValues -> STRING]
ASSUME ResourceAssumption == Resource \in Seq(STRING)
ASSUME MaxCallsAssumption == MaxCalls \in Nat
(* strings.ToLower leaves a value that is already lower case unchanged.   *)
ASSUME LowerAssumption ==
    \A e \in EnvValues \cap {"azure", "gcp", "test"} : Lower[e] = e

(* ENVIRONMENT absent from AuthMechanismProperties.                       *)
NoEnv == "<absent>"

(* A credential: a non-empty Password, a non-nil Props map, its           *)
(* ENVIRONMENT and whether it has TOKEN_RESOURCE, a non-empty Username    *)
(* (the Azure client_id), and the two user callbacks.  A nil Props map    *)
(* has no keys.                                                           *)
Creds ==
    { cr \in [password : BOOLEAN, props : BOOLEAN, env : EnvValues \cup {NoEnv},
              resource : BOOLEAN, user : BOOLEAN, machine : BOOLEAN,
              human : BOOLEAN] :
        ~cr.props => (cr.env = NoEnv /\ ~cr.resource) }

(* url.QueryEscape: every character in DOMAIN HexOf becomes "%" and its   *)
(* two hex digits, every other character is kept.                         *)
EscapeChar(ch) == IF ch \in DOMAIN HexOf THEN <<"%">> \o HexOf[ch] ELSE <<ch>>

QueryEscape(s) == FlattenSeq([i \in 1..Len(s) |-> EscapeChar(s[i])])

(* newOIDCAuthenticator: the switch on the lower-cased ENVIRONMENT, with  *)
(* its two fallthroughs (azure -> gcp -> test).  A mutant drops the       *)
(* fallthrough from gcp into the callback check.                          *)
NewOIDCAuthenticatorNoFallthrough(cr) ==
    LET env == IF cr.env = NoEnv THEN NoEnv ELSE Lower[cr.env] IN
    CASE cr.password -> "error"
      [] cr.props /\ env \in {"azure", "gcp"} /\ ~cr.resource -> "error"
      [] cr.props /\ env = "test" /\ (cr.machine \/ cr.human) -> "error"
      [] OTHER -> "ok"

NewOIDCAuthenticator(cr) ==
    LET env == IF cr.env = NoEnv THEN NoEnv ELSE Lower[cr.env] IN
    CASE cr.password -> "error"
      [] cr.props /\ env \in {"azure", "gcp"} /\ ~cr.resource -> "error"
      [] cr.props /\ env \in {"azure", "gcp", "test"}
                  /\ (cr.machine \/ cr.human) -> "error"
      [] OTHER -> "ok"

(* providerCallback: the switch on ENVIRONMENT as configured (not lower-  *)
(* cased).  cb is the callback returned ("nil", "azure" or the gcp stub), *)
(* err whether an error is returned with it.                              *)
ProviderCallback(cr) ==
    CASE cr.env = NoEnv    -> [cb |-> "nil", err |-> FALSE]
      [] cr.env = "azure"  -> IF cr.resource THEN [cb |-> "azure", err |-> FALSE]
                                             ELSE [cb |-> "nil", err |-> TRUE]
      [] cr.env = "gcp"    -> [cb |-> "gcp", err |-> TRUE]
      [] OTHER             -> [cb |-> "nil", err |-> TRUE]

(* The outcome of dispatching to each built-in callback.                 *)
BuiltIn == [azure |-> "builtin_azure", gcp |-> "builtin_gcp"]

(* Auth's dispatch after the cached-token path: the human flow, the       *)
(* user's machine callback, the built-in one, an error from               *)
(* providerCallback, or "no OIDC callback provided".                      *)
Dispatch(cr) ==
    LET p == ProviderCallback(cr) IN
    IF cr.human THEN "human"
    ELSE IF cr.machine THEN "user_machine"
    ELSE IF p.err THEN "provider_error"
    ELSE IF p.cb # "nil" THEN BuiltIn[p.cb]
    ELSE "none"

(* The outcomes of one invocation of the Azure callback:                  *)
(* NewRequestWithContext fails (nothing is sent), the request fails, the  *)
(* status is not 200, the body does not decode, or a credential.          *)
AzureOutcomes == {"request_error", "transport_error", "status_error",
                  "decode_error", "ok"}

-----------------------------------------------------------------------------
VARIABLES
    cred,       \* the credential the authenticator was built from
    built,      \* newOIDCAuthenticator's verdict on it
    closure,    \* the captured resource of the closure the last Auth built
    phase,      \* "idle", or "callback" while that Auth has still to call it
    requests,   \* the resource and client_id parameters of each request sent
    calls       \* Auth calls that built the Azure callback so far

vars == <<cred, built, closure, phase, requests, calls>>

Request == [resource : Seq(STRING), clientID : BOOLEAN]

TypeOK ==
    /\ cred \in Creds
    /\ built \in {"ok", "error"}
    /\ closure \in Seq(STRING)
    /\ phase \in {"idle", "callback"}
    /\ requests \in Seq(Request)
    /\ calls \in 0..MaxCalls

(* A credential is configured and the authenticator built from it; no     *)
(* Auth has run, so no callback closure exists yet.                       *)
Init ==
    /\ cred \in Creds
    /\ built = NewOIDCAuthenticator(cred)
    /\ closure = <<>>
    /\ phase = "idle"
    /\ requests = <<>>
    /\ calls = 0

(* A mutant keeps the callback of the first Auth on the authenticator and *)
(* hands the same closure to every later Auth.                            *)
AuthBuildsCallbackCached ==
    /\ built = "ok"
    /\ Dispatch(cred) = "builtin_azure"
    /\ phase = "idle"
    /\ calls < MaxCalls
    /\ calls' = calls + 1
    /\ closure' = IF calls = 0 THEN Resource ELSE closure
    /\ phase' = "callback"
    /\ UNCHANGED <<cred, built, requests>>

(* Auth reaches the machine-callback branch with no user callback and     *)
(* calls providerCallback, which calls getAzureOIDCCallback with the raw  *)
(* TOKEN_RESOURCE property: a new closure whose resource variable is the  *)
(* configured value.                                                      *)
AuthBuildsCallback ==
    /\ built = "ok"
    /\ Dispatch(cred) = "builtin_azure"
    /\ phase = "idle"
    /\ calls < MaxCalls
    /\ calls' = calls + 1
    /\ closure' = Resource
    /\ phase' = "callback"
    /\ UNCHANGED <<cred, built, requests>>

(* doAuthMachine's getAccessToken: with a cached access token it returns  *)
(* without calling the callback; otherwise it calls the closure once,     *)
(* which assigns url.QueryEscape(resource) to its resource variable,      *)
(* builds the URI from it (with client_id when Username is set) and sends *)
(* it unless building the request fails.  Auth then returns and drops the *)
(* closure.                                                               *)
InvokeAzureCallback ==
    /\ phase = "callback"
    /\ phase' = "idle"
    /\ \/ UNCHANGED <<closure, requests>>
       \/ /\ closure' = QueryEscape(closure)
          /\ \E outcome \in AzureOutcomes :
               requests' = IF outcome = "request_error" THEN requests
                           ELSE Append(requests, [resource |-> QueryEscape(closure),
                                                  clientID |-> cred.user])
    /\ UNCHANGED <<cred, built, calls>>

(* The configuration is built once; later steps are Auth calls that build *)
(* the built-in callback and its invocation, so a behaviour stops when    *)
(* the authenticator does not use it or the Auth calls are spent.         *)
Next == AuthBuildsCallback \/ InvokeAzureCallback

Spec == Init /\ [][Next]_vars

-----------------------------------------------------------------------------
(***************************************************************************)
(* Properties.                                                             *)
(***************************************************************************)

(* Validation and resolution agree for a built-in provider: an            *)
(* authenticator newOIDCAuthenticator accepts with ENVIRONMENT "azure"    *)
(* uses the built-in Azure callback and never a user callback, and one    *)
(* with "gcp" fails with providerCallback's not-implemented error.        *)
ProviderIsUsed ==
    built = "ok" =>
        /\ cred.env = "azure" => Dispatch(cred) = "builtin_azure"
        /\ cred.env = "gcp"   => Dispatch(cred) = "provider_error"

(* spec.md 4.4: newOIDCAuthenticator validates ENVIRONMENT case-           *)
(* insensitively, so an accepted ENVIRONMENT that names Azure in any case *)
(* resolves to the Azure callback.                                        *)
CaseInsensitiveEnvResolves ==
    (built = "ok" /\ cred.env # NoEnv /\ Lower[cred.env] = "azure")
        => Dispatch(cred) = "builtin_azure"

(* Every request the Azure callback sends, in every Auth, carries the      *)
(* configured TOKEN_RESOURCE query-escaped exactly once: the closure      *)
(* overwrites its resource variable with the escaped value, so the value  *)
(* is right only because each Auth builds a new closure.                  *)
ResourceEscapedOnce ==
    \A i \in 1..Len(requests) : requests[i].resource = QueryEscape(Resource)

=============================================================================
