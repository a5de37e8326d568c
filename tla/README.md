# Verification of the authentication code and index view (adhocore/go-mongo)

This directory holds TLA+ models of the authentication code in
`src/x/mongo/driver/auth/` and of the session handling of the index view in
`src/unnamed/part_000`, the TLC configurations that check them, and TLAPS
proofs of their main safety properties. The models are written from the Go
source. Where the source calls code that is not in this repository, the model
follows `spec.md`, and PROJECT.json marks those definitions `spec_modelled`.

## 1. Inventory

### Components and their state

| Component | Source | State | Operations |
|---|---|---|---|
| Token authenticator `OIDCAuthenticator` | oidc.go:75-393 | `mu` (sync.Mutex), `accessToken` ("" = none), `refreshToken`, `idpInfo`, `tokenGenID` (uint64); one instance shared by every connection of a pool | `Auth`, `Reauth`, `getAccessToken`, `invalidateAccessToken`, `CreateSpeculativeConversation`, `SetAccessToken` (test only) |
| Connection generation slot | `driver.Connection` (not in src) | `OIDCTokenGenID` per connection, 0 on a new connection | set by `getAccessToken` and `invalidateAccessToken` |
| Provider resolver | oidc.go:101-130, 164-186 | none (reads the immutable credential) | `newOIDCAuthenticator` validation, `providerCallback` |
| Azure callback | oidc.go:188-229 | the closure's captured `clientID` and `resource`; a new closure per Auth (oidc.go:343, 176) | one HTTP GET to the metadata endpoint, at most once per Auth (oidc.go:244) |
| OIDC SASL client `oidcOneStep` | oidc.go:132-162 | token to send | `Start`, `Next` (error), `Completed` |
| PLAIN mechanism | plain.go | username, password | `Auth`, `Reauth` (unsupported), `Start`, `Next` (error) |
| SASL conversation engine | `ConductSaslConversation` (not in src) | conversation id, done flag | start / continue round trips (spec.md 4.1) |
| Index view | unnamed/part_000 | none of its own; implicit sessions from the client's pool | `List`, `ListSpecifications`, `CreateOne`, `CreateMany`, `DropOne`, `DropAll`, `getOrGenerateIndexName` |
| Test fixtures | testdata/collection-management/*.yml | data only | none |

### How they interact

A connection's handshake calls `CreateSpeculativeConversation`. If a token is
cached, the handshake carries it. If the server rejects it, or if no token is
cached, the handshaker calls `Auth`. `Auth` snapshots the cache under `mu` and
runs a one-step SASL conversation with the snapshot without holding `mu`. If
the server rejects it, `Auth` calls `invalidateAccessToken` (under `mu`,
fenced by the connection's generation), sleeps 100 ms, and dispatches: the
human callback (not implemented), the user's machine callback, or a built-in
one from `providerCallback`. `doAuthMachine` calls `getAccessToken`, which
holds `mu` for the whole call, including the external callback (bounded by
60 s). The callback either returns the cached token, or stores a new token,
increments `tokenGenID` and records it on the connection. Then it runs the
conversation with that token. When a command later fails with error 391
(token expired), `Reauth` invalidates and runs `Auth` again.

### What is hard

* Every connection of a pool runs these operations on its own goroutine.
  `mu` is the only serialisation point. Reads of the cache are used after
  the lock is released and after a server round trip.
* Tokens expire on the server at any moment, between a snapshot and its use
  included.
* The callback is a blocking external call, made with the lock held, that
  can fail or time out.
* Invalidation is fenced by a per-connection generation. Whether the fence is
  right depends on which paths record a generation and which do not.
* The provider configuration is validated in one place and resolved in
  another.

### Properties that make each component correct

* Token authenticator. At most one callback runs, and only on an empty cache
  (no thundering herd). A failed callback leaves the cache as it was. An
  invalidation never clears a token newer than the one the connection saw
  rejected. After a rejected cached token, Auth uses a fresh token. Every
  Auth, Reauth and handshake terminates.
* Provider resolver. What validation accepts, resolution resolves to the
  provider it validated. The Azure callback sends the configured resource,
  escaped once, in every Auth.
* SASL engine and the one-step clients. A one-step mechanism sends its
  saslStart and nothing else, and succeeds only on a done reply without an
  error code. The PLAIN payload is `NUL username NUL password`, so that the
  server can take it apart. PLAIN refuses Reauth.
* Index view. Every implicit session is ended on every path, or handed to
  the cursor List returns.

## 2. Modules

| Module | Models | Used by |
|---|---|---|
| `OIDCAuthenticator` | the token authenticator and the connections of a pool | `MCOIDCAuthenticator`, `OIDCAuthenticatorProofs` |
| `MCOIDCAuthenticator` | 2 connections (model values), 3 tokens; the dispatch outcome (`callback`) chosen at Init | runs `oidc_*` |
| `OIDCAuthenticatorProofs` | TLAPS proofs for `OIDCAuthenticator` | |
| `OIDCProvider` | `newOIDCAuthenticator`, `providerCallback`, Auth's dispatch, the Azure callback closure | `MCOIDCProvider` |
| `MCOIDCProvider` | five ENVIRONMENT values, the resource `a:/b`, 2 Auth calls | runs `provider_*`, `azure_*` |
| `OIDCProviderProofs` | TLAPS proof of `ProviderIsUsed` | |
| `TokenCache` | the abstract cache contract of spec.md 4.3 | instantiated by `OIDCAuthenticator` |
| `SaslConversation` | one conversation of `ConductSaslConversation` (spec-modelled) driven by `plainSaslClient` or `oidcOneStep`, and PLAIN's Reauth | `MCSaslConversation`, `SaslConversationProofs` |
| `SaslRoundTrip` | the abstract one-round-trip contract of a one-step mechanism | instantiated by `SaslConversation` |
| `MCSaslConversation` | five usernames and four passwords (empty, one and two characters, a NUL at the end of a username and at the front of a password), two access tokens | runs `sasl_one_step`, `plain_nul_ambiguity` |
| `SaslConversationProofs` | TLAPS proofs of `ConvInv`, `OneStepExchange`, `PlainCredentialRecoverable`, the payload's injectivity and the round-trip refinement | |
| `IndexSessions` | the implicit-session lifecycle of `List`, `CreateMany`/`CreateOne` and `drop` (`DropOne`, `DropAll`) | `MCIndexSessions`, `IndexSessionsProofs` |
| `MCIndexSessions` | `MaxOps = 3` | run `index_sessions` |
| `IndexSessionsProofs` | TLAPS proofs of `SessionInv` and `NoSessionLeak` | |

### OIDCAuthenticator: state and actions

The variables are `mu` (the owner of the mutex during the callback),
`accessToken`, `tokenGenID`, `connGen[c]` (the connection's
`OIDCTokenGenID`), `pc[c]` (where connection `c`'s goroutine is), `tok[c]`
(the token of its conversation), `valid` (the tokens the server accepts) and
`callback`, Auth's dispatch outcome (the user's machine callback, the human
flow, a `providerCallback` error or none). It is fixed by the credential, so
it is chosen at Init and never changes; only "machine" reaches
`getAccessToken`, and the others make `DispatchFail` close the connection.
A token is the number of the acquisition that issued it, and `NoToken = 0` is
the empty string. This abstraction makes the callback return a fresh token
each time. That is what the machine flow gets from an identity provider, and
it lets a property tell an old token from a new one.

Each critical section other than the callback only touches memory, so it is
one step taken while `mu` is free: `Connect` (CreateSpeculativeConversation),
`AuthSnapshot`, `InvalidateAfterReject`, `Reauth`, and `GetAccessToken` when
the token is cached. `GetAccessToken` on an empty cache takes `mu` and
`CallbackSucceed`/`CallbackFail` release it, so the callback is a window
during which other connections run their unlocked steps: conversations and
expiry. Each server round trip is a step of its own (`SpeculativeReply`,
`SaslCached`, `SaslNew`), and `Expire(t)` can come between any two steps.
Every action lists in PROJECT.json "map" the lines it models.

### The abstract token cache and the refinement

`TokenCache` states what spec.md 4.3 promises of the cache, without
connections or locks. The cache goes from `NoToken` to `Acquiring` to
`Cached` and back to `NoToken`. A successful acquisition stores the token of
the next generation. A failed one leaves token and generation as they were.
Invalidation empties the cache and keeps the generation. `OIDCAuthenticator`
instantiates it with the mapping `state <- CacheState`, `token <-
accessToken` and `gen <- tokenGenID`. `CacheState` is `Acquiring` while `mu`
is held (a callback is running), and otherwise `NoToken` or `Cached`,
depending on `accessToken`. Every step of a connection is then a stutter
(snapshots, conversations, expiry, a fenced-off invalidation, the cached
fast path of `getAccessToken`) or exactly one abstract step. The steps are:
taking `mu` is `BeginAcquire`, `CallbackSucceed` is `AcquireSucceed`,
`CallbackFail` is `AcquireFail`, and an invalidation that clears is
`Invalidate`. `TokenCacheRefined == TC!Spec` is a PROPERTY of `oidc_core`.

### Provider dispatch

`Dispatch` follows the order of Auth's `if` statements as an IF chain: the
human callback, then the user's machine callback, then a `providerCallback`
error, then the built-in callback. Where two conditions hold at once, the
first one wins. For example, `gcp` returns both a callback and an error, and
Auth checks the error first.

Each Auth that reaches the machine-callback branch without a user callback
calls `providerCallback` again (oidc.go:343). That call builds a new Azure
closure from the raw TOKEN_RESOURCE property (oidc.go:176). The action
`AuthBuildsCallback` models this: it sets `closure` to `Resource` and
`phase` to `"callback"`. `InvokeAzureCallback` is `getAccessToken`. With a
cached token it returns without a call (oidc.go:240). Otherwise it calls the
closure once (oidc.go:244). The closure assigns the escaped value back to
its own `resource` (oidc.go:193) and sends the request unless building it
fails. The write-back stays in the model, because a callback kept across
Auth calls would expose it.

### SaslConversation: state and actions

`ConductSaslConversation` is not in this repository, so `Start`, `Reply`,
`Outcome` and `TransportError` follow spec.md 4.1. The clients are
translated from plain.go and oidc.go. The variables are `client` (a PLAIN
or an OIDC client built from a credential), `pc`, `sent` (the commands
sent), `convId`, `replies` and `result`. The server is the environment.
Each reply is any record of `Replies`: done or not, code 0 or 18, and
conversation id 1 or 2. `Reply` checks them in the engine's order: the
error code, then the conversation id, then `done` with `Completed`, then
`Next`. Payloads are sequences of one-character strings, and `NUL` is the
byte `\x00`. This makes the PLAIN payload a real concatenation that the
property splits. The OIDC payload is abstracted to its one `jwt` field. With
this repository's clients, `Next` always errs, so the saslContinue branch of
`Reply` is unreachable. The mutant that lets PLAIN answer a challenge
reaches it. `PlainCredentialRecoverable` is stated for credentials without a
NUL byte (`NulFree`), because nothing in plain.go rejects one.

`SaslRoundTrip` is what `OIDCAuthenticator` assumes of a conversation: one
request, then one answer that accepts exactly when it is done with code 0,
or a transport failure, and nothing after the verdict. `SaslConversation`
instantiates it with `phase <- Phase` (from `pc`), `requests <- Len(sent)`,
`reply <-` the first reply (`NoReply` before it) and `verdict <- Verdict`
(`accepted` for `ok`, and still for PLAIN's refused Reauth, which sends
nothing). `SaslRoundTripRefined == RT!Spec` is a PROPERTY of
`sasl_one_step`.

### IndexSessions: state and actions

One caller runs `List`, `CreateMany` or `drop`, one after another. A step is
one early return or one command. `hasPool` and `wcAck` (the collection's
write concern is acknowledged) are fixed at Init. `sess` is the operation's
`sess` variable: `nil`, a session of the context (`explicit`) or an implicit
one. `open` counts the implicit sessions not yet ended. `cursors` counts the
open cursors that own one. `deferred` counts the registered `defer
sess.EndSession()` calls (0 or 1). It is a separate variable because
`sess = nil` at part_000:258 and :400 does not cancel the defer.
`validSession` fails only for a context session. CreateMany's validation
loop and DropOne's `"*"` check return before any session is taken, so
`WriteStart` may return at once. Keys, names, options and errors are
abstracted to the outcome of their checks. `CursorClose` stands for
`Cursor.Close`, which is not in this repository.

### Fairness

Each goroutine keeps running, so its local steps are weakly fair. The
callback returns within `machineCallbackTimeout`, so
`CallbackSucceed \/ CallbackFail` is weakly fair. Go's `sync.Mutex`
switches to starvation mode and hands the lock to a waiter that has waited
more than 1 ms, so the steps that take `mu` are strongly fair. Handshakes,
Reauth triggers, closes and expiries come from the environment and are not
fair.

## 3. Runs

| Run | Expect | Checks | Shows |
|---|---|---|---|
| `oidc_core` | pass | `IInv`, `NoConcurrentAcquisition`, `FencedInvalidation`, `AuthTerminates`, `TokenCacheRefined` | the lock discipline, the fencing of connections with a recorded generation, termination, and that the authenticator implements `TokenCache` (5,760 states) |
| `oidc_stale_invalidation` | violation | `NoStaleInvalidation` | the comment at oidc.go:327-329 is wrong for connections whose generation is 0 |
| `oidc_fallback_reuses_token` | violation | `FallbackUsesFreshToken` | a stale connection generation makes Auth and Reauth reuse a rejected token |
| `provider_resolution` | pass | `ProviderIsUsed` | validation and resolution agree for lower-case `azure` and `gcp`, over all 208 credentials |
| `provider_env_case` | violation | `CaseInsensitiveEnvResolves` | `ENVIRONMENT=Azure` is accepted and then cannot be resolved |
| `azure_fresh_closure` | pass | `ResourceEscapedOnce` | over two Auth calls, every Azure request carries the resource escaped exactly once, because each Auth builds its own closure (230 states) |
| `sasl_one_step` | pass | `ConvInv`, `OneStepExchange`, `PlainCredentialRecoverable`, `SaslRoundTripRefined` | against every server reply and transport errors, a PLAIN or OIDC conversation is one round trip of `SaslRoundTrip`: it sends only its saslStart and succeeds only on a done reply with code 0; the PLAIN payload of a NUL-free credential splits back into it (282 states) |
| `plain_nul_ambiguity` | violation | `PlainPayloadIdentifiesClient` | a NUL moved from the end of the username to the front of the password gives the same PLAIN payload |
| `index_sessions` | pass | `SessionInv`, `NoSessionLeak` | every implicit session is ended when its operation returns, or is owned by an open cursor (205 states) |

Bounds. Two connections are the fewest that interleave. Three tokens let one
connection hold generation 1 while another acquires generation 2 and token 2
expires in turn; the two violations need exactly that. With a third
connection the state space grows and no new case appears. For the provider,
the five ENVIRONMENT values cover each branch of both switches and the case
mismatch. The resource `a:/b` contains characters QueryEscape rewrites. Two
Auth calls are the fewest in which a closure kept across calls would show. For SASL, the
credentials include empty and multi-character usernames and passwords, where
a misplaced NUL would show. The replies include every combination of done,
error code and a conversation id that matches or not. For the index view,
three operations are enough for a List cursor to stay open across a write
and across another List. With and without a pool, context sessions and
acknowledged write concerns, every early return is reached. `CHECK_DEADLOCK
FALSE` is set in both runs because a conversation ends and the caller stops
after `MaxOps` operations.

Each property of a passing run has a mutant in PROJECT.json. Taking the
callback without the lock breaks `IInv` and `NoConcurrentAcquisition`.
Dropping the generation check breaks `FencedInvalidation`. Retrying the
cached path instead of falling through breaks `AuthTerminates`. Dropping
validation's fallthrough into the callback check breaks `ProviderIsUsed`.
Keeping the first Auth's Azure closure for later Auth calls breaks
`ResourceEscapedOnce`.
A failed callback that increments the generation breaks `TokenCacheRefined`.
A PLAIN `Next` that answers a challenge breaks `ConvInv`,
`OneStepExchange` and `SaslRoundTripRefined`. A PLAIN payload without the leading NUL breaks
`PlainCredentialRecoverable`. Not closing the implicit session on List's
namespace-not-found path breaks `SessionInv`. A deferred EndSession that
ends what `sess` holds at the return breaks `NoSessionLeak`.

## 4. Findings

1. **Fencing does not protect against connections with generation 0**
   (oidc.go:330, comment 327-329). A connection that authenticated from the
   cache, or speculatively, never records a generation. After its cached
   token is rejected it clears whatever is cached, including a valid token
   another connection has just acquired. The result is an extra call to the
   identity provider.
2. **A stale generation makes reauthentication reuse a rejected token**
   (oidc.go:240). The fast path of `getAccessToken` does not record the
   generation. A connection that once acquired token 1 and later used the
   cached token 2 keeps generation 1. When token 2 expires, both
   invalidations are fenced off, `getAccessToken` returns token 2 again, and
   Reauth fails without invoking the callback. A new connection (generation
   0) is what eventually clears it.
3. **ENVIRONMENT is case-insensitive in validation and case-sensitive in
   resolution** (oidc.go:107 vs 170).
4. **A NUL byte makes the PLAIN payload ambiguous** (plain.go:53). Start
   concatenates NUL, username, NUL and password without checking either for
   NUL, and spec.md only gives the layout. RFC 4616 excludes NUL from both.
   Username `n` with password NUL+`p` sends the bytes of username `n`+NUL
   with password `p`. `PlainPayloadInjective` proves that NUL-free
   credentials are unambiguous.

## 5. Proofs

`OIDCAuthenticatorProofs` proves, for every set of connections and every
`MaxTokens`, under `ConnsAssumption` (`NoConn` is not a connection) and
`MaxTokensAssumption`:

* `IInvHolds: Spec => []IInv`. `IInv` is `TypeOK /\ CacheIsLatest /\
  GenBound /\ LockHeldInCallback /\ LockedCacheEmpty`. `NoConcurrentAcquisition`
  is not inductive on its own: a step of another connection could cache a
  token unless one knows that `mu` is held exactly by the connection in the
  callback (`LockHeldInCallback`) and that the cache is empty while it is
  held (`LockedCacheEmpty`). `FencedInvalidation` needs the fencing
  arithmetic: a recorded generation is never ahead of `tokenGenID`
  (`GenBound`), and the cache holds nothing or the latest token
  (`CacheIsLatest`). TLC checks `IInv` in `oidc_core`. The proof has one step
  per action (`InitIInv`, `NextIInv`).
* `TypeCorrect: Spec => []TypeOK`.
* `NoConcurrentAcquisitionHolds: Spec => []NoConcurrentAcquisition`.
* `FencedInvalidationHolds: Spec => [][FencedInvalidationStep]_vars`, from
  the lemma `FencedStep`. Only `InvalidateAfterReject` and `Reauth` empty the
  cache. The connection whose `pc` changes is the one that invalidates. With
  a non-zero generation, the fence and `GenBound` force it to equal
  `tokenGenID`, which is the cached token by `CacheIsLatest`.

* `TokenCacheRefinement: Spec => TokenCacheRefined`. `InitRefines` shows
  that the initial state maps to `TC!Init`. `NextRefines` shows, under
  `IInv`, that every step maps to a `TC!Next` step or a stutter. The step
  needs `IInv`: `LockedCacheEmpty` makes taking `mu` start from `NoToken`,
  and `CacheIsLatest` makes the stored token `tokenGenID + 1`.

`OIDCProviderProofs` proves `ProviderIsUsedHolds: Spec => []ProviderIsUsed`
under `LowerAssumption`. That assumption says `Lower` maps the lower-case
ENVIRONMENT values to themselves, which is what `strings.ToLower` does. The
lemma `AcceptedProviderDispatch` covers one accepted credential. The
invariant `Built` says the authenticator is the one built from the
credential.

`SaslConversationProofs` proves `ConvInvHolds` and `OneStepExchangeHolds`
for every set of credentials, under `CredAssumption`. The lemma `NextRefuses`
says that both clients' `Next` errs. The inductive `ConvInv` ties `pc` to
the lengths of `sent` and `replies`, and a success to the one reply.
`OneStepExchange` alone is not inductive: it says nothing of `pc = "await"`.
`ConvInv` also fixes the one command sent as `StartCommand(client)` and the
conversation id as unset before the reply. Those two conjuncts are what
`PlainCredentialRecoverableHolds` and the refinement need. TLC checks the
strengthened `ConvInv` in `sasl_one_step`.

* `PlainCredentialRecoverableHolds`. It rests on `PlainPayloadShape`, which
  gives the length and every byte of `NUL \o u \o NUL \o w` from
  `ConcatProperties`, and on `PlainPayloadSplits`: the NUL bytes of the
  payload of NUL-free `u`, `w` are exactly positions 1 and `Len(u) + 2`,
  and the three `SubSeq`s give back `<<>>`, `u` and `w`. The provers do not
  know that the literal `NUL` is a string. The lemmas therefore reason about
  sequences over `Chars == STRING \cup {NUL}`, which `SeqMonotonic` gives.
* `PlainPayloadInjective`: two NUL-free PLAIN clients with the same payload
  are equal, from `PlainPayloadSplits` and `SplitUnique`. `SplitUnique` says
  the two NUL positions determine the split. Its NUL-containing
  counterexample is the `plain_nul_ambiguity` run.
* `RoundTripRefinement: Spec => SaslRoundTripRefined`, from
  `InitRefinesRoundTrip` and `NextRefinesRoundTrip`. Start is `Send`, a
  transport error is `Lose`, a reply is `Answer` with that reply, and
  PLAIN's Reauth is a stutter. The `Reply` step needs `NextRefuses`, so that
  no saslContinue is sent, and the unset conversation id, so that the id
  check passes on the first reply.

`IndexSessionsProofs` proves `SessionInvHolds` and `NoSessionLeakHolds` for
every `MaxOps`. `SessionInv` is the counting invariant `open = cursors +
Held`. `Held` is the implicit session the running operation still has to
end. For List, that is `sess` itself. For a write, it is the registered
defer, which survives `sess` being set to nil. `NoSessionLeak` is its
instance at `pc = "idle"`.

Only model-checked: `AuthTerminates`, a liveness property under fairness,
which TLAPS does not handle here. Also only model-checked: the
`OIDCProvider` violation, `ResourceEscapedOnce`, and anything about what `QueryEscape` computes.
It is defined with `FlattenSeq`, so a statement about every input needs
induction over the sequence, which the installed provers cannot do.

## 6. Not modelled, and the plan

Not modelled, and why:

* `SetAccessToken` (a testing hook).
* The refresh token and `idpInfo`: the machine flow never reads them.
* The HTTP and JSON details of the Azure callback, which are abstracted to
  their outcomes.
* `uint64` overflow of `tokenGenID`, which needs 2^64 acquisitions.
* `getOrGenerateIndexName` and `createOptionsDoc` (part_000:296-377,
  451-504): BSON formatting with no state. `CreateMany` abstracts their
  errors to an early return before any session.
* `ListSpecifications`, which only decodes the cursor List returns.
* The contents of a command or a cursor batch. `IndexSessions` keeps only
  who owns the implicit session.
* The test fixtures: data for the server, with no code.

Plan:

1. `getOrGenerateIndexName` as an operator over key documents of int32,
   int64 and string values, checked against a reference definition.
2. A composition of `OIDCProvider` and `OIDCAuthenticator`: the dispatch
   outcome computed from a credential instead of the variable `callback`,
   which `OIDCAuthenticator` now chooses freely at Init.
3. That `CallbackFail` leaves the cache unchanged is already part of
   `TokenCacheRefinement` (`AcquireFail` keeps token and generation), so no
   separate action property is planned. Lemmas about `QueryEscape` need
   induction over `FlattenSeq` and stay with TLC.
