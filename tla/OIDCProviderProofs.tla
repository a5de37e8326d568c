------------------------- MODULE OIDCProviderProofs -------------------------
(***************************************************************************)
(* For every set of ENVIRONMENT values and every resource: validation and *)
(* resolution agree for the built-in providers.                           *)
(***************************************************************************)
EXTENDS OIDCProvider, TLAPS

(* For each credential newOIDCAuthenticator accepts, an ENVIRONMENT of    *)
(* "azure" dispatches to the built-in Azure callback and one of "gcp" to  *)
(* providerCallback's error: the fallthrough into the callback check      *)
(* rules out a user callback for both.                                    *)
LEMMA AcceptedProviderDispatch ==
    ASSUME NEW cr \in Creds, NewOIDCAuthenticator(cr) = "ok"
    PROVE  /\ cr.env = "azure" => Dispatch(cr) = "builtin_azure"
           /\ cr.env = "gcp"   => Dispatch(cr) = "provider_error"
  <1>1. CASE cr.env = "azure"
    <2>1. cr.props /\ cr.env \in EnvValues
      BY <1>1 DEF Creds, NoEnv
    <2>2. Lower[cr.env] = "azure"
      BY <1>1, <2>1, LowerAssumption
    <2>3. cr.resource /\ ~cr.machine /\ ~cr.human
      BY <1>1, <2>1, <2>2 DEF NewOIDCAuthenticator, NoEnv
    <2>4. ProviderCallback(cr) = [cb |-> "azure", err |-> FALSE]
      BY <1>1, <2>3 DEF ProviderCallback, NoEnv
    <2>5. QED
      BY <1>1, <2>3, <2>4 DEF Dispatch, BuiltIn
  <1>2. CASE cr.env = "gcp"
    <2>1. cr.props /\ cr.env \in EnvValues
      BY <1>2 DEF Creds, NoEnv
    <2>2. Lower[cr.env] = "gcp"
      BY <1>2, <2>1, LowerAssumption
    <2>3. cr.resource /\ ~cr.machine /\ ~cr.human
      BY <1>2, <2>1, <2>2 DEF NewOIDCAuthenticator, NoEnv
    <2>4. ProviderCallback(cr) = [cb |-> "gcp", err |-> TRUE]
      BY <1>2, <2>3 DEF ProviderCallback, NoEnv
    <2>5. QED
      BY <1>2, <2>3, <2>4 DEF Dispatch, BuiltIn
  <1>3. QED
    BY <1>1, <1>2

(* The credential and the verdict are fixed once built.                   *)
Built == cred \in Creds /\ built = NewOIDCAuthenticator(cred)

LEMMA BuiltInvariant == Spec => []Built
  <1>1. Init => Built
    BY DEF Init, Built
  <1>2. Built /\ [Next]_vars => Built'
    BY DEF Built, Next, AuthBuildsCallback, InvokeAzureCallback, vars
  <1>3. QED
    BY <1>1, <1>2, PTL DEF Spec

(* Every reachable configuration satisfies ProviderIsUsed.                *)
THEOREM ProviderIsUsedHolds == Spec => []ProviderIsUsed
  <1>1. Built => ProviderIsUsed
    BY AcceptedProviderDispatch DEF Built, ProviderIsUsed
  <1>2. QED
    BY <1>1, BuiltInvariant, PTL
=============================================================================
