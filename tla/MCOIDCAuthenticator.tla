------------------------ MODULE MCOIDCAuthenticator ------------------------
(* The OIDC authenticator shared by a pool of two connections, a machine   *)
(* callback, and at most three tokens: enough for one connection to hold  *)
(* a stale generation while another acquires and the server expires two  *)
(* tokens in turn.                                                        *)
EXTENDS OIDCAuthenticator, TLC

CONSTANTS c1, c2

MCConns == {c1, c2}

MCSymmetry == Permutations(MCConns)
=============================================================================
