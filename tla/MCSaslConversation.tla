------------------------- MODULE MCSaslConversation -------------------------
(* Usernames and passwords as sequences of one-character strings: empty,  *)
(* one and two characters, and a pair holding a NUL byte at the end of a  *)
(* username and at the front of a password; two access tokens.            *)
EXTENDS SaslConversation

MCUsernames == {<<"u">>, <<"a", "b">>, <<>>, <<"n">>, <<"n", NUL>>}
MCPasswords == {<<"p">>, <<"q", "r">>, <<>>, <<NUL, "p">>}
MCAccessTokens == {<<"t">>, <<"e", "y">>}
=============================================================================
