--------------------------- MODULE MCOIDCProvider ---------------------------
(* ENVIRONMENT in the cases the code distinguishes (the two built-in       *)
(* providers lower-case and capitalised, "test", an unsupported value), a *)
(* resource with two characters QueryEscape escapes, two Auth calls.     *)
EXTENDS OIDCProvider, TLC

MCEnvValues == {"azure", "Azure", "gcp", "test", "aws"}

MCLower == [e \in MCEnvValues |-> IF e = "Azure" THEN "azure" ELSE e]

MCResource == <<"a", ":", "/", "b">>

MCHexOf == (":" :> <<"3", "A">>) @@ ("/" :> <<"2", "F">>) @@ ("%" :> <<"2", "5">>)
=============================================================================
