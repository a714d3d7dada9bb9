--------------------------- MODULE MCExternalCall ---------------------------
(* The configured number of retries and one status of every class the      *)
(* classification tells apart.                                             *)
EXTENDS CredentialCheck

MCStatuses == {302, 400, 401, 403, 404, 408, 429, 500, 503, 507}

=============================================================================
