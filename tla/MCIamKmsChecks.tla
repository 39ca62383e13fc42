--------------------------- MODULE MCIamKmsChecks ---------------------------
(***************************************************************************)
(* Two resources, so that pages, and one resource affected by what happens *)
(* to the other, occur; the principal starts with every permission, or     *)
(* without the listing or a call about the first resource; two changes of  *)
(* the account, or of the permissions, at any moments of the run.          *)
(***************************************************************************)
EXTENDS IamKmsChecks

MCDenials == {{}} \union {{c} : c \in {<<"list", 0>>, <<"gate", 1>>, <<"look", 1>>}}
MCLookDenials == {{<<"look", r>>} : r \in Resource}
MCMfaRule == {"user-mfa-missing"}
=============================================================================
