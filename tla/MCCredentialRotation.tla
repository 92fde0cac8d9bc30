------------------------ MODULE MCCredentialRotation ------------------------
(* Instance of CredentialRotation.                                         *)
EXTENDS CredentialRotation
=============================================================================
