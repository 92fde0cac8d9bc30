--------------------------- MODULE MCCodexDelivery ---------------------------
(* Instance of CodexDelivery.                                              *)
EXTENDS CodexDelivery
=============================================================================
