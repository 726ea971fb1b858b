-------------------------- MODULE MCWebhookFilter --------------------------
(***************************************************************************)
(* Instances of WebhookFilter for TLC.                                     *)
(***************************************************************************)
EXTENDS WebhookFilter

CONSTANTS u1, n1, n2, a1

\* Every event a request can name, and a string that names none
MCEventNames == SendEventTypes \cup {"SEND_OTHER"}

\* A group of three types, one of two, one whose events have no address
MCFewNames == {"SEND_MULTISIG_TXS", "SEND_DELEGATES", "SEND_OTHER"}
=============================================================================
