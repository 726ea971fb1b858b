----------------------------- MODULE MCDelivery -----------------------------
(***************************************************************************)
(* Instances of Delivery for TLC.                                          *)
(***************************************************************************)
EXTENDS Delivery, TLC

CONSTANTS d1, d2, d3

\* A success, an answer that is neither success nor error, one the agent retries,
\* and two it does not
MCStatuses == {200, 302, 429, 501, 503}

\* One the agent retries and one it does not
MCErrors == {"ECONNRESET", "ERR_TLS_CERT_ALTNAME_INVALID"}
=============================================================================
