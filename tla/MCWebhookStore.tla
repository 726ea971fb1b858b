--------------------------- MODULE MCWebhookStore ---------------------------
(***************************************************************************)
(* Instances of WebhookStore for TLC.                                      *)
(***************************************************************************)
EXTENDS WebhookStore, TLC

CONSTANTS w1, w2, u1, u2, c1, c2, k1, k2

\* Nothing tells two ids, two urls, two configurations or two clients apart
MCSymmetry ==
  Permutations(Ids) \cup Permutations(Urls) \cup Permutations(Configs)
    \cup Permutations(Clients)
=============================================================================
