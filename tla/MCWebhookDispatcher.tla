------------------------ MODULE MCWebhookDispatcher ------------------------
(***************************************************************************)
(* The instance of WebhookDispatcher for TLC.                              *)
(***************************************************************************)
EXTENDS WebhookDispatcher

CONSTANTS w1, w2, c1, c2, e1, r1, r2

MCReliable == {w2}
MCDead == {w1}

\* e1 is relevant to c1 and to nothing else
MCRelevant == {<<c1, e1>>}
=============================================================================
