------------------------- MODULE MCSemanticWebhooks -------------------------
(***************************************************************************)
(* Instances of SemanticWebhooks: two webhooks with three bound zones.     *)
(***************************************************************************)
EXTENDS SemanticWebhooks

CONSTANTS w1, w2, h1, h2

\* Two zones bound to one webhook's condition and one to the other's; an edit may
\* bind a fourth.
TwoAndOne == {<<w1, 1>>, <<w1, 2>>, <<w2, 3>>}

=============================================================================
