------------------------- MODULE MCWeightedPayload --------------------------
EXTENDS WeightedPayload
=============================================================================
