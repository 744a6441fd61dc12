----------------------------- MODULE MCGateway -----------------------------
EXTENDS GatewayProps

Delivered == [gwc : {"OK_COMPLETE"}, admissible : BOOLEAN]
Timeout == [gwc : {"TIMEOUT"}, admissible : {TRUE}]
FewOutcomes == Delivered \cup Timeout
OneOutcome == [gwc : {"OK_COMPLETE"}, admissible : {TRUE}]
=============================================================================
