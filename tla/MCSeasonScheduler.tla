--------------------------- MODULE MCSeasonScheduler ---------------------------
(* SeasonScheduler on small instances; the cfg files fix the constants.    *)
EXTENDS SeasonScheduler
CONSTANTS p1, p2, ctl, op

OneParticipant == {p1}
TwoParticipants == {p1, p2}
NoOperators == {}
OneOperator == {op}
ManualOnly == {"manual"}
AnySource == {"manual", "auto"}
ActiveOnly == {"active"}
ActiveOrObserving == {"active", "observing"}
=============================================================================
