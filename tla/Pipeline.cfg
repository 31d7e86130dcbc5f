SPECIFICATION Spec
INVARIANT EffectsAreGuarded
INVARIANT AnswersAreTrue
PROPERTY OnlyHangingBlocks
