---------------------------- MODULE MCAdaptiveRamp ----------------------------
EXTENDS AdaptiveRamp
MCParams == {NotANumber, 0, 3, 12}
=============================================================================
