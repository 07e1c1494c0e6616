----------------------------- MODULE MCStepTokens -----------------------------
EXTENDS StepTokens

CONSTANTS a, b

MCStepList == <<a, b>>

=============================================================================
