------------------------- MODULE MCAttemptLifecycle -------------------------
\* The instances of AttemptLifecycle: all constants are numbers and sets of
\* attempt numbers, given in the configurations. The idle delays, fourteen and
\* fifteen minutes by default, are one and two ticks.
EXTENDS AttemptLifecycle
=============================================================================
