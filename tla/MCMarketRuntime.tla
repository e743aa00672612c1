---------------------------- MODULE MCMarketRuntime ----------------------------
\* Small instances of MarketRuntime: a validator's process, which is asked for
\* every mode, and one that is not.
EXTENDS MarketRuntime

MCEveryMode == Mode
=============================================================================
