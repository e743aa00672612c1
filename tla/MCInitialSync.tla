---------------------------- MODULE MCInitialSync ----------------------------
EXTENDS InitialSync
CONSTANTS kraken, gate, lbank
MCOrder == <<lbank, gate, kraken>>
MCRescuers == <<kraken, gate>>
=============================================================================
