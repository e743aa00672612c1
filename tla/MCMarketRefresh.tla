---------------------------- MODULE MCMarketRefresh ----------------------------
\* Small instances of MarketRefresh.
EXTENDS MarketRefresh
CONSTANTS api, worker, cli, binance, kraken
=============================================================================
