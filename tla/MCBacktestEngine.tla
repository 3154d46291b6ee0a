--------------------------- MODULE MCBacktestEngine ---------------------------
(* A backtest of a few bars on a small account, for TLC. *)
EXTENDS BacktestEngine

CONSTANTS symbol, engine
=============================================================================
