----------------------------- MODULE TickerFlag -----------------------------
(***************************************************************************)
(* g_ticker_running (device_manager.cpp), the atomic flag between main, which *)
(* raises and lowers it, and the ticker thread, which tests it.  The cadence  *)
(* of the thread and the life of the process are two views of it.             *)
(***************************************************************************)

VARIABLE g_ticker_running
=============================================================================
