---------------------------- MODULE MCWatchBrowser ----------------------------
(* Two contexts and two resources, of which one comes and goes.               *)
EXTENDS WatchBrowser
============================================================================
