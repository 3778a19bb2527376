---------------------------- MODULE MCWatchServer ----------------------------
(* One websocket: two subscriptions in flight when the kubeconfig has one
   context, one subscription and a moving client when it has two.            *)
EXTENDS WatchServer
CONSTANTS a, b
MCRoutines == <<2, 1>>
============================================================================
