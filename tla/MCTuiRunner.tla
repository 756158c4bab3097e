---------------------------- MODULE MCTuiRunner ----------------------------
(* Two users and a node: a list that can shrink under the selected line.    *)
EXTENDS TuiRunner

TwoNames == <<"alice", "bob">>
OneTag == <<"tokyo">>
AllOps == DOMAIN ScriptOf
============================================================================
