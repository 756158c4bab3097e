------------------------- MODULE MCTelegramBinding -------------------------
(* The tasks are alike, and so are the users. *)
EXTENDS TelegramBinding, TLC

TaskUserSymmetry == {f @@ g : f \in Permutations(Tasks), g \in Permutations(Users)}
============================================================================
