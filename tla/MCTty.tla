------------------------------- MODULE MCTty --------------------------------
EXTENDS Tty
CONSTANTS r1, r2, w1, w2

(* One reader and the keys that edit; two readers; two writers and         *)
(* printf(); and a writer against the handler's procdump() and printf().   *)
MCLoads == {[procs |-> {r1}, keys |-> Keys \ {"ps"}, counts |-> {2}, printf |-> FALSE],
            [procs |-> {r1, r2}, keys |-> {"nl"}, counts |-> {1}, printf |-> FALSE],
            [procs |-> {w1, w2}, keys |-> {}, counts |-> {2}, printf |-> TRUE],
            [procs |-> {w1}, keys |-> {"ps"}, counts |-> {2}, printf |-> TRUE]}
=============================================================================
