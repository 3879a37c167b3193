------------------------------ MODULE MCTxPath ------------------------------
(* TxPath with lwIP alone, sending all kinds of chains, and with the calls  *)
(* that ethernet_thread makes beside it.                                    *)
EXTENDS TxPath

CONSTANTS f1, f2, f3

LwipAlone == [frames |-> {f1, f2, f3}, chains |-> {1, 2, 3}, long |-> TRUE,
              drains |-> FALSE, rx |-> FALSE, it |-> TRUE]
WithThread == [frames |-> {f1, f2}, chains |-> {2}, long |-> FALSE,
               drains |-> TRUE, rx |-> TRUE, it |-> FALSE]
MCSetups == {LwipAlone, WithThread}
=============================================================================
