------------------------------ MODULE MCRxPath ------------------------------
(* RxPath for a ring of Capacity descriptors; Pbufs is a set of model values. *)
EXTENDS RxPath, TLC

MCContexts == {"isr", "eth", "tcpip", "app"}
MCItems == 0 .. 2 * Capacity - 1
Interrupts == {[unread |-> 1, long |-> FALSE, app |-> FALSE, it |-> TRUE]}
Polling == {[unread |-> 2, long |-> TRUE, app |-> FALSE, it |-> FALSE]}
InterruptsOrPolling == Interrupts \cup Polling
Everyone == {[unread |-> 1, long |-> FALSE, app |-> TRUE, it |-> TRUE]}
MCSymmetry == Permutations(Pbufs)
=============================================================================
