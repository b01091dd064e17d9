------------------------------- MODULE MCUart ---------------------------------
(* The two directions of a UART port share no list, ring or FIFO; the       *)
(* instance runs one of them, chosen at the start.  The variable port is the    *)
(* receiver's.                                                              *)
EXTENDS UartTx, UartRx

VARIABLE direction

vars == <<direction, txvars, rxvars>>

Init ==
    /\ direction \in {"tx", "rx"}
    /\ TxInit
    /\ RxInit
    /\ direction = "tx" => port = "port0"

Sending == direction = "tx" /\ TxNext /\ UNCHANGED <<direction, rxvars>>
Receiving == direction = "rx" /\ RxNext /\ UNCHANGED <<direction, txvars>>

Spec == Init /\ [][Sending \/ Receiving]_vars /\ TxFairness

TypeOK == TxTypeOK /\ RxTypeOK

=============================================================================
