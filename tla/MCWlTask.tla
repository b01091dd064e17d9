------------------------------- MODULE MCWlTask -------------------------------
(* Instances of WlTask: its messages, and its timers *)
EXTENDS WlTask

CONSTANTS app, self, isr, mlme, uart_rx, f, g, h1, h2

(* A task and an interrupt handler, each with a static message of its own *)
IdOwner == [id \in {mlme, uart_rx} |-> IF id = mlme THEN app ELSE isr]

(* They also have the task call back and arm a timer, which may post again  *)
MixedRequests ==
    [p \in Posters |-> [type : {"CALLBACK"}, function : {f}]
                       \union (IF p = app THEN Timeouts ELSE {})]

(* A task arms two kinds of timers and cancels those of one *)
TimerRequests ==
    [p \in Posters |->
       IF p = app THEN [type : {"TIMEOUT"}, h : {h1}, msecs : {6}]
                       \union [type : {"TIMEOUT"}, h : {h2}, msecs : {3}]
                       \union [type : {"UNTIMEOUT"}, h : {h1}]
       ELSE {}]

NoOwner == [id \in {} |-> app]
=============================================================================
