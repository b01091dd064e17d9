------------------------------ MODULE TimerList -------------------------------
(****************************************************************************)
(* What the one-shot timers of a task promise: armed timers are kept in the *)
(* order in which they will expire, each with the time it has left.  Arming *)
(* or disarming one leaves the times of the others alone, and time passes   *)
(* for all of them alike.                                                   *)
(****************************************************************************)
EXTENDS Naturals, Sequences, FiniteSets

CONSTANTS Handlers, Durations

VARIABLE armed      \* sequence of [h, left]

Init == armed = <<>>

(* A timer goes behind those that expire before it or together with it *)
Arm(h, ms) ==
    LET before == Cardinality({i \in DOMAIN armed : armed[i].left <= ms})
    IN  armed' = SubSeq(armed, 1, before) \o <<[h |-> h, left |-> ms]>>
                 \o SubSeq(armed, before + 1, Len(armed))

(* The first timer with this handler is removed *)
Disarm(h) ==
    \E i \in DOMAIN armed :
        /\ armed[i].h = h
        /\ \A j \in 1 .. i - 1 : armed[j].h # h
        /\ armed' = SubSeq(armed, 1, i - 1) \o SubSeq(armed, i + 1, Len(armed))

Later(timers, ms) ==
    [i \in DOMAIN timers |-> [timers[i] EXCEPT !.left = @ - ms]]

(* Time passes, never beyond the first expiry *)
Pass == armed # <<>> /\ \E ms \in 1 .. armed[1].left : armed' = Later(armed, ms)

(* The first timer expires *)
Expire == armed # <<>> /\ armed' = Later(Tail(armed), armed[1].left)

Next ==
    \/ \E h \in Handlers : Disarm(h) \/ \E ms \in Durations : Arm(h, ms)
    \/ Pass \/ Expire

Spec == Init /\ [][Next]_armed
=============================================================================
