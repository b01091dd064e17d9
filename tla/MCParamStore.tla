---------------------------- MODULE MCParamStore ----------------------------
(* Instances of ParamStore for TLC *)
EXTENDS ParamStore

CONSTANTS t1, t2, factory, zero, a

OneTask == {t1}
TwoTasks == {t1, t2}
NoTasks == {}
TwoValues == {factory, zero}
ThreeValues == {factory, zero, a}

-----------------------------------------------------------------------------
(* tls_param_to_default takes no lock, so its caller has to see to it that  *)
(* no other call overlaps with it: ResetAlone for the time of the call.     *)

Resetting(t) == pc[t] \in Writing /\ sys_param_lock # t

CallOutsideReset(t) == (\A r \in Resetters : ~Resetting(r)) /\ Call(t)

ResetBetweenCalls(t) == (\A u \in Tasks : pc[u] = "idle") /\ ToDefault(t)

ExclusiveNext ==
    \/ Boot
    \/ \E t \in Tasks : TaskStep(t) \/ CallOutsideReset(t) \/ ResetBetweenCalls(t)
    \/ PowerCut

ExclusiveSpec == Init /\ [][ExclusiveNext]_vars /\ Fairness
=============================================================================
