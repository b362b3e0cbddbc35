-------------------------- MODULE MCEndpointSweep --------------------------
(* A small instance of EndpointSweep: every store of up to two intervals   *)
(* of one entity and one of another, inverted and empty ones included, of  *)
(* the kinds joint_start and joint_stop store.                             *)
EXTENDS EndpointSweep, TLC

CONSTANTS p, q

MCIds == {p, q}

Moments == (MInf + 1)..(Inf - 1)

Stored(id) ==
  {t \in Interval : /\ t.who = id
                    /\ t.min \in Moments \cup {MInf} /\ t.max \in Moments \cup {Inf}
                    /\ ~ (t.min = MInf /\ t.max = Inf)}

MCStores ==
  {{t, u, v} : t \in Stored(p), u \in Stored(p), v \in Stored(q)}
    \cup {{t, u} : t \in Stored(p), u \in Stored(p)}

MCWindows == (MInf..Inf) \X (MInf..Inf)
=============================================================================
