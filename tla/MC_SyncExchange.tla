------------------------- MODULE MC_SyncExchange --------------------------
(* Instances of SyncExchange for TLC. *)
EXTENDS SyncExchange, TLC

CONSTANTS ctl, wa, wb, f1, f2, s1, s2

\* Two workers that meet only through the controller, which dials both.
RelayReplicas == {ctl, wa, wb}
RelayClient == (s1 :> ctl) @@ (s2 :> ctl)
RelayServer == (s1 :> wa) @@ (s2 :> wb)

\* One of two replicas dials the other; the server half of a dead connection
\* races the connection that replaces it.
TwinReplicas == {wa, wb}
TwinClient == (s1 :> wa) @@ (s2 :> wa)
TwinServer == (s1 :> wb) @@ (s2 :> wb)

TwoFacts == {f1, f2}
NoFact == {}
OneFact == {f1}
BothSessions == {s1, s2}

\* Only the replacement is retried for ever; the half of a dead connection may
\* stop anywhere, or move receipts once more before it does.
TakeoverSpec == Spec /\ WF_vars(Step(s1))
===========================================================================
