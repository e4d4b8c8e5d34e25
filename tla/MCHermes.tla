------------------------------ MODULE MCHermes ------------------------------
(* Bounds for HermesProvider: one provider with its supervisor.              *)
EXTENDS HermesProvider

MCSupervisorOf == [t \in Threads |-> Provider]
=============================================================================
