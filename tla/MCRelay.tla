------------------------------ MODULE MCRelay ------------------------------
(***************************************************************************)
(* Instances of Relay for TLC: all events are for one device.              *)
(***************************************************************************)
EXTENDS Relay, TLC

MCTarget == [e \in Events |-> CHOOSE d \in Devices : TRUE]

\* The device has a provider, or none in either setting, or its entries cannot
\* be read.
MCServed == [unknown |-> {}, reject_unknown_apps |-> TRUE, unreadable |-> {}]
MCUnknown(reject) == [MCServed EXCEPT !.unknown = Devices, !.reject_unknown_apps = reject]
MCConfigs ==
  {MCServed, MCUnknown(TRUE), MCUnknown(FALSE), [MCServed EXCEPT !.unreadable = Events]}
MCServedOnly == {MCServed}

MCSymmetry == Permutations(Events) \cup Permutations(Handlers)
=============================================================================
