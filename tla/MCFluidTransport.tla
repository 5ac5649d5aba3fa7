-------------------------- MODULE MCFluidTransport --------------------------
(* Instances of FluidTransport for TLC. *)
EXTENDS FluidTransport

Of(types, cycles, sources) ==
    {s \in [type : types, init : OneStepTypes, cycles : cycles, sources : sources] :
        /\ s.init # "FORWARD_EULER" => Multistep(s)
        /\ s.sources => s.type # "NONE"}

\* Every time stepping type with one cycle or two, where supported.
AllFluidSchemes == Of(Types, 1..2, {FALSE}) \cup Of({"MIDPOINT_RULE"}, {3}, {TRUE})
AllTransportSchemes == Of(Types, 1..3, {FALSE})
TwoCycles == Of({"MIDPOINT_RULE"}, {2}, {FALSE})
=============================================================================
