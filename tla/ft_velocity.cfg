\* Two cycles each: the second one of the advection-diffusion solver should
\* use the velocity that the first one of the fluid solver computed.
SPECIFICATION Spec
CONSTANTS
    FluidSchemes <- TwoCycles
    TransportSchemes <- TwoCycles
    DtValues = {1}
    MaxSteps = 1
INVARIANTS
    UsesUpdatedVelocity
