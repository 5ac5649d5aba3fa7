\* Every pair of supported time stepping types, with regrids and restarts
\* between the steps and step sizes that change.
SPECIFICATION Spec
CONSTANTS
    FluidSchemes <- AllFluidSchemes
    TransportSchemes <- AllTransportSchemes
    DtValues = {1, 2}
    MaxSteps = 3
INVARIANTS
    TypeOK
    OperatorsMatchStep
    TransportedByTheFluid
PROPERTIES
    ImplementsFluidScheme
    ImplementsTransportScheme
