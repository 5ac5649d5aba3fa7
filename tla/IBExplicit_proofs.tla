--------------------------- MODULE IBExplicit_proofs ---------------------------
(***************************************************************************)
(* Proofs about IBExplicit for every number of cycles and steps, with or   *)
(* without sources, regrids and restarts: the caches of IBMethod are fresh *)
(* whenever they are used, and so every step of the integrator is a step   *)
(* of IBScheme.                                                            *)
(***************************************************************************)
EXTENDS IBExplicit, SequenceTheorems, TLAPS

-----------------------------------------------------------------------------
(* The inductive invariant *)

\* The data of the current context is there, that of the new context within a
\* step; cycles are counted up to nc.
Allocated ==
    /\ X["current"] \in Positions
    /\ uCurrent \in Positions
    /\ U \in [Times -> Velocities \cup {Null}]
    /\ U["current"] \in Velocities
    /\ pc \in Cycling \cup {"spread current force", "predict"} =>
         /\ X["new"] \in Positions
         /\ U["new"] \in Velocities
         /\ uNew \in Positions
    /\ pc \in {"force", "source", "solve", "interpolate", "move"} => cycle < nc
    /\ pc = "pressure" => cycle > 0
    /\ pc = "postprocess" => cycle = nc
    /\ pc \in Cycling \cup Preparing => n < MaxSteps
    /\ pc = "predict" \/ pc \in Cycling => scheme \in {"MIDPOINT_RULE", "TRAPEZOIDAL_RULE"}

\* Between two steps only current data is left, and flagged for an exchange.
Dropped ==
    pc = "ready" =>
        /\ xNeedsGhostFill["current"] /\ fNeedsGhostFill["current"]
        /\ \A w \in Times \ {"current"} : X[w] = Null /\ F[w] = Null

\* The strategies know the present layout, or are flagged.
Told ==
    /\ anchorsAt = layout
    /\ strategiesNeedInit \/ strategiesAt = layout
    /\ pc \in Cycling \cup {"spread current force", "predict"} => strategiesAt = layout

\* A step starts from the current data.
Started ==
    /\ pc \in {"spread current force", "predict"} =>
         /\ X["new"] = X["current"] /\ U["new"] = U["current"] /\ uNew = uCurrent
         /\ uHalfNeedsReinit

\* The force at the old time, which the trapezoidal rule keeps.
CurrentForce ==
    Spread(ForceAt(X["current"], U["current"], TimeOf(n, "current")), X["current"])

\* The positions and the velocity of the structure that a cycle works with.
StagePositions ==
    IF scheme = "MIDPOINT_RULE" THEN Mid(X["current"], X["new"]) ELSE X["new"]

KnownVelocity ==
    IF scheme = "MIDPOINT_RULE" /\ cycle = 0 THEN Mid(U["current"], U["current"]) ELSE last.v

StageForce == Spread(ForceAt(StagePositions, KnownVelocity, TimeOf(n, Stage)), StagePositions)

\* The force of a cycle.
StepForce ==
    IF scheme = "MIDPOINT_RULE" THEN <<StageForce>>
    ELSE IF KeepsCurrentForce THEN <<CurrentForce>>
    ELSE <<CurrentForce, StageForce>>

\* What the data of a step is: the force at the old time and that it is the
\* only one the first of several cycles uses, the positions of that cycle, what
\* a cycle starts with, and what it has computed before the structure moves.
OldForce ==
    (pc = "predict" \/ pc \in Cycling) /\ scheme = "TRAPEZOIDAL_RULE" =>
        fCurrent = <<CurrentForce>>

KeptForce ==
    \/ pc = "predict" /\ scheme = "TRAPEZOIDAL_RULE"
    \/ pc = "force" /\ KeepsCurrentForce
    => f = fCurrent

FirstCycle == pc \in Cycling /\ cycle = 0 /\ nc > 1 => X["new"] = X["current"]

CycleStart ==
    pc \in {"force", "pressure", "postprocess"} =>
        uNew = last.u /\ VelocityData(Stage) = KnownVelocity

CycleForce == pc \in {"source", "solve", "interpolate", "move"} => f = StepForce

CycleFluid == pc \in {"interpolate", "move"} => uNew = Same(<<n + 1, cycle + 1>>)

CycleVelocity ==
    pc = "move" => VelocityData(Stage) = Interpolated(StageFluid, StagePositions)

Computed ==
    OldForce /\ KeptForce /\ FirstCycle /\ CycleStart /\ CycleForce /\ CycleFluid /\ CycleVelocity

IInv ==
    /\ TypeOK /\ Allocated /\ Dropped /\ Told /\ Started /\ Computed
    /\ GhostsFresh /\ MidpointPositionsFresh /\ VelocityAlreadyInterpolated
    /\ TransfersAreAdjoint

-----------------------------------------------------------------------------
(* Lemmas about the operators *)

\* Averages and results have the types of the data they are made of.
LEMMA TermTypes ==
    /\ \A v, w \in Positions : Mid(v, w) \in Positions
    /\ \A v, w \in Velocities : Mid(v, w) \in Velocities
    /\ \A a \in Nat, b \in Nat : Same(<<a, b>>) \in Positions
    /\ \A u, x \in Positions : Interpolated(u, x) \in Velocities
    /\ InitialPosition \in Positions /\ InitialFluid \in Positions
BY DEF Mid, Same, Interpolated, Positions, Names, Velocities, InitialPosition, InitialFluid

\* No data is taken for missing data.
LEMMA NotMissing == (\A v \in Positions : v # Null) /\ (\A v \in Velocities : v # Null)
BY NullAssumption

\* Two forces are put together.
LEMMA Joined == \A a, b : <<a>> \o <<b>> = <<a, b>>
<1> SUFFICES ASSUME NEW a, NEW b PROVE <<a>> \o <<b>> = <<a, b>>
  OBVIOUS
<1> DEFINE s == <<a>>  t == <<b>>  r == <<a, b>>
<1>1. s \in Seq({a, b}) /\ t \in Seq({a, b}) /\ r \in Seq({a, b})
  OBVIOUS
<1>2. Len(s) = 1 /\ Len(t) = 1 /\ s[1] = a /\ t[1] = b
  OBVIOUS
<1>3. Len(r) = 2 /\ r[1] = a /\ r[2] = b
  OBVIOUS
<1> HIDE DEF s, t, r
<1>4. /\ s \o t \in Seq({a, b}) /\ Len(s \o t) = Len(s) + Len(t)
      /\ \A i \in 1 .. Len(s) + Len(t) :
           (s \o t)[i] = IF i <= Len(s) THEN s[i] ELSE t[i - Len(s)]
  BY <1>1, ConcatProperties
<1>5. Len(s \o t) = 2 /\ (s \o t)[1] = a /\ (s \o t)[2] = b
  BY <1>2, <1>4
<1>6. s \o t = r
  BY <1>1, <1>3, <1>4, <1>5
<1> QED BY <1>6 DEF s, t, r

LEMMA NumbersTypes ==
    ASSUME TypeOK
    PROVE  nc \in Nat \ {0} /\ cycle \in Nat /\ n \in Nat
BY CyclesAssumption DEF TypeOK

\* Looking positions up leaves the current and new ones alone.
LEMMA LookUp ==
    ASSUME TypeOK, Allocated, NEW w \in Times, w = "half" => X["new"] \in Positions,
           LookUpPositions(w)
    PROVE  /\ X' \in [Times -> Positions \cup {Null}]
           /\ X' = [X EXCEPT ![w] = PositionData(w)]
           /\ PositionData(w) \in Positions \cup {Null}
           /\ X'["current"] = X["current"] /\ X'["new"] = X["new"]
           /\ X'[w] = PositionData(w)
           /\ w # "half" => X' = X
           /\ xHalfNeedsReinit' \in BOOLEAN
<1>1. X \in [Times -> Positions \cup {Null}] /\ X["current"] \in Positions
  BY DEF TypeOK, Allocated
<1>2. PositionData(w) \in Positions \cup {Null}
  BY <1>1, TermTypes DEF PositionData, Times
<1>3. w # "half" => PositionData(w) = X[w]
  BY DEF PositionData
<1>4. xHalfNeedsReinit' \in BOOLEAN
  BY DEF LookUpPositions, TypeOK
<1>5. X' = [X EXCEPT ![w] = PositionData(w)]
  BY DEF LookUpPositions
<1> QED BY <1>1, <1>2, <1>3, <1>4, <1>5 DEF Times

\* So does looking velocities up.
LEMMA VelocityDataType ==
    ASSUME TypeOK, Allocated, NEW w \in Times, w = "half" => U["new"] \in Velocities
    PROVE  VelocityData(w) \in Velocities \cup {Null}
BY TermTypes DEF Allocated, VelocityData, Times

\* Computing and spreading forces keeps the types and the current and new data.
LEMMA ForceStep ==
    ASSUME TypeOK, Allocated, NEW w \in Times,
           w = "half" => X["new"] \in Positions /\ U["new"] \in Velocities,
           ComputeAndSpreadForce(w)
    PROVE  /\ X' \in [Times -> Positions \cup {Null}]
           /\ X'["current"] = X["current"] /\ X'["new"] = X["new"]
           /\ X'[w] = PositionData(w)
           /\ U' \in [Times -> Velocities \cup {Null}]
           /\ U'["current"] = U["current"] /\ U'["new"] = U["new"]
           /\ U'[w] = VelocityData(w)
           /\ xGhost' \in [Times -> Positions \cup {Null}]
           /\ DOMAIN F' = Times /\ DOMAIN fGhost' = Times
           /\ xNeedsGhostFill' \in [Times -> BOOLEAN]
           /\ fNeedsGhostFill' \in [Times -> BOOLEAN]
           /\ xHalfNeedsReinit' \in BOOLEAN /\ uHalfNeedsReinit' \in BOOLEAN
<1>1. /\ X' \in [Times -> Positions \cup {Null}] /\ PositionData(w) \in Positions \cup {Null}
      /\ X'["current"] = X["current"] /\ X'["new"] = X["new"] /\ X'[w] = PositionData(w)
      /\ xHalfNeedsReinit' \in BOOLEAN
  BY LookUp DEF ComputeAndSpreadForce
<1>2. /\ U' \in [Times -> Velocities \cup {Null}]
      /\ U'["current"] = U["current"] /\ U'["new"] = U["new"] /\ U'[w] = VelocityData(w)
  <2>1. VelocityData(w) \in Velocities \cup {Null} /\ U \in [Times -> Velocities \cup {Null}]
    BY VelocityDataType DEF Allocated
  <2>2. U' = [U EXCEPT ![w] = VelocityData(w)]
    BY DEF ComputeAndSpreadForce
  <2>3. w # "half" => VelocityData(w) = U[w]
    BY DEF VelocityData
  <2> QED BY <2>1, <2>2, <2>3 DEF Times
<1>3. xGhost' \in [Times -> Positions \cup {Null}]
  <2>1. GhostPositions(w) \in Positions \cup {Null}
    BY <1>1 DEF GhostPositions, TypeOK
  <2> QED BY <2>1 DEF ComputeAndSpreadForce, TypeOK
<1>4. DOMAIN F' = Times /\ DOMAIN fGhost' = Times
  BY DEF ComputeAndSpreadForce, TypeOK
<1>5. xNeedsGhostFill' \in [Times -> BOOLEAN] /\ fNeedsGhostFill' \in [Times -> BOOLEAN]
  BY DEF ComputeAndSpreadForce, TypeOK
<1>6. uHalfNeedsReinit' \in BOOLEAN
  BY DEF ComputeAndSpreadForce, TypeOK
<1> QED BY <1>1, <1>2, <1>3, <1>4, <1>5, <1>6

\* The structure moves: only the new positions change.
LEMMA Moved ==
    ASSUME TypeOK, NEW a \in Nat, NEW b \in Nat, MoveStructure(<<a, b>>)
    PROVE  /\ X' \in [Times -> Positions \cup {Null}]
           /\ X'["current"] = X["current"] /\ X'["new"] = Same(<<a, b>>)
           /\ X'["half"] = X["half"] /\ X'["new"] \in Positions
           /\ xNeedsGhostFill' \in [Times -> BOOLEAN]
           /\ xHalfNeedsReinit' = TRUE
           /\ xGhost' = xGhost
BY TermTypes DEF MoveStructure, TypeOK, Times, MovedHalfStale

\* A redistribution keeps the types.
LEMMA RedistributeType ==
    ASSUME TypeOK, Redistribute
    PROVE  /\ layout' \in Nat /\ anchorsAt' \in Nat /\ strategiesAt' \in Nat \cup {Null}
           /\ strategiesNeedInit' \in BOOLEAN
           /\ xGhost' \in [Times -> Positions \cup {Null}] /\ DOMAIN fGhost' = Times
BY DEF TypeOK, Redistribute, RedistributedStrategies, OnlyCurrent

\* The interpolated velocity replaces the one of the stage, and nothing else.
LEMMA InterpolateStep ==
    ASSUME TypeOK, Allocated, NEW u \in Positions, NEW w \in {"half", "new"},
           X["new"] \in Positions, InterpolateVelocity(u, w)
    PROVE  /\ X' \in [Times -> Positions \cup {Null}]
           /\ X'["current"] = X["current"] /\ X'["new"] = X["new"]
           /\ PositionData(w) \in Positions
           /\ U' \in [Times -> Velocities \cup {Null}]
           /\ U' = [U EXCEPT ![w] = Interpolated(u, PositionData(w))]
           /\ Interpolated(u, PositionData(w)) \in Velocities
           /\ U'["current"] = U["current"] /\ U'[w] = Interpolated(u, PositionData(w))
           /\ xNeedsGhostFill' \in [Times -> BOOLEAN]
           /\ xHalfNeedsReinit' \in BOOLEAN
           /\ uHalfNeedsReinit' = (w # "half") /\ xGhost' = xGhost
<1>1. /\ X' \in [Times -> Positions \cup {Null}]
      /\ X'["current"] = X["current"] /\ X'["new"] = X["new"]
      /\ xHalfNeedsReinit' \in BOOLEAN
  BY LookUp DEF InterpolateVelocity, Times
<1>2. PositionData(w) \in Positions
  BY TermTypes DEF PositionData, StalePositions, TypeOK, Allocated, Times
<1>3. Interpolated(u, PositionData(w)) \in Velocities
  BY <1>2, TermTypes
<1>4. U' = [U EXCEPT ![w] = Interpolated(u, PositionData(w))]
  BY DEF InterpolateVelocity, CouplingPositions
<1>5. /\ U' \in [Times -> Velocities \cup {Null}]
      /\ U'["current"] = U["current"] /\ U'[w] = Interpolated(u, PositionData(w))
  BY <1>3, <1>4 DEF Allocated, Times
<1>6. xNeedsGhostFill' \in [Times -> BOOLEAN]
  <2>1. NeedsGhostFill(w) \in BOOLEAN
    BY DEF NeedsGhostFill, TypeOK, StalePositions, Times
  <2> QED BY <2>1 DEF InterpolateVelocity, TypeOK
<1>7. uHalfNeedsReinit' = (w # "half") /\ xGhost' = xGhost
  BY DEF InterpolateVelocity, HalfVelocityStale
<1> QED BY <1>1, <1>2, <1>3, <1>4, <1>5, <1>6, <1>7

\* The sources and the pressure only look the half-time positions up.
LEMMA LookUpHalf ==
    ASSUME TypeOK, Allocated, X["new"] \in Positions, LookUpPositions("half"),
           xNeedsGhostFill' = [xNeedsGhostFill EXCEPT !["half"] = NeedsGhostFill("half")]
    PROVE  /\ X' \in [Times -> Positions \cup {Null}]
           /\ X'["current"] = X["current"] /\ X'["new"] = X["new"]
           /\ X'["half"] = PositionData("half")
           /\ PositionData("half") \in Positions \cup {Null}
           /\ xNeedsGhostFill' \in [Times -> BOOLEAN]
           /\ xHalfNeedsReinit' \in BOOLEAN
<1>1. NeedsGhostFill("half") \in BOOLEAN
  BY DEF NeedsGhostFill, TypeOK, StalePositions, Times
<1>2. xNeedsGhostFill' \in [Times -> BOOLEAN]
  BY <1>1 DEF TypeOK
<1> QED BY <1>2, LookUp DEF Times

-----------------------------------------------------------------------------
(* Type correctness *)

LEMMA InitType == Init => TypeOK /\ Allocated
<1> SUFFICES ASSUME Init PROVE TypeOK /\ Allocated
  OBVIOUS
<1>1. /\ \A v \in Positions : OnlyCurrent(v) \in [Times -> Positions \cup {Null}]
      /\ \A v \in Velocities : OnlyCurrent(v) \in [Times -> Velocities \cup {Null}]
      /\ \A v : OnlyCurrent(v)["current"] = v /\ DOMAIN OnlyCurrent(v) = Times
      /\ OnlyCurrent(Null) \in [Times -> Positions \cup {Null}]
  BY DEF OnlyCurrent, Times
<1>2. Interpolated(InitialFluid, InitialPosition) \in Velocities
  BY TermTypes
<1>3. 0 \in 0..nc /\ 0 \in 0..MaxRestarts
  BY CyclesAssumption, BoundsAssumption DEF Init
<1>4. xHalfNeedsReinit \in BOOLEAN /\ uHalfNeedsReinit \in BOOLEAN /\ strategiesNeedInit \in BOOLEAN
  BY Zenon DEF Init
<1>5. /\ xNeedsGhostFill \in [Times -> BOOLEAN] /\ fNeedsGhostFill \in [Times -> BOOLEAN]
  BY DEF Init
<1>6. sourceAt \in Positions \cup {Null}
  BY TermTypes DEF Init
<1>7. TypeOK
  BY <1>1, <1>2, <1>3, <1>4, <1>5, <1>6, TermTypes DEF Init, TypeOK, Cycling, Preparing
<1>8. Allocated
  BY <1>1, <1>2, TermTypes DEF Init, Allocated, Cycling, Preparing
<1> QED BY <1>7, <1>8

LEMMA NextType == TypeOK /\ Allocated /\ [Next]_vars => TypeOK' /\ Allocated'
<1> SUFFICES ASSUME TypeOK, Allocated, [Next]_vars PROVE TypeOK' /\ Allocated'
  OBVIOUS
<1> USE DEF Cycling, Preparing
<1>0. "current" \in Times /\ "half" \in Times /\ "new" \in Times
  BY DEF Times
<1>1. CASE AdvanceHierarchy
  <2>1. CASE Redistribute
    BY <1>1, <2>1, RedistributeType
       DEF AdvanceHierarchy, control, velocity, fluid, eulerianForce, sources, TypeOK, Allocated
  <2>2. CASE UNCHANGED <<distribution, xGhost, fGhost>>
    BY <1>1, <2>2 DEF AdvanceHierarchy, control, velocity, fluid, eulerianForce, sources,
       distribution, TypeOK, Allocated
  <2> QED BY <1>1, <2>1, <2>2 DEF AdvanceHierarchy
<1>2. CASE Restart
  <2>1. restarts' \in 0..MaxRestarts
    BY <1>2, BoundsAssumption DEF Restart, TypeOK
  <2>2. /\ xNeedsGhostFill' \in [Times -> BOOLEAN] /\ fNeedsGhostFill' \in [Times -> BOOLEAN]
    BY <1>2 DEF Restart
  <2>3. xHalfNeedsReinit' \in BOOLEAN /\ uHalfNeedsReinit' \in BOOLEAN
    BY <1>2, Zenon DEF Restart
  <2> QED BY <1>2, <2>1, <2>2, <2>3, RedistributeType DEF Restart, TypeOK, Allocated
<1>3. CASE PreprocessIntegrateData
  <2>1. /\ X' \in [Times -> Positions \cup {Null}]
        /\ X'["current"] = X["current"] /\ X'["new"] = X["current"]
    BY <1>3 DEF PreprocessIntegrateData, TypeOK, Allocated, Times, NewPositions
  <2>2. /\ U' \in [Times -> Velocities \cup {Null}]
        /\ U'["current"] = U["current"] /\ U'["new"] = U["current"]
    BY <1>3 DEF PreprocessIntegrateData, Allocated, Times
  <2>3. xNeedsGhostFill' \in [Times -> BOOLEAN]
    BY <1>3 DEF PreprocessIntegrateData, TypeOK
  <2>4. /\ xHalfNeedsReinit' \in BOOLEAN /\ uHalfNeedsReinit' \in BOOLEAN
        /\ strategiesNeedInit' \in BOOLEAN
    BY <1>3, Zenon DEF PreprocessIntegrateData
  <2>5. strategiesAt' \in Nat \cup {Null}
    BY <1>3 DEF PreprocessIntegrateData, TypeOK
  <2>6. TypeOK'
    BY <1>3, <2>1, <2>2, <2>3, <2>4, <2>5
       DEF PreprocessIntegrateData, TypeOK, control, force, eulerianForce, sources
  <2>7. Allocated'
    BY <1>3, <2>1, <2>2 DEF PreprocessIntegrateData, Allocated, control
  <2> QED BY <2>6, <2>7
<1>4. ASSUME SpreadCurrentForce \/ CopyToMissingData \/ ForceAtHalfTime \/ ForceAtNewTime
      PROVE  TypeOK' /\ Allocated'
  <2>1. PICK w \in Times :
          /\ ComputeAndSpreadForce(w)
          /\ w = "half" => pc = "force"
    BY <1>0, <1>4 DEF SpreadCurrentForce, CopyToMissingData, ForceAtHalfTime, ForceAtNewTime
  <2>2. w = "half" => X["new"] \in Positions /\ U["new"] \in Velocities
    BY <2>1 DEF Allocated
  <2>3. /\ X' \in [Times -> Positions \cup {Null}]
        /\ X'["current"] = X["current"] /\ X'["new"] = X["new"]
        /\ U' \in [Times -> Velocities \cup {Null}]
        /\ U'["current"] = U["current"] /\ U'["new"] = U["new"]
        /\ xGhost' \in [Times -> Positions \cup {Null}]
        /\ DOMAIN F' = Times /\ DOMAIN fGhost' = Times
        /\ xNeedsGhostFill' \in [Times -> BOOLEAN]
        /\ fNeedsGhostFill' \in [Times -> BOOLEAN]
        /\ xHalfNeedsReinit' \in BOOLEAN /\ uHalfNeedsReinit' \in BOOLEAN
    BY <2>1, <2>2, ForceStep
  <2>4. /\ UNCHANGED <<control, cycle, fluid, distribution, sources>>
        /\ \/ pc = "spread current force" /\ pc' = "predict" /\ scheme = "TRAPEZOIDAL_RULE"
           \/ pc = "spread current force" /\ pc' = "undefined"
           \/ pc = "force" /\ pc' \in {"source", "solve"}
    BY <1>4 DEF SpreadCurrentForce, CopyToMissingData, ForceAtHalfTime, ForceAtNewTime, AfterForce
  <2>5. TypeOK'
    BY <2>3, <2>4 DEF TypeOK, Allocated, control, distribution, sources
  <2>6. Allocated'
    BY <2>3, <2>4 DEF Allocated, control, fluid
  <2> QED BY <2>5, <2>6
<1>5. CASE PredictPositions
  <2>1. /\ X' \in [Times -> Positions \cup {Null}] /\ xGhost' = xGhost
        /\ X'["current"] = X["current"] /\ X'["new"] \in Positions
        /\ xNeedsGhostFill' \in [Times -> BOOLEAN] /\ xHalfNeedsReinit' \in BOOLEAN
    <3>1. CASE nc = 1
      <4>1. PICK a \in Nat, b \in Nat : MoveStructure(<<a, b>>)
        BY <1>5, <3>1, NumbersTypes DEF PredictPositions
      <4> QED BY <4>1, Moved
    <3>2. CASE nc # 1
      BY <1>5, <3>2 DEF PredictPositions, position, TypeOK, Allocated
    <3> QED BY <3>1, <3>2
  <2>2. /\ UNCHANGED <<control, velocity, force, fluid, eulerianForce, distribution, sources>>
        /\ pc = "predict" /\ pc' = "force" /\ cycle' = 0
    BY <1>5 DEF PredictPositions
  <2>3. 0 < nc /\ 0 \in 0..nc
    BY NumbersTypes
  <2>4. TypeOK'
    BY <2>1, <2>2, <2>3 DEF TypeOK, control, velocity, force, distribution, sources
  <2>5. Allocated'
    BY <2>1, <2>2, <2>3 DEF Allocated, control, velocity, fluid
  <2> QED BY <2>4, <2>5
<1>6. CASE KeepCurrentForce
  BY <1>6 DEF KeepCurrentForce, AfterForce, TypeOK, Allocated, control, position, velocity, force,
     fluid, eulerianForce, distribution, sources
<1>7. ASSUME SpreadFluidSource \/ InterpolatePressure
      PROVE  TypeOK' /\ Allocated'
  <2>1. /\ LookUpPositions("half")
        /\ xNeedsGhostFill' = [xNeedsGhostFill EXCEPT !["half"] = NeedsGhostFill("half")]
        /\ UNCHANGED <<control, cycle, xGhost, velocity, force, fluid, eulerianForce, distribution>>
        /\ \/ /\ pc = "source" /\ pc' = "solve"
              /\ sourceAt' = PositionData("half") /\ UNCHANGED pressureAt
           \/ /\ pc = "pressure" /\ pc' = AfterCycle(cycle)
              /\ pressureAt' = sourceAt /\ UNCHANGED sourceAt
    BY <1>7 DEF SpreadFluidSource, InterpolatePressure
  <2>2. X["new"] \in Positions
    BY <2>1 DEF Allocated
  <2>3. /\ X' \in [Times -> Positions \cup {Null}]
        /\ X'["current"] = X["current"] /\ X'["new"] = X["new"]
        /\ PositionData("half") \in Positions \cup {Null}
        /\ xNeedsGhostFill' \in [Times -> BOOLEAN] /\ xHalfNeedsReinit' \in BOOLEAN
    BY <2>1, <2>2, LookUpHalf
  <2>4. /\ pc = "pressure" => pc' \in {"force", "postprocess"}
        /\ pc = "pressure" /\ pc' = "force" => cycle < nc
        /\ pc = "pressure" /\ pc' = "postprocess" => cycle = nc
    <3>1. cycle \in 0..nc /\ nc \in Nat
      BY NumbersTypes DEF TypeOK
    <3> QED BY <2>1, <3>1 DEF AfterCycle
  <2>5. TypeOK'
    BY <2>1, <2>2, <2>3, <2>4 DEF TypeOK, control, velocity, force, distribution, sources
  <2>6. Allocated'
    BY <2>1, <2>2, <2>3, <2>4 DEF Allocated, control, velocity, fluid
  <2> QED BY <2>5, <2>6
<1>8. CASE SolveFluidEquations
  <2>1. uNew' \in Positions
    BY <1>8, TermTypes, NumbersTypes DEF SolveFluidEquations
  <2>2. TypeOK'
    BY <1>8 DEF SolveFluidEquations, TypeOK, control, position, velocity, force, eulerianForce,
       distribution, sources
  <2>3. Allocated'
    BY <1>8, <2>1 DEF SolveFluidEquations, Allocated, control, position, velocity
  <2> QED BY <2>2, <2>3
<1>9. CASE InterpolateStageVelocity
  <2>1. /\ pc = "interpolate" /\ pc' = "move" /\ InterpolateVelocity(StageFluid, Stage)
        /\ UNCHANGED <<control, cycle, force, fluid, eulerianForce, distribution, sources>>
        /\ Stage \in {"half", "new"}
    BY <1>9 DEF InterpolateStageVelocity, Stage
  <2>2. X["new"] \in Positions /\ U["new"] \in Velocities /\ StageFluid \in Positions
    BY <2>1, TermTypes DEF Allocated, StageFluid
  <2>3. /\ X' \in [Times -> Positions \cup {Null}]
        /\ X'["current"] = X["current"] /\ X'["new"] = X["new"]
        /\ U' \in [Times -> Velocities \cup {Null}]
        /\ U' = [U EXCEPT ![Stage] = Interpolated(StageFluid, PositionData(Stage))]
        /\ Interpolated(StageFluid, PositionData(Stage)) \in Velocities
        /\ U'["current"] = U["current"]
        /\ xNeedsGhostFill' \in [Times -> BOOLEAN] /\ xHalfNeedsReinit' \in BOOLEAN
        /\ uHalfNeedsReinit' = (Stage # "half") /\ xGhost' = xGhost
    BY <2>1, <2>2, InterpolateStep
  <2>4. U'["new"] \in Velocities
    BY <2>1, <2>2, <2>3 DEF Allocated, Times
  <2>5. TypeOK'
    BY <2>1, <2>2, <2>3 DEF TypeOK, control, force, distribution, sources
  <2>6. Allocated'
    BY <2>1, <2>2, <2>3, <2>4 DEF Allocated, control, fluid
  <2> QED BY <2>5, <2>6
<1>10. CASE UpdatePositions
  <2>1. /\ pc = "move" /\ cycle' = cycle + 1 /\ MoveStructure(<<n + 1, cycle + 1>>)
        /\ pc' = IF hasSources THEN "pressure" ELSE AfterCycle(cycle + 1)
        /\ UNCHANGED <<control, velocity, force, fluid, eulerianForce, distribution, sources>>
    BY <1>10 DEF UpdatePositions
  <2>2. /\ X' \in [Times -> Positions \cup {Null}] /\ xGhost' = xGhost
        /\ X'["current"] = X["current"] /\ X'["new"] \in Positions
        /\ xNeedsGhostFill' \in [Times -> BOOLEAN] /\ xHalfNeedsReinit' \in BOOLEAN
    <3>1. n + 1 \in Nat /\ cycle + 1 \in Nat
      BY NumbersTypes
    <3>2. PICK a \in Nat, b \in Nat : MoveStructure(<<a, b>>)
      BY <2>1, <3>1, Zenon
    <3> QED BY <3>2, Moved
  <2>3. /\ cycle' \in 0..nc /\ cycle' > 0
        /\ pc' \in {"pressure", "force", "postprocess"}
        /\ pc' = "force" => cycle' < nc
        /\ pc' = "postprocess" => cycle' = nc
    <3>1. cycle \in Nat /\ nc \in Nat /\ cycle < nc
      BY <2>1, NumbersTypes DEF Allocated
    <3> QED BY <2>1, <3>1 DEF AfterCycle
  <2>4. TypeOK'
    BY <2>1, <2>2, <2>3 DEF TypeOK, control, velocity, force, distribution, sources
  <2>5. Allocated'
    BY <2>1, <2>2, <2>3 DEF Allocated, control, velocity, fluid
  <2> QED BY <2>4, <2>5
<1>11. CASE PostprocessIntegrateHierarchy
  <2>1. /\ X["new"] \in Positions /\ uNew \in Positions /\ NewVelocity \in Velocities
    BY <1>11, TermTypes DEF PostprocessIntegrateHierarchy, Allocated, NewVelocity
  <2>2. /\ X' \in [Times -> Positions \cup {Null}] /\ X'["current"] = X["new"]
        /\ U' \in [Times -> Velocities \cup {Null}] /\ U'["current"] = NewVelocity
        /\ DOMAIN F' = Times /\ DOMAIN fGhost' = Times
    BY <1>11, <2>1 DEF PostprocessIntegrateHierarchy, OnlyCurrent, Times
  <2>3. xGhost' \in [Times -> Positions \cup {Null}]
    BY <1>11 DEF PostprocessIntegrateHierarchy, OnlyCurrent, Times, TypeOK
  <2>4. /\ xNeedsGhostFill' \in [Times -> BOOLEAN] /\ fNeedsGhostFill' \in [Times -> BOOLEAN]
        /\ xHalfNeedsReinit' \in BOOLEAN
    BY <1>11 DEF PostprocessIntegrateHierarchy, CurrentNeedsGhostFill, TypeOK
  <2>5. uHalfNeedsReinit' \in BOOLEAN
    BY <1>11, Zenon DEF PostprocessIntegrateHierarchy
  <2>6. n' \in Nat
    BY <1>11 DEF PostprocessIntegrateHierarchy, TypeOK
  <2>7. TypeOK'
    BY <1>11, <2>2, <2>3, <2>4, <2>5, <2>6
       DEF PostprocessIntegrateHierarchy, TypeOK, distribution, sources
  <2>8. Allocated'
    BY <1>11, <2>1, <2>2 DEF PostprocessIntegrateHierarchy, Allocated
  <2> QED BY <2>7, <2>8
<1>12. CASE UNCHANGED vars
  <2>1. /\ UNCHANGED <<pc, scheme, nc, hasSources, n, restarts, cycle>>
        /\ UNCHANGED <<X, xGhost, xNeedsGhostFill, xHalfNeedsReinit, U, uHalfNeedsReinit>>
    BY <1>12 DEF vars, control, position, velocity
  <2>3. /\ UNCHANGED <<F, fGhost, fNeedsGhostFill, layout, anchorsAt, strategiesAt>>
        /\ UNCHANGED <<strategiesNeedInit, sourceAt, pressureAt>>
    BY <1>12 DEF vars, force, distribution, sources
  <2>4. TypeOK'
    BY <2>1, <2>3, ZenonT(30) DEF TypeOK
  <2>2. Allocated'
    BY <1>12 DEF vars, Allocated, control, position, velocity, fluid
  <2> QED BY <2>2, <2>4
<1> QED BY <1>1, <1>2, <1>3, <1>4, <1>5, <1>6, <1>7, <1>8, <1>9, <1>10, <1>11, <1>12
        DEF Next, Terminated

\* Data keeps its type in every step (TypeOK): what half-time positions are
\* recomputed from is there whenever a step asks for them.
THEOREM TypeCorrect == Spec => [](TypeOK /\ Allocated)
BY InitType, NextType, PTL DEF Spec

-----------------------------------------------------------------------------
(* The caches of IBMethod *)

\* In every step positions are looked up, moved or left alone.
LEMMA PositionSteps ==
    ASSUME TypeOK, Allocated, Next
    PROVE  \/ UNCHANGED <<X, xHalfNeedsReinit>>
           \/ Restart /\ X' = X /\ xHalfNeedsReinit'
           \/ PreprocessIntegrateData
           \/ PostprocessIntegrateHierarchy
           \/ \E w \in Times : /\ LookUpPositions(w)
                               /\ w = "half" => X["new"] \in Positions
           \/ \E a, b \in Nat : MoveStructure(<<a, b>>)
<1>0. "current" \in Times /\ "half" \in Times /\ "new" \in Times
  BY DEF Times
<1>1. CASE AdvanceHierarchy \/ KeepCurrentForce \/ SolveFluidEquations \/ Terminated
  BY <1>1 DEF AdvanceHierarchy, KeepCurrentForce, SolveFluidEquations, Terminated, position, vars
<1>2. CASE Restart
  BY <1>2 DEF Restart
<1>3. ASSUME SpreadCurrentForce \/ CopyToMissingData \/ ForceAtHalfTime \/ ForceAtNewTime
      PROVE  \E w \in Times : /\ LookUpPositions(w)
                              /\ w = "half" => X["new"] \in Positions
  BY <1>0, <1>3 DEF SpreadCurrentForce, CopyToMissingData, ForceAtHalfTime, ForceAtNewTime,
     ComputeAndSpreadForce, Allocated, Cycling
<1>4. ASSUME SpreadFluidSource \/ InterpolatePressure
      PROVE  \E w \in Times : /\ LookUpPositions(w)
                              /\ w = "half" => X["new"] \in Positions
  BY <1>0, <1>4 DEF SpreadFluidSource, InterpolatePressure, Allocated, Cycling
<1>5. ASSUME InterpolateStageVelocity
      PROVE  \E w \in Times : /\ LookUpPositions(w)
                              /\ w = "half" => X["new"] \in Positions
  <2>1. Stage \in Times /\ X["new"] \in Positions
    BY <1>0, <1>5 DEF InterpolateStageVelocity, Stage, Allocated, Cycling
  <2> QED BY <1>5, <2>1 DEF InterpolateStageVelocity, InterpolateVelocity
<1>6. CASE PredictPositions
  <2>1. CASE nc = 1
    <3>1. n + 1 \in Nat /\ 0 \in Nat
      BY NumbersTypes
    <3> QED BY <1>6, <2>1, <3>1, Zenon DEF PredictPositions
  <2> QED BY <1>6, <2>1 DEF PredictPositions, position
<1>7. CASE UpdatePositions
  <2>1. n + 1 \in Nat /\ cycle + 1 \in Nat
    BY NumbersTypes
  <2> QED BY <1>7, <2>1, Zenon DEF UpdatePositions
<1> QED BY <1>1, <1>2, <1>3, <1>4, <1>5, <1>6, <1>7 DEF Next

LEMMA NextMidpoint ==
    TypeOK /\ Allocated /\ MidpointPositionsFresh /\ [Next]_vars => MidpointPositionsFresh'
<1> SUFFICES ASSUME TypeOK, Allocated, MidpointPositionsFresh, [Next]_vars
             PROVE  MidpointPositionsFresh'
  OBVIOUS
<1>1. ASSUME NEW w \in Times, LookUpPositions(w), w = "half" => X["new"] \in Positions
      PROVE  MidpointPositionsFresh'
  <2>1. /\ X'["current"] = X["current"] /\ X'["new"] = X["new"]
        /\ X'[w] = PositionData(w)
        /\ w # "half" => X' = X
        /\ xHalfNeedsReinit' = (xHalfNeedsReinit /\ w # "half")
    BY <1>1, LookUp DEF LookUpPositions
  <2>2. CASE w = "half"
    BY <2>1, <2>2 DEF MidpointPositionsFresh, PositionData, StalePositions
  <2>3. CASE w # "half"
    BY <2>1, <2>3 DEF MidpointPositionsFresh
  <2> QED BY <2>2, <2>3
<1>2. ASSUME NEW a \in Nat, NEW b \in Nat, MoveStructure(<<a, b>>)
      PROVE  MidpointPositionsFresh'
  BY <1>2, Moved DEF MidpointPositionsFresh
<1>3. CASE Restart /\ X' = X /\ xHalfNeedsReinit'
  BY <1>3 DEF MidpointPositionsFresh
<1>4. CASE PreprocessIntegrateData
  BY <1>4 DEF MidpointPositionsFresh, PreprocessIntegrateData
<1>5. CASE PostprocessIntegrateHierarchy
  BY <1>5 DEF MidpointPositionsFresh, PostprocessIntegrateHierarchy, OnlyCurrent, Times
<1>6. CASE UNCHANGED <<X, xHalfNeedsReinit>>
  BY <1>6 DEF MidpointPositionsFresh
<1>7. CASE UNCHANGED vars
  BY <1>6, <1>7 DEF vars, position
<1> QED BY <1>1, <1>2, <1>3, <1>4, <1>5, <1>6, <1>7, PositionSteps

\* Cached half-time positions are the midpoint whenever they are used
\* (MidpointPositionsFresh).
THEOREM MidpointsFresh == Spec => []MidpointPositionsFresh
<1>1. Init => MidpointPositionsFresh
  BY DEF Init, MidpointPositionsFresh
<1> QED BY <1>1, NextMidpoint, TypeCorrect, PTL DEF Spec

-----------------------------------------------------------------------------
(* Layouts *)

LEMMA NextTold == Told /\ [Next]_vars => Told'
<1> SUFFICES ASSUME Told, [Next]_vars PROVE Told'
  OBVIOUS
<1> USE DEF Told, Cycling
<1>1. CASE AdvanceHierarchy
  BY <1>1 DEF AdvanceHierarchy, Redistribute, RedistributedStrategies, distribution
<1>2. CASE Restart
  BY <1>2 DEF Restart, Redistribute, RedistributedStrategies
<1>3. CASE PreprocessIntegrateData
  BY <1>3 DEF PreprocessIntegrateData
<1>4. CASE SpreadCurrentForce \/ CopyToMissingData \/ PredictPositions \/ ForceAtHalfTime
           \/ ForceAtNewTime \/ KeepCurrentForce
  BY <1>4 DEF SpreadCurrentForce, CopyToMissingData, PredictPositions, ForceAtHalfTime,
     ForceAtNewTime, KeepCurrentForce, distribution
<1>5. CASE SpreadFluidSource \/ SolveFluidEquations \/ InterpolateStageVelocity \/ UpdatePositions
           \/ InterpolatePressure \/ PostprocessIntegrateHierarchy
  BY <1>5 DEF SpreadFluidSource, SolveFluidEquations, InterpolateStageVelocity, UpdatePositions,
     InterpolatePressure, PostprocessIntegrateHierarchy, distribution
<1>6. CASE Terminated \/ UNCHANGED vars
  BY <1>6 DEF Terminated, vars, distribution
<1> QED BY <1>1, <1>2, <1>3, <1>4, <1>5, <1>6 DEF Next

\* Whenever data moves between structure and fluid, anchor points and force
\* tables are those of the present distribution (RebuiltAfterRegrid).
THEOREM LayoutsAgree == Spec => []RebuiltAfterRegrid
<1>1. Init => Told
  BY DEF Init, Told, Cycling
<1>2. Told => RebuiltAfterRegrid
  BY DEF Told, RebuiltAfterRegrid
<1> QED BY <1>1, <1>2, NextTold, PTL DEF Spec

-----------------------------------------------------------------------------
(* Ghost copies *)

PositionGhosts == \A w \in Times : ~xNeedsGhostFill[w] /\ X[w] # Null => xGhost[w] = X[w]
ForceGhosts == \A w \in Times : ~fNeedsGhostFill[w] /\ F[w] # Null => fGhost[w] = F[w]

LEMMA GhostParts == GhostsFresh <=> PositionGhosts /\ ForceGhosts
BY DEF GhostsFresh, PositionGhosts, ForceGhosts

\* Positions that are looked up are flagged if they had to be recomputed.
LEMMA GhostLookUp ==
    ASSUME TypeOK, Allocated, PositionGhosts, NEW w \in Times,
           w = "half" => X["new"] \in Positions, LookUpPositions(w),
           xNeedsGhostFill' = [xNeedsGhostFill EXCEPT ![w] = NeedsGhostFill(w)],
           xGhost' = xGhost
    PROVE  PositionGhosts'
<1> SUFFICES ASSUME NEW v \in Times, ~xNeedsGhostFill'[v], X'[v] # Null
             PROVE  xGhost'[v] = X'[v]
  BY DEF PositionGhosts
<1>1. X' = [X EXCEPT ![w] = PositionData(w)] /\ X'[w] = PositionData(w)
  BY LookUp
<1>2. CASE v = w
  <2>1. ~NeedsGhostFill(w)
    BY <1>2 DEF TypeOK
  <2>2. PositionData(w) = X[w] /\ ~xNeedsGhostFill[w]
    BY <2>1 DEF PositionData, NeedsGhostFill
  <2> QED BY <1>1, <1>2, <2>2 DEF PositionGhosts
<1>3. CASE v # w
  <2>1. X'[v] = X[v] /\ xNeedsGhostFill'[v] = xNeedsGhostFill[v]
    BY <1>1, <1>3 DEF TypeOK
  <2> QED BY <2>1 DEF PositionGhosts
<1> QED BY <1>2, <1>3

\* The ghost copies a force is spread with are those of the positions it was
\* computed at.
LEMMA GhostPositionsFresh ==
    ASSUME PositionGhosts, NEW w \in Times, PositionData(w) # Null
    PROVE  GhostPositions(w) = PositionData(w)
BY DEF GhostPositions, NeedsGhostFill, PositionData, PositionGhosts

LEMMA GhostForceStep ==
    ASSUME TypeOK, Allocated, PositionGhosts, ForceGhosts, NEW w \in Times,
           w = "half" => X["new"] \in Positions /\ U["new"] \in Velocities,
           ComputeAndSpreadForce(w)
    PROVE  PositionGhosts' /\ ForceGhosts'
<1>1. X' = [X EXCEPT ![w] = PositionData(w)] /\ X'[w] = PositionData(w)
  BY LookUp DEF ComputeAndSpreadForce
<1>2. ASSUME NEW v \in Times, ~xNeedsGhostFill'[v], X'[v] # Null
      PROVE  xGhost'[v] = X'[v]
  <2>1. xGhost' = [xGhost EXCEPT ![w] = GhostPositions(w)]
    BY DEF ComputeAndSpreadForce
  <2>2. CASE v = w
    BY <1>1, <1>2, <2>1, <2>2, GhostPositionsFresh DEF TypeOK
  <2>3. CASE v # w
    <3>1. xNeedsGhostFill'[v] = xNeedsGhostFill[v] /\ X'[v] = X[v] /\ xGhost'[v] = xGhost[v]
      BY <1>1, <2>1, <2>3 DEF ComputeAndSpreadForce, TypeOK
    <3> QED BY <1>2, <3>1 DEF PositionGhosts
  <2> QED BY <2>2, <2>3
<1>3. ASSUME NEW v \in Times, ~fNeedsGhostFill'[v], F'[v] # Null
      PROVE  fGhost'[v] = F'[v]
  BY <1>3 DEF ComputeAndSpreadForce, GhostForce, ForceGhosts, TypeOK
<1> QED BY <1>2, <1>3 DEF PositionGhosts, ForceGhosts

LEMMA NextDropped == TypeOK /\ Dropped /\ [Next]_vars => Dropped'
<1> SUFFICES ASSUME TypeOK, Dropped, [Next]_vars, pc' = "ready" PROVE Dropped'
  BY DEF Dropped
<1>1. CASE Restart
  BY <1>1 DEF Restart, Dropped, Times
<1>2. CASE PostprocessIntegrateHierarchy
  BY <1>2 DEF PostprocessIntegrateHierarchy, OnlyCurrent, CurrentNeedsGhostFill, Dropped, TypeOK,
     Times
<1>3. CASE Terminated \/ UNCHANGED vars
  BY <1>3 DEF Terminated, vars, position, force, Dropped
<1>4. CASE AdvanceHierarchy \/ PreprocessIntegrateData \/ SpreadCurrentForce \/ CopyToMissingData
           \/ PredictPositions \/ ForceAtHalfTime \/ ForceAtNewTime \/ KeepCurrentForce
  BY <1>4 DEF AdvanceHierarchy, PreprocessIntegrateData, SpreadCurrentForce, CopyToMissingData,
     PredictPositions, ForceAtHalfTime, ForceAtNewTime, KeepCurrentForce, AfterForce
<1>5. CASE SpreadFluidSource \/ SolveFluidEquations \/ InterpolateStageVelocity \/ UpdatePositions
           \/ InterpolatePressure
  BY <1>5 DEF SpreadFluidSource, SolveFluidEquations, InterpolateStageVelocity, UpdatePositions,
     InterpolatePressure, AfterCycle
<1> QED BY <1>1, <1>2, <1>3, <1>4, <1>5 DEF Next

LEMMA NextGhosts ==
    TypeOK /\ Allocated /\ Dropped /\ GhostsFresh /\ [Next]_vars => GhostsFresh'
<1> SUFFICES ASSUME TypeOK, Allocated, Dropped, PositionGhosts, ForceGhosts, [Next]_vars
             PROVE  PositionGhosts' /\ ForceGhosts'
  BY DEF GhostsFresh, PositionGhosts, ForceGhosts
<1>0. "current" \in Times /\ "half" \in Times /\ "new" \in Times
  BY DEF Times
<1>1. CASE AdvanceHierarchy
  <2>1. CASE Redistribute
    \* Only current data is left, and it is flagged.
    <3>1. \A w \in Times : X'[w] # Null => xNeedsGhostFill'[w]
      BY <1>1, <2>1 DEF AdvanceHierarchy, Dropped
    <3>2. \A w \in Times : F'[w] # Null => fNeedsGhostFill'[w]
      BY <1>1, <2>1 DEF AdvanceHierarchy, Dropped
    <3> QED BY <3>1, <3>2 DEF PositionGhosts, ForceGhosts
  <2>2. CASE UNCHANGED <<distribution, xGhost, fGhost>>
    BY <1>1, <2>2 DEF AdvanceHierarchy, PositionGhosts, ForceGhosts
  <2> QED BY <1>1, <2>1, <2>2 DEF AdvanceHierarchy
<1>2. CASE Restart
  BY <1>2 DEF Restart, PositionGhosts, ForceGhosts
<1>3. CASE PreprocessIntegrateData
  <2>1. ForceGhosts'
    BY <1>3 DEF PreprocessIntegrateData, ForceGhosts, force
  <2>2. \A w \in Times : w = "new" \/ (/\ X'[w] = X[w] /\ xGhost'[w] = xGhost[w]
                                      /\ xNeedsGhostFill'[w] = xNeedsGhostFill[w])
    BY <1>3 DEF PreprocessIntegrateData, TypeOK
  <2>3. xNeedsGhostFill'["new"]
    BY <1>0, <1>3 DEF PreprocessIntegrateData, TypeOK
  <2> QED BY <2>1, <2>2, <2>3 DEF PositionGhosts
<1>4. ASSUME SpreadCurrentForce \/ CopyToMissingData \/ ForceAtHalfTime \/ ForceAtNewTime
      PROVE  PositionGhosts' /\ ForceGhosts'
  <2>1. PICK w \in Times :
          /\ ComputeAndSpreadForce(w)
          /\ w = "half" => pc = "force"
    BY <1>0, <1>4 DEF SpreadCurrentForce, CopyToMissingData, ForceAtHalfTime, ForceAtNewTime
  <2>2. w = "half" => X["new"] \in Positions /\ U["new"] \in Velocities
    BY <2>1 DEF Allocated, Cycling
  <2> QED BY <2>1, <2>2, GhostForceStep
<1>5. ASSUME NEW a \in Nat, NEW b \in Nat, MoveStructure(<<a, b>>) PROVE PositionGhosts'
  <2>1. \A w \in Times : w = "new" \/ (/\ X'[w] = X[w] /\ xGhost'[w] = xGhost[w]
                                      /\ xNeedsGhostFill'[w] = xNeedsGhostFill[w])
    BY <1>5 DEF MoveStructure, TypeOK
  <2>2. xNeedsGhostFill'["new"]
    BY <1>0, <1>5 DEF MoveStructure, TypeOK
  <2> QED BY <2>1, <2>2 DEF PositionGhosts
<1>6. CASE PredictPositions
  <2>1. ForceGhosts'
    BY <1>6 DEF PredictPositions, ForceGhosts, force
  <2>2. CASE nc = 1
    <3>1. n + 1 \in Nat /\ 0 \in Nat
      BY NumbersTypes
    <3>2. PICK a \in Nat, b \in Nat : MoveStructure(<<a, b>>)
      BY <1>6, <2>2, <3>1, Zenon DEF PredictPositions
    <3> QED BY <1>5, <2>1, <3>2
  <2>3. CASE nc # 1
    BY <1>6, <2>1, <2>3 DEF PredictPositions, position, PositionGhosts
  <2> QED BY <2>2, <2>3
<1>7. CASE UpdatePositions
  <2>1. ForceGhosts'
    BY <1>7 DEF UpdatePositions, ForceGhosts, force
  <2>2. n + 1 \in Nat /\ cycle + 1 \in Nat
    BY NumbersTypes
  <2>3. PICK a \in Nat, b \in Nat : MoveStructure(<<a, b>>)
    BY <1>7, <2>2, Zenon DEF UpdatePositions
  <2> QED BY <1>5, <2>1, <2>3
<1>8. CASE KeepCurrentForce \/ SolveFluidEquations \/ Terminated \/ UNCHANGED vars
  BY <1>8 DEF KeepCurrentForce, SolveFluidEquations, Terminated, vars, position, force,
     PositionGhosts, ForceGhosts
<1>9. CASE SpreadFluidSource \/ InterpolatePressure \/ InterpolateStageVelocity
  <2>1. ForceGhosts'
    BY <1>9 DEF SpreadFluidSource, InterpolatePressure, InterpolateStageVelocity, ForceGhosts, force
  <2>2. PICK w \in Times :
          /\ LookUpPositions(w)
          /\ xNeedsGhostFill' = [xNeedsGhostFill EXCEPT ![w] = NeedsGhostFill(w)]
          /\ xGhost' = xGhost
    BY <1>0, <1>9 DEF SpreadFluidSource, InterpolatePressure, InterpolateStageVelocity,
       InterpolateVelocity, Stage
  <2>3. X["new"] \in Positions
    BY <1>9 DEF SpreadFluidSource, InterpolatePressure, InterpolateStageVelocity, Allocated, Cycling
  <2> QED BY <2>1, <2>2, <2>3, GhostLookUp
<1>10. CASE PostprocessIntegrateHierarchy
  <2>1. \A w \in Times : w = "current" \/ (X'[w] = Null /\ F'[w] = Null)
    BY <1>10 DEF PostprocessIntegrateHierarchy, OnlyCurrent
  <2>2. xNeedsGhostFill'["current"] /\ fNeedsGhostFill'["current"]
    BY <1>0, <1>10 DEF PostprocessIntegrateHierarchy, CurrentNeedsGhostFill, TypeOK
  <2> QED BY <2>1, <2>2 DEF PositionGhosts, ForceGhosts
<1> QED BY <1>1, <1>2, <1>3, <1>4, <1>6, <1>7, <1>8, <1>9, <1>10 DEF Next

\* The exchange of ghost copies is skipped only where they are up to date
\* (GhostsFresh).
THEOREM GhostCopiesFresh == Spec => []GhostsFresh
<1>1. Init => Dropped /\ GhostsFresh
  BY DEF Init, Dropped, GhostsFresh, OnlyCurrent, Times
<1> QED BY <1>1, NextDropped, NextGhosts, TypeCorrect, PTL DEF Spec

-----------------------------------------------------------------------------
(* The velocity a step begins with *)

\* Until a step ends, current data is what it was.
LEMMA CurrentKept ==
    ASSUME TypeOK, Allocated, [Next]_vars, ~PostprocessIntegrateHierarchy
    PROVE  X'["current"] = X["current"] /\ U'["current"] = U["current"] /\ uCurrent' = uCurrent
<1>0. "current" \in Times /\ "half" \in Times /\ "new" \in Times
  BY DEF Times
<1>1. CASE AdvanceHierarchy \/ Restart \/ KeepCurrentForce \/ SolveFluidEquations
           \/ Terminated \/ UNCHANGED vars
  BY <1>1 DEF AdvanceHierarchy, Restart, KeepCurrentForce, SolveFluidEquations, Terminated,
     vars, position, velocity, fluid
<1>2. CASE PreprocessIntegrateData
  BY <1>2 DEF PreprocessIntegrateData, TypeOK, Allocated, Times
<1>3. ASSUME SpreadCurrentForce \/ CopyToMissingData \/ ForceAtHalfTime \/ ForceAtNewTime
      PROVE  X'["current"] = X["current"] /\ U'["current"] = U["current"] /\ uCurrent' = uCurrent
  <2>1. PICK w \in Times : ComputeAndSpreadForce(w) /\ (w = "half" => pc = "force")
    BY <1>0, <1>3 DEF SpreadCurrentForce, CopyToMissingData, ForceAtHalfTime, ForceAtNewTime
  <2>2. uCurrent' = uCurrent
    BY <1>3 DEF SpreadCurrentForce, CopyToMissingData, ForceAtHalfTime, ForceAtNewTime, fluid
  <2>3. w = "half" => X["new"] \in Positions /\ U["new"] \in Velocities
    BY <2>1 DEF Allocated, Cycling
  <2> QED BY <2>1, <2>2, <2>3, ForceStep
<1>4. CASE SpreadFluidSource \/ InterpolatePressure
  <2>1. X["new"] \in Positions
    BY <1>4 DEF SpreadFluidSource, InterpolatePressure, Allocated, Cycling
  <2> QED BY <1>4, <2>1, LookUpHalf DEF SpreadFluidSource, InterpolatePressure, velocity, fluid
<1>5. CASE InterpolateStageVelocity
  <2>1. X["new"] \in Positions /\ uNew \in Positions /\ uCurrent \in Positions
    BY <1>5 DEF InterpolateStageVelocity, Allocated, Cycling
  <2>2. Stage \in {"half", "new"} /\ StageFluid \in Positions
    BY <2>1, TermTypes DEF Stage, StageFluid
  <2> QED BY <1>5, <2>1, <2>2, InterpolateStep DEF InterpolateStageVelocity, fluid
<1>6. CASE PredictPositions
  <2>1. CASE nc = 1
    <3>1. n + 1 \in Nat /\ 0 \in Nat
      BY NumbersTypes
    <3>2. PICK a \in Nat, b \in Nat : MoveStructure(<<a, b>>)
      BY <1>6, <2>1, <3>1, Zenon DEF PredictPositions
    <3> QED BY <1>6, <3>2, Moved DEF PredictPositions, velocity, fluid
  <2>2. CASE nc # 1
    BY <1>6, <2>2 DEF PredictPositions, position, velocity, fluid
  <2> QED BY <2>1, <2>2
<1>7. CASE UpdatePositions
  <2>1. n + 1 \in Nat /\ cycle + 1 \in Nat
    BY NumbersTypes
  <2>2. PICK a \in Nat, b \in Nat : MoveStructure(<<a, b>>)
    BY <1>7, <2>1, Zenon DEF UpdatePositions
  <2> QED BY <1>7, <2>2, Moved DEF UpdatePositions, velocity, fluid
<1> QED BY <1>1, <1>2, <1>3, <1>4, <1>5, <1>6, <1>7 DEF Next

LEMMA NextVelocity ==
    TypeOK /\ Allocated /\ VelocityAlreadyInterpolated /\ [Next]_vars
        => VelocityAlreadyInterpolated'
<1> SUFFICES ASSUME TypeOK, Allocated, VelocityAlreadyInterpolated, [Next]_vars,
                    pc' = "ready" \/ pc' \in Preparing
             PROVE  U'["current"] = Interpolated(uCurrent', X'["current"])
  BY DEF VelocityAlreadyInterpolated
<1>1. CASE PostprocessIntegrateHierarchy
  BY <1>1 DEF PostprocessIntegrateHierarchy, OnlyCurrent, Times, NewVelocity
<1>2. CASE ~PostprocessIntegrateHierarchy
  <2>1. pc = "ready" \/ pc \in Preparing
    <3>1. CASE AdvanceHierarchy \/ Restart \/ PreprocessIntegrateData \/ SpreadCurrentForce
               \/ CopyToMissingData \/ PredictPositions
      BY <3>1 DEF AdvanceHierarchy, Restart, PreprocessIntegrateData, SpreadCurrentForce,
         CopyToMissingData, PredictPositions, Preparing
    <3>2. ~(ForceAtHalfTime \/ ForceAtNewTime \/ KeepCurrentForce \/ SpreadFluidSource
            \/ SolveFluidEquations \/ InterpolateStageVelocity \/ UpdatePositions
            \/ InterpolatePressure)
      BY DEF ForceAtHalfTime, ForceAtNewTime, KeepCurrentForce, SpreadFluidSource,
         SolveFluidEquations, InterpolateStageVelocity, UpdatePositions, InterpolatePressure,
         AfterForce, AfterCycle, Preparing
    <3>3. CASE Terminated \/ UNCHANGED vars
      BY <3>3 DEF Terminated, vars
    <3> QED BY <1>2, <3>1, <3>2, <3>3 DEF Next
  <2> QED BY <1>2, <2>1, CurrentKept DEF VelocityAlreadyInterpolated
<1> QED BY <1>1, <1>2

\* A step begins with the velocity of the present fluid at the present
\* positions, after regrids and restarts (VelocityAlreadyInterpolated).
THEOREM VelocityInterpolated == Spec => []VelocityAlreadyInterpolated
<1>1. Init => VelocityAlreadyInterpolated
  BY DEF Init, VelocityAlreadyInterpolated, OnlyCurrent, Times
<1> QED BY <1>1, NextVelocity, TypeCorrect, PTL DEF Spec

-----------------------------------------------------------------------------
(* What the data of a step is *)

\* Positions and velocities looked up for a cycle are those of its stage.
LEMMA StageData ==
    ASSUME TypeOK, Allocated, MidpointPositionsFresh, pc \in Cycling
    PROVE  /\ Stage \in Times /\ (Stage = "half" <=> scheme = "MIDPOINT_RULE")
           /\ PositionData(Stage) = StagePositions
           /\ StagePositions \in Positions /\ StagePositions # Null
<1>1. X["new"] \in Positions /\ X["current"] \in Positions
  BY DEF Allocated
<1>2. PositionData(Stage) = StagePositions
  BY DEF PositionData, StagePositions, Stage, StalePositions, MidpointPositionsFresh
<1>3. StagePositions \in Positions
  BY <1>1, TermTypes DEF StagePositions
<1> QED BY <1>2, <1>3, NotMissing DEF Stage, Times

\* Forces are spread from the positions they were computed at, and with
\* ghost copies that are up to date.
LEMMA SpreadIsFresh ==
    ASSUME PositionGhosts, NEW w \in Times, PositionData(w) # Null
    PROVE  SpreadForce(w) = Spread(LagrangianForce(w), PositionData(w))
BY GhostPositionsFresh DEF SpreadForce, SpreadWith, GhostForce

\* With data of a step that did not change, nothing it was computed from did.
LEMMA SameTerms ==
    ASSUME UNCHANGED control, UNCHANGED <<cycle, last>>,
           X'["current"] = X["current"], X'["new"] = X["new"],
           U'["current"] = U["current"]
    PROVE  /\ CurrentForce' = CurrentForce /\ StagePositions' = StagePositions
           /\ KnownVelocity' = KnownVelocity /\ StageForce' = StageForce
           /\ StepForce' = StepForce /\ (KeepsCurrentForce' <=> KeepsCurrentForce)
           /\ Stage' = Stage
<1>1. scheme' = scheme /\ nc' = nc /\ n' = n /\ cycle' = cycle /\ last' = last
  BY DEF control
<1>2. Stage' = Stage /\ (KeepsCurrentForce' <=> KeepsCurrentForce)
  BY <1>1 DEF Stage, KeepsCurrentForce
<1>3. CurrentForce' = CurrentForce
  BY <1>1 DEF CurrentForce, TimeOf
<1>4. StagePositions' = StagePositions /\ KnownVelocity' = KnownVelocity
  BY <1>1 DEF StagePositions, KnownVelocity
<1>5. StageForce' = StageForce
  BY <1>1, <1>2, <1>4 DEF StageForce, TimeOf
<1>6. StepForce' = StepForce
  BY <1>1, <1>2, <1>3, <1>5 DEF StepForce
<1> QED BY <1>2, <1>3, <1>4, <1>5, <1>6

LEMMA NextStarted ==
    TypeOK /\ Allocated /\ Started /\ [Next]_vars => Started'
<1> SUFFICES ASSUME TypeOK, Allocated, Started, [Next]_vars,
                    pc' \in {"spread current force", "predict"}
             PROVE  /\ X'["new"] = X'["current"] /\ U'["new"] = U'["current"]
                    /\ uNew' = uCurrent' /\ uHalfNeedsReinit'
  BY DEF Started
<1>1. CASE PreprocessIntegrateData
  BY <1>1 DEF PreprocessIntegrateData, NewPositions, TypeOK, Allocated, Times
<1>2. CASE SpreadCurrentForce
  <2>1. ComputeAndSpreadForce("current") /\ "current" \in Times
    BY <1>2 DEF SpreadCurrentForce, Times
  <2>2. /\ X'["current"] = X["current"] /\ X'["new"] = X["new"]
        /\ U'["current"] = U["current"] /\ U'["new"] = U["new"]
    BY <2>1, ForceStep
  <2>3. uHalfNeedsReinit' = uHalfNeedsReinit
    BY <2>1 DEF ComputeAndSpreadForce, TypeOK
  <2> QED BY <1>2, <2>2, <2>3 DEF SpreadCurrentForce, fluid, Started
<1>3. CASE Terminated \/ UNCHANGED vars
  BY <1>3 DEF Terminated, vars, position, velocity, fluid, Started
<1>4. ~(AdvanceHierarchy \/ Restart \/ CopyToMissingData \/ PredictPositions \/ ForceAtHalfTime
        \/ ForceAtNewTime \/ KeepCurrentForce \/ SpreadFluidSource \/ SolveFluidEquations
        \/ InterpolateStageVelocity \/ UpdatePositions \/ InterpolatePressure
        \/ PostprocessIntegrateHierarchy)
  BY DEF AdvanceHierarchy, Restart, CopyToMissingData, PredictPositions, ForceAtHalfTime,
     ForceAtNewTime, KeepCurrentForce, SpreadFluidSource, SolveFluidEquations,
     InterpolateStageVelocity, UpdatePositions, InterpolatePressure,
     PostprocessIntegrateHierarchy, AfterForce, AfterCycle
<1> QED BY <1>1, <1>2, <1>3, <1>4 DEF Next

\* Between two steps, and before the force at the old time is spread, there is
\* nothing to say.
LEMMA OutsideComputed ==
    ASSUME pc' \notin {"predict"} \cup Cycling
    PROVE  Computed'
BY DEF Computed, OldForce, KeptForce, FirstCycle, CycleStart, CycleForce, CycleFluid,
   CycleVelocity, Cycling

LEMMA CurrentForceComputed ==
    ASSUME TypeOK, Allocated, PositionGhosts, SpreadCurrentForce
    PROVE  Computed'
<1>1. /\ "current" \in Times /\ ComputeAndSpreadForce("current")
      /\ X["current"] \in Positions /\ pc' = "predict"
  BY DEF SpreadCurrentForce, Times, Allocated
<1>2. X'["current"] = X["current"] /\ U'["current"] = U["current"]
  BY <1>1, ForceStep
<1>3. PositionData("current") = X["current"] /\ VelocityData("current") = U["current"]
  BY DEF PositionData, VelocityData
<1>4. SpreadForce("current") = CurrentForce
  BY <1>1, <1>3, SpreadIsFresh, NotMissing DEF LagrangianForce, CurrentForce
<1>5. n' = n
  BY DEF SpreadCurrentForce, control
<1>6. CurrentForce' = CurrentForce
  BY <1>2, <1>5 DEF CurrentForce, TimeOf
<1>7. f' = <<CurrentForce>> /\ fCurrent' = <<CurrentForce>>
  BY <1>4 DEF SpreadCurrentForce
<1> QED BY <1>1, <1>6, <1>7 DEF Computed, OldForce, KeptForce, FirstCycle, CycleStart, CycleForce,
    CycleFluid, CycleVelocity, Cycling

LEMMA PredictComputed ==
    ASSUME TypeOK, Allocated, Started, Computed, PredictPositions
    PROVE  Computed'
<1>1. /\ pc = "predict" /\ pc' = "force" /\ cycle' = 0 /\ nc' = nc /\ scheme' = scheme /\ n' = n
      /\ U' = U /\ uHalfNeedsReinit' = uHalfNeedsReinit /\ uNew' = uNew /\ f' = f
      /\ fCurrent' = fCurrent
  BY DEF PredictPositions, control, velocity, fluid, eulerianForce
<1>2. X'["current"] = X["current"] /\ (nc # 1 => X' = X)
  <2>1. ~PostprocessIntegrateHierarchy
    BY <1>1 DEF PostprocessIntegrateHierarchy
  <2>2. nc # 1 => X' = X
    BY DEF PredictPositions, position
  <2> QED BY <2>1, <2>2, CurrentKept DEF Next
<1>3. CurrentForce' = CurrentForce
  BY <1>1, <1>2 DEF CurrentForce, TimeOf
<1>4. OldForce'
  BY <1>1, <1>3 DEF Computed, OldForce, Cycling
<1>5. KeptForce'
  BY <1>1 DEF Computed, KeptForce, KeepsCurrentForce
<1>6. FirstCycle'
  BY <1>1, <1>2 DEF Started, FirstCycle
<1>7. CycleStart'
  <2>1. last'.u = uNew /\ last'.v = U["new"]
    BY DEF PredictPositions, CycleResult
  <2>2. CASE scheme = "MIDPOINT_RULE"
    <3>1. U["new"] = U["current"] /\ uHalfNeedsReinit
      BY <1>1 DEF Started
    <3>2. Stage' = "half" /\ KnownVelocity' = Mid(U["current"], U["current"])
      BY <1>1, <2>2 DEF Stage, KnownVelocity
    <3>3. VelocityData("half")' = Mid(U["current"], U["new"])
      BY <1>1, <3>1 DEF VelocityData
    <3>4. VelocityData(Stage)' = KnownVelocity'
      BY <3>1, <3>2, <3>3 DEF VelocityData
    <3> QED BY <1>1, <2>1, <3>4 DEF CycleStart
  <2>3. CASE scheme # "MIDPOINT_RULE"
    <3>1. Stage' = "new" /\ KnownVelocity' = U["new"]
      BY <1>1, <2>1, <2>3 DEF Stage, KnownVelocity
    <3>2. VelocityData(Stage)' = KnownVelocity'
      BY <1>1, <3>1 DEF VelocityData
    <3> QED BY <1>1, <2>1, <3>2 DEF CycleStart
  <2> QED BY <2>2, <2>3
<1> QED BY <1>1, <1>4, <1>5, <1>6, <1>7 DEF Computed, CycleForce, CycleFluid, CycleVelocity

\* The force of the stage is computed from the positions and the velocity of
\* the stage.
LEMMA StageForceSpread ==
    ASSUME TypeOK, Allocated, MidpointPositionsFresh, PositionGhosts, CycleStart, pc = "force"
    PROVE  SpreadForce(Stage) = StageForce
<1>1. /\ Stage \in Times /\ PositionData(Stage) = StagePositions /\ StagePositions # Null
      /\ VelocityData(Stage) = KnownVelocity
  BY StageData DEF CycleStart, Cycling
<1> QED BY <1>1, SpreadIsFresh DEF StageForce, LagrangianForce

LEMMA StageForceComputed ==
    ASSUME TypeOK, Allocated, MidpointPositionsFresh, PositionGhosts, Computed,
           ForceAtHalfTime \/ ForceAtNewTime
    PROVE  Computed'
<1>1. /\ pc = "force" /\ pc' \in {"source", "solve"} /\ UNCHANGED control
      /\ UNCHANGED <<cycle, last>> /\ UNCHANGED fluid /\ fCurrent' = fCurrent
      /\ ComputeAndSpreadForce(Stage) /\ Stage \in Times
  BY DEF ForceAtHalfTime, ForceAtNewTime, AfterForce, Stage, Times
<1>2. SpreadForce(Stage) = StageForce
  BY <1>1, StageForceSpread DEF Computed
<1>3. f' = StepForce
  <2>1. CASE ForceAtHalfTime
    BY <1>2, <2>1 DEF ForceAtHalfTime, StepForce, Stage
  <2>2. CASE ForceAtNewTime
    <3>1. fCurrent = <<CurrentForce>>
      BY <1>1, <2>2 DEF ForceAtNewTime, Computed, OldForce, Cycling
    <3>2. f' = fCurrent \o <<StageForce>>
      BY <1>2, <2>2 DEF ForceAtNewTime, Stage
    <3>3. f' = <<CurrentForce, StageForce>>
      BY <3>1, <3>2, Joined
    <3> QED BY <2>2, <3>3 DEF ForceAtNewTime, StepForce
  <2> QED BY <2>1, <2>2
<1>4. /\ X'["current"] = X["current"] /\ X'["new"] = X["new"]
      /\ U'["current"] = U["current"]
  <2>1. X["new"] \in Positions /\ U["new"] \in Velocities
    BY <1>1 DEF Allocated, Cycling
  <2> QED BY <1>1, <2>1, ForceStep
<1>5. StepForce' = StepForce /\ CurrentForce' = CurrentForce
  BY <1>1, <1>4, SameTerms
<1>6. nc' = nc /\ scheme' = scheme
  BY <1>1 DEF control
<1> QED BY <1>1, <1>3, <1>4, <1>5, <1>6 DEF Computed, OldForce, KeptForce, FirstCycle, CycleStart,
    CycleForce, CycleFluid, CycleVelocity, Cycling

LEMMA KeptForceComputed ==
    ASSUME TypeOK, Computed, KeepCurrentForce
    PROVE  Computed'
<1>1. /\ pc = "force" /\ pc' \in {"source", "solve"} /\ KeepsCurrentForce
      /\ UNCHANGED control /\ UNCHANGED <<cycle, last>> /\ UNCHANGED <<X, U, f, fCurrent>>
      /\ scheme' = scheme /\ nc' = nc
  BY DEF KeepCurrentForce, AfterForce, position, velocity, eulerianForce, control
<1>2. StepForce' = StepForce /\ CurrentForce' = CurrentForce
  BY <1>1, SameTerms
<1>3. f = StepForce
  <2>1. f = <<CurrentForce>> /\ scheme = "TRAPEZOIDAL_RULE"
    BY <1>1 DEF Computed, OldForce, KeptForce, KeepsCurrentForce, Cycling
  <2> QED BY <1>1, <2>1 DEF StepForce
<1> QED BY <1>1, <1>2, <1>3 DEF Computed, OldForce, KeptForce, FirstCycle, CycleStart,
    CycleForce, CycleFluid, CycleVelocity, Cycling

\* Looking positions up does not change what was computed.
LEMMA LookUpComputed ==
    ASSUME TypeOK, Allocated, Computed, SpreadFluidSource \/ InterpolatePressure
    PROVE  Computed'
<1>1. /\ UNCHANGED control /\ UNCHANGED <<cycle, last, U, f, fCurrent, uNew, uHalfNeedsReinit>>
      /\ pc \in Cycling /\ scheme' = scheme /\ nc' = nc
  BY DEF SpreadFluidSource, InterpolatePressure, control, velocity, fluid, eulerianForce, Cycling
<1>2. X'["current"] = X["current"] /\ X'["new"] = X["new"]
  <2>1. X["new"] \in Positions
    BY <1>1 DEF Allocated
  <2> QED BY <2>1, LookUpHalf DEF SpreadFluidSource, InterpolatePressure
<1>3. /\ CurrentForce' = CurrentForce /\ StepForce' = StepForce /\ Stage' = Stage
      /\ KnownVelocity' = KnownVelocity
  BY <1>1, <1>2, SameTerms
<1>4. VelocityData(Stage)' = VelocityData(Stage)
  BY <1>1, <1>3 DEF VelocityData
<1>5. CASE SpreadFluidSource
  <2>1. pc = "source" /\ pc' = "solve"
    BY <1>5 DEF SpreadFluidSource
  <2> QED BY <1>1, <1>2, <1>3, <2>1 DEF Computed, OldForce, KeptForce, FirstCycle, CycleStart,
      CycleForce, CycleFluid, CycleVelocity, Cycling
<1>6. CASE InterpolatePressure
  <2>1. pc = "pressure" /\ pc' \in {"force", "postprocess"} /\ cycle > 0
    BY <1>6 DEF InterpolatePressure, AfterCycle, Allocated
  <2>2. ~KeepsCurrentForce' /\ cycle' # 0
    BY <1>1, <2>1, NumbersTypes DEF KeepsCurrentForce
  <2> QED BY <1>1, <1>2, <1>3, <1>4, <2>1, <2>2 DEF Computed, OldForce, KeptForce, FirstCycle,
      CycleStart, CycleForce, CycleFluid, CycleVelocity, Cycling
<1> QED BY <1>5, <1>6

LEMMA FluidComputed ==
    ASSUME TypeOK, Computed, SolveFluidEquations
    PROVE  Computed'
<1>1. /\ UNCHANGED control /\ UNCHANGED <<cycle, last, X, U, f, fCurrent, uHalfNeedsReinit>>
      /\ pc = "solve" /\ pc' = "interpolate" /\ scheme' = scheme /\ nc' = nc /\ n' = n
      /\ uNew' = Same(<<n + 1, cycle + 1>>)
  BY DEF SolveFluidEquations, control, position, velocity, eulerianForce
<1>2. CurrentForce' = CurrentForce /\ StepForce' = StepForce
  BY <1>1, SameTerms
<1> QED BY <1>1, <1>2 DEF Computed, OldForce, KeptForce, FirstCycle, CycleStart, CycleForce,
    CycleFluid, CycleVelocity, Cycling

LEMMA VelocityComputed ==
    ASSUME TypeOK, Allocated, MidpointPositionsFresh, Computed, InterpolateStageVelocity
    PROVE  Computed'
<1>1. /\ UNCHANGED control /\ UNCHANGED <<cycle, last, f, fCurrent, uNew, uCurrent>>
      /\ pc = "interpolate" /\ pc' = "move" /\ scheme' = scheme /\ nc' = nc /\ n' = n
      /\ InterpolateVelocity(StageFluid, Stage)
  BY DEF InterpolateStageVelocity, control, fluid, eulerianForce
<1>2. X["new"] \in Positions /\ uNew \in Positions /\ uCurrent \in Positions
  BY <1>1 DEF Allocated, Cycling
<1>3. Stage \in {"half", "new"} /\ StageFluid \in Positions
  BY <1>2, TermTypes DEF Stage, StageFluid
<1>4. /\ X'["current"] = X["current"] /\ X'["new"] = X["new"] /\ U'["current"] = U["current"]
      /\ U'[Stage] = Interpolated(StageFluid, PositionData(Stage))
      /\ Interpolated(StageFluid, PositionData(Stage)) \in Velocities
      /\ uHalfNeedsReinit' = (Stage # "half")
  BY <1>1, <1>2, <1>3, InterpolateStep
<1>5. /\ CurrentForce' = CurrentForce /\ StepForce' = StepForce /\ Stage' = Stage
      /\ StagePositions' = StagePositions
  BY <1>1, <1>4, SameTerms
<1>6. PositionData(Stage) = StagePositions
  BY <1>1, StageData DEF Cycling
<1>7. StageFluid' = StageFluid
  BY <1>1 DEF StageFluid
<1>8. VelocityData(Stage)' = U'[Stage]
  <2>1. U'[Stage] # Null
    BY <1>4, NotMissing
  <2> QED BY <1>4, <1>5, <2>1 DEF VelocityData
<1> QED BY <1>1, <1>4, <1>5, <1>6, <1>7, <1>8 DEF Computed, OldForce, KeptForce, FirstCycle,
    CycleStart, CycleForce, CycleFluid, CycleVelocity, Cycling

LEMMA MoveComputed ==
    ASSUME TypeOK, Allocated, Computed, UpdatePositions
    PROVE  Computed'
<1>1. /\ pc = "move" /\ pc' \in {"pressure", "force", "postprocess"}
      /\ cycle' = cycle + 1 /\ scheme' = scheme /\ nc' = nc /\ n' = n
      /\ UNCHANGED <<U, uHalfNeedsReinit, uNew, f, fCurrent>>
      /\ last' = CycleResult(f, uNew, VelocityData(Stage), StepVelocity)
  BY DEF UpdatePositions, AfterCycle, control, velocity, fluid, eulerianForce
<1>2. cycle' # 0 /\ ~KeepsCurrentForce'
  BY <1>1, NumbersTypes DEF KeepsCurrentForce
<1>3. X'["current"] = X["current"]
  <2>1. n + 1 \in Nat /\ cycle + 1 \in Nat
    BY NumbersTypes
  <2>2. PICK a \in Nat, b \in Nat : MoveStructure(<<a, b>>)
    BY <2>1, Zenon DEF UpdatePositions
  <2> QED BY <2>2, Moved
<1>4. CurrentForce' = CurrentForce
  BY <1>1, <1>3 DEF CurrentForce, TimeOf
<1>5. Stage' = Stage
  BY <1>1 DEF Stage
<1>6. VelocityData(Stage)' = VelocityData(Stage)
  BY <1>1, <1>5 DEF VelocityData
<1>7. KnownVelocity' = last'.v
  BY <1>1, <1>2 DEF KnownVelocity
<1>8. last'.u = uNew /\ last'.v = VelocityData(Stage)
  BY <1>1 DEF CycleResult
<1> QED BY <1>1, <1>2, <1>4, <1>6, <1>7, <1>8 DEF Computed, OldForce, KeptForce, FirstCycle,
    CycleStart, CycleForce, CycleFluid, CycleVelocity, Cycling

LEMMA NextComputed ==
    /\ TypeOK /\ Allocated /\ MidpointPositionsFresh /\ GhostsFresh /\ Started /\ Computed
    /\ [Next]_vars
    => Computed'
<1> SUFFICES ASSUME TypeOK, Allocated, MidpointPositionsFresh, PositionGhosts, Started, Computed,
                    [Next]_vars
             PROVE  Computed'
  BY GhostParts
<1>1. CASE AdvanceHierarchy \/ Restart \/ CopyToMissingData \/ PostprocessIntegrateHierarchy
           \/ Terminated
  BY <1>1, OutsideComputed DEF AdvanceHierarchy, Restart, CopyToMissingData,
     PostprocessIntegrateHierarchy, Terminated, vars, Cycling
<1>2. CASE PreprocessIntegrateData
  BY <1>2 DEF PreprocessIntegrateData, control, Computed, OldForce, KeptForce, FirstCycle,
     CycleStart, CycleForce, CycleFluid, CycleVelocity, Cycling
<1>3. CASE SpreadCurrentForce
  BY <1>3, CurrentForceComputed
<1>4. CASE PredictPositions
  BY <1>4, PredictComputed
<1>5. CASE ForceAtHalfTime \/ ForceAtNewTime
  BY <1>5, StageForceComputed
<1>6. CASE KeepCurrentForce
  BY <1>6, KeptForceComputed
<1>7. CASE SpreadFluidSource \/ InterpolatePressure
  BY <1>7, LookUpComputed
<1>8. CASE SolveFluidEquations
  BY <1>8, FluidComputed
<1>9. CASE InterpolateStageVelocity
  BY <1>9, VelocityComputed
<1>10. CASE UpdatePositions
  BY <1>10, MoveComputed
<1>11. CASE UNCHANGED vars
  <2>1. /\ UNCHANGED <<pc, cycle, last, X, U, f, fCurrent, uNew, uCurrent, uHalfNeedsReinit>>
        /\ UNCHANGED control /\ scheme' = scheme /\ nc' = nc /\ n' = n
    BY <1>11 DEF vars, control, position, velocity, fluid, eulerianForce
  <2>2. /\ CurrentForce' = CurrentForce /\ StagePositions' = StagePositions
        /\ KnownVelocity' = KnownVelocity /\ StepForce' = StepForce
        /\ (KeepsCurrentForce' <=> KeepsCurrentForce) /\ Stage' = Stage
    BY <2>1, SameTerms
  <2>3. VelocityData(Stage)' = VelocityData(Stage) /\ StageFluid' = StageFluid
    BY <2>1, <2>2 DEF VelocityData, StageFluid
  <2> QED BY <2>1, <2>2, <2>3 DEF Computed, OldForce, KeptForce, FirstCycle, CycleStart,
      CycleForce, CycleFluid, CycleVelocity
<1> QED BY <1>1, <1>2, <1>3, <1>4, <1>5, <1>6, <1>7, <1>8, <1>9, <1>10, <1>11 DEF Next

-----------------------------------------------------------------------------
(* Spreading and interpolation are adjoint *)

LEMMA NextAdjoint ==
    TypeOK /\ Allocated /\ Computed /\ TransfersAreAdjoint /\ [Next]_vars => TransfersAreAdjoint'
<1> SUFFICES ASSUME TypeOK, Allocated, Computed, TransfersAreAdjoint, [Next]_vars
             PROVE  TransfersAreAdjoint'
  OBVIOUS
<1>1. CASE UpdatePositions
  <2>1. /\ pc = "move"
        /\ last' = CycleResult(f, uNew, VelocityData(Stage), StepVelocity)
    BY <1>1 DEF UpdatePositions
  <2>2. last'.f = StepForce /\ last'.v = Interpolated(StageFluid, StagePositions)
    BY <2>1 DEF CycleResult, Computed, CycleForce, CycleVelocity
  <2>3. last'.v[1].at = StagePositions
    BY <2>2 DEF Interpolated, Same
  <2>4. CurrentForce.F.x = X["current"] /\ CurrentForce.at = X["current"]
    BY DEF CurrentForce, Spread, ForceAt
  <2>5. StageForce.F.x = StagePositions /\ StageForce.at = StagePositions
    BY DEF StageForce, Spread, ForceAt
  \* The force at the old time is used alone only while the structure has not
  \* moved.
  <2>6. CASE scheme # "MIDPOINT_RULE" /\ KeepsCurrentForce
    <3>1. StagePositions = X["current"]
      BY <2>1, <2>6 DEF Computed, FirstCycle, KeepsCurrentForce, StagePositions, Cycling
    <3>2. last'.f = <<CurrentForce>>
      BY <2>2, <2>6 DEF StepForce
    <3>3. last'.f[Len(last'.f)] = CurrentForce
      BY <3>2
    <3> QED BY <2>3, <2>4, <3>1, <3>3 DEF TransfersAreAdjoint
  <2>7. CASE scheme = "MIDPOINT_RULE"
    <3>1. last'.f = <<StageForce>>
      BY <2>2, <2>7 DEF StepForce
    <3>2. last'.f[Len(last'.f)] = StageForce
      BY <3>1
    <3> QED BY <2>3, <2>5, <3>2 DEF TransfersAreAdjoint
  <2>8. CASE scheme # "MIDPOINT_RULE" /\ ~KeepsCurrentForce
    <3>1. last'.f = <<CurrentForce, StageForce>>
      BY <2>2, <2>8 DEF StepForce
    <3>2. last'.f[Len(last'.f)] = StageForce
      BY <3>1
    <3> QED BY <2>3, <2>5, <3>2 DEF TransfersAreAdjoint
  <2> QED BY <2>6, <2>7, <2>8
<1>2. CASE PredictPositions
  BY <1>2 DEF PredictPositions, CycleResult, TransfersAreAdjoint
<1>3. CASE AdvanceHierarchy \/ Restart \/ PreprocessIntegrateData \/ SpreadCurrentForce
           \/ CopyToMissingData \/ ForceAtHalfTime \/ ForceAtNewTime
  BY <1>3 DEF AdvanceHierarchy, Restart, PreprocessIntegrateData, SpreadCurrentForce,
     CopyToMissingData, ForceAtHalfTime, ForceAtNewTime, TransfersAreAdjoint
<1>4. CASE KeepCurrentForce \/ SpreadFluidSource \/ SolveFluidEquations
           \/ InterpolateStageVelocity \/ InterpolatePressure \/ PostprocessIntegrateHierarchy
  BY <1>4 DEF KeepCurrentForce, SpreadFluidSource, SolveFluidEquations,
     InterpolateStageVelocity, InterpolatePressure, PostprocessIntegrateHierarchy,
     TransfersAreAdjoint
<1>5. CASE Terminated \/ UNCHANGED vars
  BY <1>5 DEF Terminated, vars, TransfersAreAdjoint
<1> QED BY <1>1, <1>2, <1>3, <1>4, <1>5 DEF Next

\* The inductive invariant: everything above holds together.
LEMMA Invariant == Spec => []IInv
<1>1. Init => IInv
  <2>1. Init => Dropped /\ GhostsFresh
    BY DEF Init, Dropped, GhostsFresh, OnlyCurrent, Times
  <2>2. Init => Told /\ Started
    BY DEF Init, Told, Started, Cycling
  <2>3. Init => Computed
    BY DEF Init, Computed, OldForce, KeptForce, FirstCycle, CycleStart, CycleForce, CycleFluid,
       CycleVelocity, Cycling
  <2>4. Init => MidpointPositionsFresh /\ VelocityAlreadyInterpolated
    BY DEF Init, MidpointPositionsFresh, VelocityAlreadyInterpolated, OnlyCurrent, Times
  <2>5. Init => TransfersAreAdjoint
    BY DEF Init, TransfersAreAdjoint, CycleResult
  <2> QED BY <2>1, <2>2, <2>3, <2>4, <2>5, InitType DEF IInv
<1>2. IInv /\ [Next]_vars => IInv'
  BY NextType, NextDropped, NextTold, NextStarted, NextComputed, NextGhosts, NextMidpoint,
     NextVelocity, NextAdjoint DEF IInv
<1> QED BY <1>1, <1>2, PTL DEF Spec

\* Every cycle spreads and interpolates at the positions its force was computed
\* at, although both look the positions up for themselves
\* (TransfersAreAdjoint).
THEOREM TransfersAdjoint == Spec => []TransfersAreAdjoint
<1>1. IInv => TransfersAreAdjoint
  BY DEF IInv
<1> QED BY <1>1, Invariant, PTL

-----------------------------------------------------------------------------
(* The integrator implements the scheme *)

\* The positions the abstract scheme sees as its guess.
Guess == IF Stepping THEN X["new"] ELSE X["current"]

Seen == <<scheme, nc, Stepping, n, cycle, X["current"], U["current"], uCurrent, Guess, last>>

\* What the abstract scheme sees does not change.
LEMMA Hidden == UNCHANGED Seen => UNCHANGED Abstract!svars
BY DEF Seen, Guess, Abstract!svars

LEMMA InitImplements == Init => Abstract!SInit
<1> SUFFICES ASSUME Init PROVE Abstract!SInit
  OBVIOUS
<1>1. /\ X["current"] = InitialPosition /\ U["current"] = Interpolated(InitialFluid, InitialPosition)
      /\ uCurrent = InitialFluid /\ last = CycleResult(<<>>, uCurrent, U["current"], Null)
      /\ scheme \in Schemes /\ nc \in Cycles /\ n = 0 /\ cycle = 0 /\ ~Stepping
  BY DEF Init, OnlyCurrent, Times, Stepping, Cycling
<1>2. /\ Abstract!InitialPosition = InitialPosition /\ Abstract!InitialFluid = InitialFluid
      /\ Abstract!Interpolated(InitialFluid, InitialPosition)
           = Interpolated(InitialFluid, InitialPosition)
  BY DEF InitialPosition, InitialFluid, Interpolated, Same, Abstract!InitialPosition,
     Abstract!InitialFluid, Abstract!Interpolated, Abstract!Same
<1>3. Abstract!CycleResult(<<>>, uCurrent, U["current"], Null)
        = CycleResult(<<>>, uCurrent, U["current"], Null)
  BY DEF CycleResult, Abstract!CycleResult
<1> QED BY <1>1, <1>2, <1>3 DEF Abstract!SInit

LEMMA PredictBegins ==
    ASSUME IInv, PredictPositions
    PROVE  Abstract!Begin
<1>1. /\ pc = "predict" /\ pc' = "force" /\ cycle' = 0 /\ nc' = nc /\ scheme' = scheme /\ n' = n
      /\ uCurrent' = uCurrent /\ U' = U
      /\ last' = CycleResult(<<>>, uNew, U["new"], IF nc = 1 THEN U["current"] ELSE Null)
  BY DEF PredictPositions, control, fluid, velocity
<1>2. ~Stepping /\ Stepping'
  BY <1>1 DEF Stepping, Cycling
<1>3. X["new"] = X["current"] /\ U["new"] = U["current"] /\ uNew = uCurrent /\ n < MaxSteps
  BY <1>1 DEF IInv, Started, Allocated, Preparing
<1>4. /\ X'["current"] = X["current"]
      /\ X'["new"] = IF nc = 1 THEN Same(<<n + 1, 0>>) ELSE X["current"]
  <2>1. CASE nc = 1
    BY <2>1 DEF PredictPositions, MoveStructure, IInv, TypeOK, Times
  <2>2. CASE nc # 1
    BY <1>3, <2>2 DEF PredictPositions, position
  <2> QED BY <2>1, <2>2
<1> QED BY <1>1, <1>2, <1>3, <1>4 DEF Abstract!Begin, Abstract!Same, Same, Abstract!CycleResult,
    CycleResult

LEMMA UpdateCycles ==
    ASSUME IInv, UpdatePositions
    PROVE  Abstract!Cycle
<1>1. /\ pc = "move" /\ pc' \in {"pressure", "force", "postprocess"}
      /\ cycle' = cycle + 1 /\ scheme' = scheme /\ nc' = nc /\ n' = n
      /\ U' = U /\ uCurrent' = uCurrent
      /\ last' = CycleResult(f, uNew, VelocityData(Stage), StepVelocity)
  BY DEF UpdatePositions, AfterCycle, control, velocity, fluid
<1>2. Stepping /\ Stepping' /\ cycle < nc
  BY <1>1 DEF Stepping, Cycling, IInv, Allocated
<1>3. X'["current"] = X["current"] /\ X'["new"] = Same(<<n + 1, cycle + 1>>)
  BY DEF UpdatePositions, MoveStructure, IInv, TypeOK, Times
<1>4. /\ f = StepForce /\ uNew = Same(<<n + 1, cycle + 1>>)
      /\ VelocityData(Stage) = Interpolated(StageFluid, StagePositions)
  BY <1>1 DEF IInv, Computed, CycleForce, CycleFluid, CycleVelocity
<1>5. Abstract!MidpointCycle \/ Abstract!TrapezoidalCycle
  <2>1. CASE scheme = "MIDPOINT_RULE"
    <3>1. /\ StagePositions = Mid(X["current"], X["new"]) /\ StageFluid = Mid(uCurrent, uNew)
          /\ Stage = "half" /\ StepForce = <<StageForce>>
          /\ KnownVelocity = IF cycle = 0 THEN Mid(U["current"], U["current"]) ELSE last.v
      BY <2>1 DEF StagePositions, StageFluid, Stage, StepForce, KnownVelocity
    <3>2. StepVelocity = IF nc > 1 /\ cycle = 0 THEN U["current"] ELSE VelocityData(Stage)
      BY <2>1, <3>1 DEF StepVelocity
    <3>3. Abstract!MidpointCycle
      BY <1>1, <1>2, <1>4, <2>1, <3>1, <3>2 DEF Abstract!MidpointCycle, Abstract!Mid, Mid,
         Abstract!ForceAt, ForceAt, Abstract!Spread, Spread, Abstract!Interpolated, Interpolated,
         Abstract!Same, Same, Abstract!CycleResult, CycleResult, Abstract!NextFluid,
         Abstract!FirstOfMany, Abstract!TimeOf, TimeOf, StageForce
    <3> QED BY <3>3
  <2>2. CASE scheme # "MIDPOINT_RULE"
    <3>1. /\ StagePositions = X["new"] /\ StageFluid = uNew /\ Stage = "new"
          /\ KnownVelocity = last.v
          /\ StepForce = IF nc > 1 /\ cycle = 0 THEN <<CurrentForce>>
                         ELSE <<CurrentForce, StageForce>>
          /\ scheme = "TRAPEZOIDAL_RULE"
      BY <1>1, <2>2 DEF StagePositions, StageFluid, Stage, StepForce, KnownVelocity,
         KeepsCurrentForce, IInv, Allocated, Cycling
    <3>2. U["new"] = VelocityData(Stage)
      BY <3>1 DEF VelocityData
    <3>3. StepVelocity = IF nc > 1 /\ cycle = 0 THEN U["current"]
                         ELSE Mid(U["current"], VelocityData(Stage))
      BY <2>2, <3>2 DEF StepVelocity
    <3>4. Abstract!TrapezoidalCycle
      BY <1>1, <1>2, <1>4, <3>1, <3>3 DEF Abstract!TrapezoidalCycle, Abstract!Mid, Mid,
         Abstract!ForceAt, ForceAt, Abstract!Spread, Spread, Abstract!Interpolated, Interpolated,
         Abstract!Same, Same, Abstract!CycleResult, CycleResult, Abstract!NextFluid,
         Abstract!FirstOfMany, Abstract!TimeOf, TimeOf, StageForce, CurrentForce
    <3> QED BY <3>4
  <2> QED BY <2>1, <2>2
<1> QED BY <1>1, <1>2, <1>3, <1>5 DEF Abstract!Cycle, Abstract!Same, Same

LEMMA PostprocessEnds ==
    ASSUME IInv, PostprocessIntegrateHierarchy
    PROVE  Abstract!End
<1>1. /\ pc = "postprocess" /\ pc' = "ready" /\ n' = n + 1 /\ scheme' = scheme /\ nc' = nc
      /\ cycle' = cycle /\ last' = last /\ uCurrent' = uNew
      /\ X'["current"] = X["new"] /\ U'["current"] = Interpolated(uNew, X["new"])
  BY DEF PostprocessIntegrateHierarchy, OnlyCurrent, Times, NewVelocity
<1>2. Stepping /\ ~Stepping' /\ cycle = nc /\ uNew = last.u
  BY <1>1 DEF Stepping, Cycling, IInv, Allocated, Computed, CycleStart
<1> QED BY <1>1, <1>2 DEF Abstract!End, Abstract!Interpolated, Interpolated, Abstract!Same, Same

\* Every other step is hidden from the scheme.
LEMMA OthersHidden ==
    ASSUME IInv, [Next]_vars, ~PredictPositions, ~UpdatePositions,
           ~PostprocessIntegrateHierarchy
    PROVE  UNCHANGED Seen
<1>0. "current" \in Times /\ "half" \in Times /\ "new" \in Times
  BY DEF Times
<1>1. TypeOK /\ Allocated
  BY DEF IInv
<1>2. /\ X'["current"] = X["current"] /\ U'["current"] = U["current"] /\ uCurrent' = uCurrent
  BY <1>1, CurrentKept
<1>3. CASE AdvanceHierarchy \/ Restart \/ PreprocessIntegrateData \/ SpreadCurrentForce
           \/ CopyToMissingData
  <2>1. UNCHANGED <<scheme, nc, n, cycle, last>>
    BY <1>3 DEF AdvanceHierarchy, Restart, PreprocessIntegrateData, SpreadCurrentForce,
       CopyToMissingData, control
  <2>2. ~Stepping /\ ~Stepping'
    BY <1>3 DEF AdvanceHierarchy, Restart, PreprocessIntegrateData, SpreadCurrentForce,
       CopyToMissingData, Stepping, Cycling
  <2>3. Stepping' = Stepping /\ Guess' = Guess
    BY <1>2, <2>2 DEF Stepping, Guess
  <2> QED BY <1>2, <2>1, <2>3 DEF Seen
<1>4. ASSUME ForceAtHalfTime \/ ForceAtNewTime
      PROVE  UNCHANGED Seen
  <2>1. PICK w \in Times : ComputeAndSpreadForce(w)
    BY <1>0, <1>4 DEF ForceAtHalfTime, ForceAtNewTime
  <2>2. X["new"] \in Positions /\ U["new"] \in Velocities
    BY <1>1, <1>4 DEF ForceAtHalfTime, ForceAtNewTime, Allocated, Cycling
  <2>3. X'["new"] = X["new"]
    BY <1>1, <2>1, <2>2, ForceStep
  <2> QED BY <1>2, <1>4, <2>3 DEF ForceAtHalfTime, ForceAtNewTime, AfterForce, control, Seen, Guess,
      Stepping, Cycling
<1>5. CASE KeepCurrentForce \/ SolveFluidEquations
  BY <1>2, <1>5 DEF KeepCurrentForce, SolveFluidEquations, AfterForce, control, position, Seen,
     Guess, Stepping, Cycling
<1>6. CASE SpreadFluidSource \/ InterpolatePressure
  <2>1. X["new"] \in Positions
    BY <1>1, <1>6 DEF SpreadFluidSource, InterpolatePressure, Allocated, Cycling
  <2>2. X'["new"] = X["new"]
    BY <1>1, <1>6, <2>1, LookUpHalf DEF SpreadFluidSource, InterpolatePressure
  <2> QED BY <1>2, <1>6, <2>2 DEF SpreadFluidSource, InterpolatePressure, AfterCycle, control, Seen,
      Guess, Stepping, Cycling
<1>7. CASE InterpolateStageVelocity
  <2>1. X["new"] \in Positions /\ uNew \in Positions /\ uCurrent \in Positions
    BY <1>1, <1>7 DEF InterpolateStageVelocity, Allocated, Cycling
  <2>2. Stage \in {"half", "new"} /\ StageFluid \in Positions
    BY <2>1, TermTypes DEF Stage, StageFluid
  <2>3. X'["new"] = X["new"]
    BY <1>1, <1>7, <2>1, <2>2, InterpolateStep DEF InterpolateStageVelocity
  <2> QED BY <1>2, <1>7, <2>3 DEF InterpolateStageVelocity, control, Seen, Guess, Stepping, Cycling
<1>8. CASE Terminated \/ UNCHANGED vars
  BY <1>8 DEF Terminated, vars, control, position, velocity, fluid, Seen, Guess, Stepping
<1> QED BY <1>3, <1>4, <1>5, <1>6, <1>7, <1>8 DEF Next

\* Whatever is cached, exchanged, redistributed or restarted in between, the
\* integrator computes the steps of the fixed-point iteration
\* (ImplementsScheme).
THEOREM SchemeImplemented == Spec => ImplementsScheme
<1>1. IInv /\ [Next]_vars => [Abstract!SNext]_(Abstract!svars)
  <2> SUFFICES ASSUME IInv, [Next]_vars, ~UNCHANGED Abstract!svars PROVE Abstract!SNext
    OBVIOUS
  <2>1. PredictPositions \/ UpdatePositions \/ PostprocessIntegrateHierarchy
    BY OthersHidden, Hidden
  <2> QED BY <2>1, PredictBegins, UpdateCycles, PostprocessEnds DEF Abstract!SNext
<1> QED BY <1>1, InitImplements, Invariant, PTL DEF Spec, ImplementsScheme, Abstract!SSpec
=============================================================================
