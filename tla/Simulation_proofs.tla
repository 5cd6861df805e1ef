-------------------------- MODULE Simulation_proofs --------------------------
(***************************************************************************)
(* The safety properties of Simulation, for any number of samples and time *)
(* steps and any rate limit.                                               *)
(***************************************************************************)
EXTENDS Simulation, FiniteSetTheorems, TLAPS

(* The semaphore's lower limit is the last signal, or the first time step. *)
LowerIsSignal == lower = IF signalled = 0 THEN 1 ELSE signalled

(* How far the loop can be ahead of the lower limit.                       *)
AheadBounded ==
    /\ timeStep <= lower + Limit
    /\ pc = "start" => timeStep < NrTimeSteps /\ timeStep <= lower + Limit - 1
    /\ pc = "last" => timeStep = NrTimeSteps
    /\ pc \in {"finalize", "done"} => timeStep = NrTimeSteps /\ signalled = NrTimeSteps

IInv == TypeOK /\ SignalledIsFinished /\ LowerIsSignal /\ AheadBounded

LEMMA LimitType ==
    /\ NrSamples \in Nat \ {0} /\ NrTimeSteps \in Nat /\ Limit \in Nat
    /\ NrTimeSteps > 0 => Limit > 0
BY CountsAssumption DEF Limit

(* The inductive invariant holds initially.                                *)
LEMMA InvInit == Init => IInv
BY LimitType DEF Init, IInv, TypeOK, SignalledIsFinished, LowerIsSignal, AheadBounded

(* Every step of the loop, of a time step and of a signaller preserves it. *)
LEMMA InvNext == IInv /\ [Next]_vars => IInv'
<1> SUFFICES ASSUME IInv, [Next]_vars PROVE IInv'
    OBVIOUS
<1> USE LimitType
<1>1. CASE Initialize
    BY <1>1 DEF Initialize, IInv, TypeOK, SignalledIsFinished, LowerIsSignal, AheadBounded
<1>2. CASE Start
    BY <1>2 DEF Start, IInv, TypeOK, SignalledIsFinished, LowerIsSignal, AheadBounded
<1>3. CASE Proceed
    BY <1>3 DEF Proceed, MayProceed, MaxDifference, IInv, TypeOK, SignalledIsFinished,
                LowerIsSignal, AheadBounded
<1>4. CASE WaitForLastState
    BY <1>4 DEF WaitForLastState, LastStateReady, IInv, TypeOK, SignalledIsFinished,
                LowerIsSignal, AheadBounded
<1>5. CASE Finalize
    BY <1>5 DEF Finalize, IInv, TypeOK, SignalledIsFinished, LowerIsSignal, AheadBounded
<1>6. ASSUME NEW t \in TimeSteps, FinishTimeStep(t) PROVE IInv'
    BY <1>6 DEF FinishTimeStep, IInv, TypeOK, SignalledIsFinished, LowerIsSignal, AheadBounded
<1>7. ASSUME NEW t \in TimeSteps, Signal(t) PROVE IInv'
    <2>1. t \in 1 .. timeStep /\ signalled = t - 1 /\ t \in finished
        BY <1>7 DEF Signal, MaySignal, IInv, TypeOK
    <2>2. signalled' = t /\ lower' = t /\ UNCHANGED <<sample, pc, timeStep, finished>>
        BY <1>7, <2>1 DEF Signal, RaisedTo, IInv, TypeOK, LowerIsSignal
    <2>3. TypeOK' /\ LowerIsSignal'
        BY <2>1, <2>2 DEF IInv, TypeOK, LowerIsSignal
    <2>4. SignalledIsFinished'
        BY <2>1, <2>2 DEF IInv, TypeOK, SignalledIsFinished
    <2>5. AheadBounded'
        BY <2>1, <2>2 DEF IInv, TypeOK, LowerIsSignal, AheadBounded
    <2> QED BY <2>3, <2>4, <2>5 DEF IInv
<1>8. CASE UNCHANGED vars
    BY <1>8 DEF vars, IInv, TypeOK, SignalledIsFinished, LowerIsSignal, AheadBounded
<1> QED BY <1>1, <1>2, <1>3, <1>4, <1>5, <1>6, <1>7, <1>8 DEF Next, Loop, Terminated

LEMMA Invariant == Spec => []IInv
BY InvInit, InvNext, PTL DEF Spec

-----------------------------------------------------------------------------
(* All variables keep their types: no time step finishes or signals before *)
(* it was started.                                                         *)
THEOREM TypeCorrect == Spec => []TypeOK
<1>1. IInv => TypeOK
    BY DEF IInv
<1> QED BY <1>1, Invariant, PTL

(* The semaphore is never told that a time step is done that is not.       *)
THEOREM SignalsAreSound == Spec => []SignalledIsFinished
<1>1. IInv => SignalledIsFinished
    BY DEF IInv
<1> QED BY <1>1, Invariant, PTL

(* The number of time steps in flight is at most the rate limit, plus one  *)
(* before the first signal.                                                *)
THEOREM RateIsBounded == Spec => []InFlightBounded
<1>1. IInv => InFlightBounded
    <2> SUFFICES ASSUME IInv PROVE InFlightBounded
        OBVIOUS
    <2>1. InFlight \subseteq signalled + 1 .. timeStep
        BY DEF InFlight, IInv, TypeOK, SignalledIsFinished
    <2>2. /\ IsFiniteSet(signalled + 1 .. timeStep)
          /\ Cardinality(signalled + 1 .. timeStep) = timeStep - signalled
        <3>1. signalled \in Int /\ timeStep \in Int /\ signalled <= timeStep
            BY LimitType DEF IInv, TypeOK
        <3>2. signalled + 1 \in Int
            BY <3>1
        <3>3. /\ IsFiniteSet(signalled + 1 .. timeStep)
              /\ Cardinality(signalled + 1 .. timeStep) =
                    IF signalled + 1 > timeStep THEN 0 ELSE timeStep - (signalled + 1) + 1
            BY <3>1, <3>2, FS_Interval
        <3> QED BY <3>1, <3>3
    <2>3. /\ IsFiniteSet(InFlight)
          /\ Cardinality(InFlight) <= timeStep - signalled
        BY <2>1, <2>2, FS_Subset
    <2>4. Cardinality(InFlight) \in Nat
        BY <2>3, FS_CardinalityType
    <2>5. timeStep - signalled <= IF signalled = 0 THEN Limit + 1 ELSE Limit
        BY LimitType DEF IInv, TypeOK, LowerIsSignal, AheadBounded
    <2> QED BY <2>3, <2>4, <2>5, LimitType DEF InFlightBounded, IInv, TypeOK
<1> QED BY <1>1, Invariant, PTL

(* No time step and no signaller of a sample is left when the sample is    *)
(* finalized, so that none refers to the semaphore that is gone.           *)
THEOREM NothingIsLeft == Spec => []NothingOutlivesSimulate
<1>1. IInv => NothingOutlivesSimulate
    BY LimitType DEF IInv, TypeOK, SignalledIsFinished, AheadBounded, InFlight,
                     NothingOutlivesSimulate
<1> QED BY <1>1, Invariant, PTL
=============================================================================
