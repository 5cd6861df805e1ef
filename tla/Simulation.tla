----------------------------- MODULE Simulation -----------------------------
(***************************************************************************)
(* Running a model: for every sample the time steps are started one after  *)
(* the other by a loop that does not wait for their results.  A time step  *)
(* yields a state that becomes ready at some later time, in any order.     *)
(* Continuations attached to the states report to a sliding semaphore,     *)
(* which stops the loop when it gets too far ahead.                        *)
(***************************************************************************)
EXTENDS Integers, FiniteSets

CONSTANTS
    NrSamples,      \* the number of samples, 1 for a deterministic run
    NrTimeSteps,    \* the number of time steps of a sample
    RateLimit       \* the number of time steps in flight; 0 is no limit

ASSUME CountsAssumption ==
    /\ NrSamples \in Nat \ {0}
    /\ NrTimeSteps \in Nat
    /\ RateLimit \in Nat

VARIABLES
    sample,     \* the current sample
    pc,         \* what the running thread does next
    timeStep,   \* the last time step that was started
    finished,   \* the time steps whose state is ready
    signalled,  \* the last time step whose signaller ran
    lower       \* the lower limit of the semaphore

vars == <<sample, pc, timeStep, finished, signalled, lower>>

TimeSteps == 1 .. NrTimeSteps

Limit == IF RateLimit > 0 THEN RateLimit ELSE NrTimeSteps

(* The rate limit minus one.                                               *)
MaxDifferenceUnadjusted == Limit        \* a mutant: nothing is subtracted

MaxDifference == Limit - 1

Init ==
    /\ sample = 1
    /\ pc = "initialize"
    /\ timeStep = 0
    /\ finished = {}
    /\ signalled = 0
    /\ lower = 1

-----------------------------------------------------------------------------
(* preprocess and initialize.  A run without time steps is finalized at    *)
(* once, else simulate creates a semaphore whose lower limit is the first  *)
(* time step.                                                              *)
Initialize ==
    /\ pc = "initialize"
    /\ pc' = IF NrTimeSteps > 0 THEN "start" ELSE "finalize"
    /\ timeStep' = 0
    /\ finished' = {}
    /\ signalled' = 0
    /\ lower' = 1
    /\ UNCHANGED sample

(* Start the next time step and attach a signaller to its state.           *)
Start ==
    /\ pc = "start"
    /\ pc' = "wait"
    /\ timeStep' = timeStep + 1
    /\ UNCHANGED <<sample, finished, signalled, lower>>

(* The state of a time step that was started becomes ready.                *)
FinishTimeStep(t) ==
    /\ t \in 1 .. timeStep
    /\ t \notin finished
    /\ finished' = finished \cup {t}
    /\ UNCHANGED <<sample, pc, timeStep, signalled, lower>>

(* attach_signaller: a signaller runs once the state of its own time step  *)
(* is ready, after the signaller of the time step before it.               *)
MaySignalAny(t) == signalled < t /\ t \in finished      \* a mutant: not chained

MaySignalBehindFirst(t) ==      \* a mutant: waits for a state before the first one
    /\ signalled = t - 1
    /\ {t, t - 1} \subseteq finished

MaySignal(t) == signalled = t - 1 /\ t \in finished

RaisedTo(limit) == IF limit > lower THEN limit ELSE lower

SignalNext(t) ==                \* a mutant: frees one time step too many
    /\ MaySignal(t)
    /\ signalled' = t
    /\ lower' = RaisedTo(t + 1)
    /\ UNCHANGED <<sample, pc, timeStep, finished>>

Signal(t) ==
    /\ MaySignal(t)
    /\ signalled' = t
    /\ lower' = RaisedTo(t)
    /\ UNCHANGED <<sample, pc, timeStep, finished>>

(* Wait at the semaphore, then report to the progressor.                   *)
MayProceed == timeStep - MaxDifference <= lower

Proceed ==
    /\ pc = "wait"
    /\ MayProceed
    /\ pc' = IF timeStep = NrTimeSteps THEN "last" ELSE "start"
    /\ UNCHANGED <<sample, timeStep, finished, signalled, lower>>

(* Behind the last time step: wait for its signaller, and therefore for    *)
(* all of them.                                                            *)
LastStateFinished == NrTimeSteps \in finished   \* a mutant: waits for the state only

LastStateReady == signalled = NrTimeSteps

WaitForLastState ==
    /\ pc = "last"
    /\ LastStateReady
    /\ pc' = "finalize"
    /\ UNCHANGED <<sample, timeStep, finished, signalled, lower>>

(* finalize and postprocess, then the next sample.                         *)
Finalize ==
    /\ pc = "finalize"
    /\ IF sample < NrSamples
       THEN sample' = sample + 1 /\ pc' = "initialize"
       ELSE pc' = "done" /\ UNCHANGED sample
    /\ UNCHANGED <<timeStep, finished, signalled, lower>>

Terminated == pc = "done" /\ UNCHANGED vars

Loop == Initialize \/ Start \/ Proceed \/ WaitForLastState \/ Finalize

Next ==
    \/ Loop
    \/ \E t \in TimeSteps : FinishTimeStep(t) \/ Signal(t)
    \/ Terminated

(* Every state becomes ready, and the runtime runs what can run.           *)
Fairness ==
    /\ WF_vars(Loop)
    /\ \A t \in TimeSteps : WF_vars(FinishTimeStep(t)) /\ WF_vars(Signal(t))

Spec == Init /\ [][Next]_vars /\ Fairness

-----------------------------------------------------------------------------
InFlight == (1 .. timeStep) \ finished

TypeOK ==
    /\ sample \in 1 .. NrSamples
    /\ pc \in {"initialize", "start", "wait", "last", "finalize", "done"}
    /\ timeStep \in 0 .. NrTimeSteps
    /\ finished \subseteq 1 .. timeStep
    /\ signalled \in 0 .. timeStep
    /\ lower \in {1} \cup 1 .. timeStep

(* The semaphore never overestimates: every time step up to the last       *)
(* signal is finished, although time steps finish in any order.            *)
SignalledIsFinished == 1 .. signalled \subseteq finished

(* What the semaphore guarantees.  From the first signal on at most Limit  *)
(* time steps are in flight; before it there may be one more, because the  *)
(* semaphore starts as if the first time step was finished.                *)
InFlightBounded ==
    Cardinality(InFlight) <= IF signalled = 0 THEN Limit + 1 ELSE Limit

(* A model is finalized, and the semaphore is gone, only when no time step *)
(* of the sample is in flight and no signaller is left to use the          *)
(* semaphore.                                                              *)
NothingOutlivesSimulate ==
    pc \in {"finalize", "done"} =>
        /\ InFlight = {}
        /\ signalled = NrTimeSteps

(* Every sample is run to its end, whatever the rate limit: the loop never *)
(* waits for a time step that it has yet to start.                         *)
EventuallyDone == <>(pc = "done")
=============================================================================
