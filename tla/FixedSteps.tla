----------------------------- MODULE FixedSteps -----------------------------
(***************************************************************************)
(* The clock of B2PhysicsEngine::OnUpdate: a frame's time is cut in steps  *)
(* of one length, and what is left is kept for the next frame.  Times are  *)
(* whole ticks.  A frame of a paused engine does nothing.                  *)
(***************************************************************************)
EXTENDS Integers

CONSTANTS
    UpdateTimestep,       \* m_UpdateTimestep
    MaxUpdatesPerFrame    \* max_updates_per_frame

Parameters == UpdateTimestep \in Nat \ {0} /\ MaxUpdatesPerFrame \in Nat \ {0}

VARIABLES
    accum,     \* m_UpdateAccum
    stepping,  \* in the loop of OnUpdate
    updates,   \* its counter
    budget     \* history: the time the loop had at first

vars == <<accum, stepping, updates, budget>>

Init ==
    /\ accum = 0
    /\ stepping = FALSE
    /\ updates = 0
    /\ budget = 0

(* SceneManager::ApplySceneSwitch sets the engine to its defaults. *)
SetDefaults ==
    /\ ~stepping
    /\ accum' = 0
    /\ UNCHANGED <<stepping, updates, budget>>

OnUpdate(deltaTime) ==
    /\ ~stepping
    /\ accum' = accum + deltaTime
    /\ stepping' = TRUE
    /\ updates' = 0
    /\ budget' = accum + deltaTime

MoreUpdates == accum >= UpdateTimestep /\ updates < MaxUpdatesPerFrame

(* One turn of the loop: the world makes a step. *)
StepWorld ==
    /\ stepping
    /\ MoreUpdates
    /\ accum' = accum - UpdateTimestep
    /\ updates' = updates + 1
    /\ UNCHANGED <<stepping, budget>>

\* Faulty: the time that is too much is kept, and grows from frame to frame.
FinishKeeping ==
    /\ stepping
    /\ ~MoreUpdates
    /\ stepping' = FALSE
    /\ updates' = 0
    /\ budget' = 0
    /\ UNCHANGED accum

(* The loop ends: time for which there was no step left is dropped. *)
Finish ==
    /\ stepping
    /\ ~MoreUpdates
    /\ accum' = IF accum >= UpdateTimestep THEN 0 ELSE accum
    /\ stepping' = FALSE
    /\ updates' = 0
    /\ budget' = 0

Next ==
    \/ SetDefaults
    \/ \E deltaTime \in Nat : OnUpdate(deltaTime)
    \/ StepWorld
    \/ Finish

Spec == Init /\ [][Next]_vars

-----------------------------------------------------------------------------

TypeOK ==
    /\ accum \in Nat
    /\ stepping \in BOOLEAN
    /\ updates \in 0 .. MaxUpdatesPerFrame
    /\ budget \in Nat

(* No time is made, and none is lost but what the frame could not do: the steps of a *)
(* frame and what is kept make up the time it had, unless that was more than the     *)
(* loop may do, and a frame leaves less than a step.                                 *)
TimeKept == stepping => updates * UpdateTimestep + accum = budget

LessThanAStepLeft == ~stepping => accum < UpdateTimestep

KeepsPace ==
    [][stepping /\ ~stepping' =>
           LET lost == budget - (updates * UpdateTimestep + accum')
           IN  /\ accum' < UpdateTimestep
               /\ lost >= 0
               /\ lost > 0 => budget >= (MaxUpdatesPerFrame + 1) * UpdateTimestep]_vars

IInv == TypeOK /\ TimeKept /\ LessThanAStepLeft
=============================================================================
