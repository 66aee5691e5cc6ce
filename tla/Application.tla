---------------------------- MODULE Application ----------------------------
(***************************************************************************)
(* Application::OnFrame, the loop that composes the parts of a frame: the  *)
(* gui's new frame, the systems' update (the clock of the 2D physics), the *)
(* sweep of the framebuffers, the drawing, and the poll of the window,     *)
(* whose events resize the render targets, reach Input or close.           *)
(***************************************************************************)
EXTENDS RenderTargets

CONSTANTS
    KeyboardKeys, Buttons, Unnamed, Code, Modifiers, Escape,
    UpdateTimestep, MaxUpdatesPerFrame,
    DeltaTimes   \* bound: the times a frame may take

ASSUME DeltaTimesAssumption == DeltaTimes \subseteq Nat

VARIABLES
    state,       \* m_CurrentState
    updated,     \* the systems have been updated in this frame
    down, held, pressed, keysDown, keyCtrl, wantText, last, taken, dropped,  \* Input
    accum, stepping, updates, budget                                \* FixedSteps

targets == <<phase, minimized, gbuffer, surface, cache, framebuffers, resizes,
             seen, returned, outOfDate>>
input == <<down, held, pressed, keysDown, keyCtrl, wantText, last, taken, dropped>>
clock == <<accum, stepping, updates, budget>>
loop == <<state, updated>>
allVars == <<loop, targets, input, clock>>

Keyboard == INSTANCE Input
Clock == INSTANCE FixedSteps

ASSUME KeyboardAssumption == Keyboard!Parameters
ASSUME ClockAssumption == Clock!Parameters

-----------------------------------------------------------------------------

OnInit ==
    /\ Init
    /\ Keyboard!Init
    /\ Clock!Init
    /\ state = "Running"
    /\ updated = FALSE

(* The start of OnFrame: a scene switch may set the physics to its defaults, the gui  *)
(* makes a new frame, and the systems are updated, unless the editor or the engine is *)
(* paused.                                                                            *)
BeginFrame ==
    /\ phase = "update"
    /\ ~updated
    /\ state # "Closing"
    /\ updated' = TRUE
    /\ Keyboard!NewFrame
    /\ \/ \E deltaTime \in DeltaTimes : Clock!OnUpdate(deltaTime)
       \/ Clock!SetDefaults
       \/ UNCHANGED clock
    /\ UNCHANGED <<targets, state>>

UpdateSystems ==
    /\ Clock!StepWorld \/ Clock!Finish
    /\ UNCHANGED <<targets, input, loop>>

(* The rest of OnUpdate. *)
EndOnUpdate ==
    /\ updated
    /\ ~stepping
    /\ Update
    /\ UNCHANGED <<input, clock, loop>>

BeginRender ==
    /\ Acquire \/ \E address \in Addresses : AcquireOutOfDate(address)
    /\ UNCHANGED <<input, clock, loop>>

(* After the drawing Input forgets what was pressed, and the window is polled. *)
Poll ==
    /\ SkipRender \/ Draw
    /\ Keyboard!ResetPressed
    /\ UNCHANGED <<clock, loop>>

(* Application::OnEvent. *)
OnWindowResize ==
    /\ \/ \E width \in Sizes, address \in Addresses : Resize(width, address)
       \/ Minimise
    /\ UNCHANGED <<input, clock, loop>>

OnWindowClose ==
    /\ phase = "poll"
    /\ state' = "Closing"
    /\ UNCHANGED <<targets, input, clock, updated>>

OnInput ==
    /\ phase = "poll"
    /\ Keyboard!Event
    /\ UNCHANGED <<targets, clock, loop>>

(* OnFrame ends: Escape closes. *)
EndOnFrame ==
    /\ EndFrame
    /\ updated' = FALSE
    /\ state' = IF Escape \in pressed THEN "Closing" ELSE state
    /\ UNCHANGED <<input, clock>>

(* Run returns. *)
Closed ==
    /\ state = "Closing"
    /\ phase = "update"
    /\ UNCHANGED allVars

OnFrame ==
    \/ BeginFrame
    \/ UpdateSystems
    \/ EndOnUpdate
    \/ BeginRender
    \/ Poll
    \/ OnWindowResize
    \/ OnWindowClose
    \/ OnInput
    \/ EndOnFrame
    \/ Closed

Run == OnInit /\ [][OnFrame]_allVars

-----------------------------------------------------------------------------

(* The parts are of their types, and the clock's loop runs only in an update. *)
AllTypesOK ==
    /\ TypeOK
    /\ Keyboard!TypeOK
    /\ Clock!TypeOK
    /\ state \in {"Running", "Closing"}
    /\ stepping => updated /\ phase = "update"

(* What an update reads: no code sticks, or is lost but to the gui or to another input *)
(* of the same code.                                                                   *)
HeldIsDown == Keyboard!HeldIsDown

(* The gui's keys are the codes of what is down and has not been dropped. *)
GuiKeysAreDown == Keyboard!GuiKeysAreDown

(* An update reads as pressed what the poll before it has pressed last. *)
PressedIsLast == phase = "update" => Keyboard!PressedIsLast

(* A frame of the 2D physics neither makes time nor loses what it could do. *)
KeepsPace == Clock!KeepsPace
=============================================================================
