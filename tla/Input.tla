------------------------------- MODULE Input -------------------------------
(***************************************************************************)
(* Keys and mouse buttons, from the callbacks of the window to what an     *)
(* update of the game reads: the window converts each key and button to a  *)
(* code and calls Application::OnEvent, the gui takes a press while text   *)
(* is typed into it, and Input keeps what it is told.  Several keys and    *)
(* several buttons have one code: Input and the gui know codes only.       *)
(***************************************************************************)

CONSTANTS
    KeyboardKeys, Buttons,   \* what is on the desk
    Unnamed,                 \* the keys the window library has no name for
    Code,                    \* the code that stands for a key or a button
    Modifiers,               \* the codes of the control keys
    Escape

Inputs == KeyboardKeys \cup Buttons

Codes(S) == {Code[i] : i \in S}

Parameters ==
    /\ KeyboardKeys \cap Buttons = {}
    /\ Unnamed \subseteq KeyboardKeys
    /\ Codes(KeyboardKeys) \cap Codes(Buttons) = {}
    /\ Modifiers \cap Codes(Buttons) = {}

VARIABLES
    down,       \* what the window has reported pressed, and not released since
    held,       \* m_KeyHeld, m_MouseHeld
    pressed,    \* m_KeyPressed, m_MouseClicked
    keysDown,   \* io.KeysDown, io.MouseDown
    keyCtrl,    \* io.KeyCtrl
    wantText,   \* io.WantTextInput
    \* History: the last event of each code that reached Input since ResetPressed; what is
    \* down and Input knows nothing of, for the gui took each press of it; what is down and
    \* was dropped, for another input of its code was released after it was pressed.
    last, taken, dropped

vars == <<down, held, pressed, keysDown, keyCtrl, wantText, last, taken, dropped>>

Init ==
    /\ down = {}
    /\ held = {}
    /\ pressed = {}
    /\ keysDown = {}
    /\ keyCtrl = FALSE
    /\ wantText = FALSE
    /\ last = [c \in Codes(Inputs) |-> "none"]
    /\ taken = {}
    /\ dropped = {}

(* ImGui::NewFrame decides whether a field of the gui takes text. *)
NewFrame ==
    /\ wantText' \in BOOLEAN
    /\ UNCHANGED <<down, held, pressed, keysDown, keyCtrl, last, taken, dropped>>

\* Faulty: nothing is forgotten.
ResetPressedNever ==
    /\ last' = [c \in Codes(Inputs) |-> "none"]
    /\ UNCHANGED <<down, held, pressed, keysDown, keyCtrl, wantText, taken, dropped>>

(* Input::ResetPressed, before the window is polled. *)
ResetPressed ==
    /\ pressed' = {}
    /\ last' = [c \in Codes(Inputs) |-> "none"]
    /\ UNCHANGED <<down, held, keysDown, keyCtrl, wantText, taken, dropped>>

GuiTakes(c) == c \in Codes(KeyboardKeys) /\ wantText

\* Faulty: the gui takes a press before it looks at the control keys.
OnKeyPressedEarly(c, repeat) ==
    /\ keysDown' = keysDown \cup {c}
    /\ keyCtrl' = IF c \in Codes(KeyboardKeys) /\ ~GuiTakes(c)
                  THEN keysDown' \cap Modifiers # {} ELSE keyCtrl
    /\ held' = IF GuiTakes(c) THEN held ELSE held \cup {c}
    /\ pressed' = IF GuiTakes(c) THEN pressed
                  ELSE IF repeat THEN pressed \ {c}
                  ELSE pressed \cup {c}

(* A press or a repeat, by the gui's handler and then by Input's. *)
OnKeyPressed(c, repeat) ==
    /\ keysDown' = keysDown \cup {c}
    /\ keyCtrl' = IF c \in Codes(KeyboardKeys) THEN keysDown' \cap Modifiers # {} ELSE keyCtrl
    /\ held' = IF GuiTakes(c) THEN held ELSE held \cup {c}
    /\ pressed' = IF GuiTakes(c) THEN pressed
                  ELSE IF repeat THEN pressed \ {c}
                  ELSE pressed \cup {c}

\* Faulty: the gui takes a release as it takes a press.
OnKeyReleasedTaken(c) ==
    /\ keysDown' = keysDown \ {c}
    /\ held' = IF GuiTakes(c) THEN held ELSE held \ {c}
    /\ pressed' = IF GuiTakes(c) THEN pressed ELSE pressed \ {c}
    /\ UNCHANGED keyCtrl

(* A release: the gui does not take it, and does not look at the modifiers. *)
OnKeyReleased(c) ==
    /\ keysDown' = keysDown \ {c}
    /\ held' = held \ {c}
    /\ pressed' = pressed \ {c}
    /\ UNCHANGED keyCtrl

(* What is remembered of a press or a repeat that the gui took or left to Input. *)
Remember(i, kind) ==
    /\ dropped' = dropped \ {i}
    /\ \/ /\ GuiTakes(Code[i])
          /\ taken' = IF i \in down \ dropped THEN taken ELSE taken \cup {i}
          /\ last' = last
       \/ /\ ~GuiTakes(Code[i])
          /\ taken' = taken \ {i}
          /\ last' = [last EXCEPT ![Code[i]] = kind]

(* The window library lets through the release of what it has not seen pressed, and the *)
(* second press of what it has not seen released, for these alone.                      *)
Unfiltered == Unnamed \cup Buttons

(* The callbacks of the window. *)
Press(i) ==
    /\ i \in down => i \in Unfiltered
    /\ down' = down \cup {i}
    /\ OnKeyPressed(Code[i], FALSE)
    /\ Remember(i, "press")
    /\ UNCHANGED wantText

Repeat(i) ==
    /\ i \in (down \cap KeyboardKeys) \ Unnamed
    /\ OnKeyPressed(Code[i], TRUE)
    /\ Remember(i, "repeat")
    /\ UNCHANGED <<down, wantText>>

Release(i) ==
    /\ i \in down \cup Unfiltered
    /\ down' = down \ {i}
    /\ OnKeyReleased(Code[i])
    /\ last' = [last EXCEPT ![Code[i]] = "release"]
    /\ LET others == {j \in down' : Code[j] = Code[i]}
       IN  /\ taken' = taken \ ({i} \cup others)
           /\ dropped' = (dropped \ {i}) \cup others
    /\ UNCHANGED wantText

Event == \E i \in Inputs : Press(i) \/ Repeat(i) \/ Release(i)

-----------------------------------------------------------------------------

(* An input is dropped only if it shares its code with another. *)
TypeOK ==
    /\ down \subseteq Inputs
    /\ held \subseteq Codes(Inputs)
    /\ pressed \subseteq Codes(Inputs)
    /\ keysDown \subseteq Codes(Inputs)
    /\ keyCtrl \in BOOLEAN
    /\ wantText \in BOOLEAN
    /\ last \in [Codes(Inputs) -> {"none", "press", "repeat", "release"}]
    /\ taken \subseteq down
    /\ dropped \subseteq down \ taken
    /\ \A i \in dropped : \E j \in Inputs \ {i} : Code[j] = Code[i]

(* No code sticks, and none is lost but to the gui or to another input of the same   *)
(* code: whatever the gui takes, while the text field it belongs to comes and goes   *)
(* between a press, its repeats and the release, Input holds the codes of what is    *)
(* down, was reported once and has not been dropped since.                           *)
HeldIsDown == held = Codes(down \ (taken \cup dropped))

(* The gui's keys are the codes of what is down and has not been dropped, whatever the *)
(* gui took, and a control key among them is seen as one.                              *)
GuiKeysAreDown ==
    /\ keysDown = Codes(down \ dropped)
    /\ keysDown \cap Modifiers # {} => keyCtrl

(* A code is pressed if the last that Input heard of it in the poll was a press: one    *)
(* update reads it at most, none reads one that is over when the poll returns, and what *)
(* is pressed is held.  It is the code that is pressed: of two keys with one code the   *)
(* release of one is the release of both.                                               *)
PressedIsLast ==
    /\ pressed = {c \in Codes(Inputs) : last[c] = "press"}
    /\ pressed \subseteq held
=============================================================================
