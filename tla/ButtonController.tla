-------------------------- MODULE ButtonController --------------------------
(***************************************************************************)
(* The state machine that turns presses of the two hardware buttons of the  *)
(* Model R into presses of three logical buttons:                           *)
(* core/embed/rust/src/ui/model_tr/component/button_controller.rs, with     *)
(* the loader of a hold-to-confirm button (hold_to_confirm.rs, loader.rs).  *)
(*                                                                          *)
(* A controller is a record that belongs to a screen.  The screen calls     *)
(* event(), looks at the message that it returns and may call set() or      *)
(* reset_state() while it handles the same event, so the operations are     *)
(* operators on the record; event() yields the set of possible outcomes.    *)
(*                                                                          *)
(* Time is abstracted: a timer that was requested may fire at any later     *)
(* moment, before or after any other one.  A token that nobody holds any    *)
(* more matches nothing.                                                    *)
(***************************************************************************)
EXTENDS Naturals

PhysicalButton == {"Left", "Right"}
ButtonPos == {"Left", "Middle", "Right"}
Other(b) == IF b = "Left" THEN "Right" ELSE "Left"

\* ButtonType, with "LongPress" for a Button whose details say send_long_press.
ButtonType == {"Nothing", "Button", "LongPress", "HoldToConfirm"}
LoaderState == {"Initial", "Growing", "Shrinking", "Grown"}

Nothing == [at |-> "Nothing", which |-> "None"]
OneDown(b) == [at |-> "OneDown", which |-> b]
BothDown == [at |-> "BothDown", which |-> "None"]
OneReleased(b) == [at |-> "OneReleased", which |-> b]
HTCNeedsRelease(b) == [at |-> "HTCNeedsRelease", which |-> b]

ButtonState ==
    {Nothing, BothDown} \cup
    [at : {"OneDown", "OneReleased", "HTCNeedsRelease"}, which : PhysicalButton]

ControllerType ==
    [state : ButtonState,
     btn : [ButtonPos -> ButtonType],           \* left_btn, middle_btn, right_btn
     delayed : BOOLEAN,                         \* is there an ignore_btn_delay
     clickable : SUBSET PhysicalButton,
     clickTimer : SUBSET PhysicalButton,        \* pending clickable timers
     longTimer : ButtonPos \cup {"None"},       \* whose long_pressed_timer is pending
     loader : [ButtonPos -> LoaderState],
     frame : BOOLEAN]                           \* an animation frame was requested

NoMsg == [of |-> "None", pos |-> "None", long |-> FALSE]
Pressed(p) == [of |-> "Pressed", pos |-> p, long |-> FALSE]
Triggered(p, long) == [of |-> "Triggered", pos |-> p, long |-> long]
LongPressed(p) == [of |-> "LongPressed", pos |-> p, long |-> FALSE]
ReleasedWithoutLongPress(p) ==
    [of |-> "ReleasedWithoutLongPress", pos |-> p, long |-> FALSE]

Outcome(c, m) == [buttons |-> c, msg |-> m]

NoLoaders == [p \in ButtonPos |-> "Initial"]

\* ButtonController::new and with_ignore_btn_delay
new_controller(layout, delayed) ==
    [state |-> Nothing, btn |-> layout, delayed |-> delayed,
     clickable |-> PhysicalButton, clickTimer |-> {}, longTimer |-> "None",
     loader |-> NoLoaders, frame |-> FALSE]

\* ButtonController::set makes new buttons; what they know of a press stays.
set(c, layout) == [c EXCEPT !.btn = layout, !.loader = NoLoaders]

handle_middle_button(c) == c.btn["Middle"] # "Nothing"

reset_state_keeps_state(c) ==
    [c EXCEPT !.longTimer = "None", !.clickable = PhysicalButton, !.clickTimer = {}]

\* ButtonController::reset_state
reset_state(c) ==
    [c EXCEPT !.state = Nothing, !.longTimer = "None",
              !.clickable = PhysicalButton, !.clickTimer = {}]

----------------------------------------------------------------------------
(* ButtonContainer, HoldToConfirm and IgnoreButtonDelay *)

\* reset_button_presses, then got_pressed of the one that is pressed now.
got_pressed(c, p) ==
    [c EXCEPT !.longTimer = IF c.btn[p] = "LongPress" THEN p ELSE "None"]

IsHTC(c, p) == c.btn[p] = "HoldToConfirm"
is_animating(c, p) == IsHTC(c, p) /\ c.loader[p] \in {"Growing", "Shrinking"}

hold_started(c, p) ==
    IF IsHTC(c, p) THEN [c EXCEPT !.loader[p] = "Growing", !.frame = TRUE] ELSE c

hold_ended(c, p) ==
    IF is_animating(c, p) THEN [c EXCEPT !.loader[p] = "Shrinking"] ELSE c

middle_hold_started(c) ==
    hold_ended(hold_started(hold_ended(c, "Left"), "Middle"), "Right")

\* Whether a button that is released was held for longer than long_press_ms is
\* a matter of time, hence either.
maybe_trigger(c, p) ==
    CASE c.btn[p] \in {"Button", "LongPress"} ->
            {Outcome([c EXCEPT !.longTimer = IF c.longTimer = p THEN "None" ELSE @],
                     Triggered(p, long)) : long \in BOOLEAN}
      [] IsHTC(c, p) -> {Outcome(hold_ended(c, p), ReleasedWithoutLongPress(p))}
      [] c.btn[p] = "Nothing" -> {Outcome(c, NoMsg)}

make_button_clickable_keeps_timer(c, bs) == [c EXCEPT !.clickable = @ \cup bs]

make_button_clickable(c, bs) ==
    [c EXCEPT !.clickable = @ \cup bs, !.clickTimer = @ \ bs]

\* handle_button_press: the other button becomes unclickable after a delay.
handle_button_press(c, b) ==
    IF c.delayed THEN [c EXCEPT !.clickTimer = @ \cup {Other(b)}] ELSE c

----------------------------------------------------------------------------
(* ButtonController::event *)

To(c, s) == [c EXCEPT !.state = s]

ButtonPressed(c, b) ==
    CASE c.state = Nothing ->
            {Outcome(To(hold_started(got_pressed(handle_button_press(c, b), b), b), OneDown(b)),
                     Pressed(b))}
      [] c.state = OneDown(Other(b)) /\ b \notin c.clickable ->
            {Outcome(c, NoMsg)}
      [] c.state = OneDown(Other(b)) /\ b \in c.clickable /\ handle_middle_button(c) ->
            {Outcome(To(middle_hold_started(got_pressed(c, "Middle")), BothDown),
                     Pressed("Middle"))}
      [] c.state = OneDown(Other(b)) /\ b \in c.clickable /\ ~handle_middle_button(c) ->
            {Outcome(To(got_pressed(c, b), BothDown), Pressed(b))}
      [] c.state = OneReleased(b) ->
            {Outcome(To(middle_hold_started(c), BothDown), NoMsg)}
      [] OTHER -> {Outcome(c, NoMsg)}

ButtonReleased(c, b) ==
    CASE c.state = OneDown(b) ->
            maybe_trigger(To(make_button_clickable(c, {Other(b)}), Nothing), b)
      [] c.state = BothDown ->
            {Outcome(To(hold_ended(c, "Middle"), OneReleased(b)),
                     IF handle_middle_button(c) THEN NoMsg ELSE Triggered(b, FALSE))}
      [] c.state = OneReleased(Other(b)) /\ handle_middle_button(c) ->
            maybe_trigger(To(make_button_clickable(c, PhysicalButton), Nothing), "Middle")
      [] c.state = OneReleased(Other(b)) /\ ~handle_middle_button(c) ->
            {Outcome(To(make_button_clickable(c, PhysicalButton), Nothing), Triggered(b, FALSE))}
      [] c.state = HTCNeedsRelease(b) -> {Outcome(To(c, Nothing), NoMsg)}
      [] OTHER -> {Outcome(c, NoMsg)}

\* IgnoreButtonDelay::handle_timer_token
ClickTimer(c, b) ==
    {Outcome([c EXCEPT !.clickTimer = @ \ {b}, !.clickable = @ \ {b}], NoMsg)}

\* handle_long_press_timer_token
LongTimer(c) == {Outcome([c EXCEPT !.longTimer = "None"], LongPressed(c.longTimer))}

\* An animation frame finds every loader on its way, except for some that have
\* shrunk completely.
NotYet(c, ps) ==
    {LET d == [c EXCEPT !.loader = [p \in ButtonPos |-> IF p \in ended THEN "Initial"
                                                        ELSE c.loader[p]]]
     IN  [d EXCEPT !.frame = \E p \in ps : is_animating(d, p)] :
        ended \in SUBSET {p \in ps : IsHTC(c, p) /\ c.loader[p] = "Shrinking"}}

\* handle_htc_expiration asks left, middle and right in this order and stops at
\* the first one whose hold is complete.
AskedBefore(p) ==
    CASE p = "Left" -> {} [] p = "Middle" -> {"Left"} [] p = "Right" -> {"Left", "Middle"}

FrameTimer(c) ==
    {Outcome(d, NoMsg) : d \in NotYet(c, ButtonPos)} \cup
    UNION {{Outcome([d EXCEPT !.loader[p] = "Grown",
                              !.state = IF p = "Middle" THEN Nothing ELSE HTCNeedsRelease(p)],
                    Triggered(p, TRUE)) : d \in NotYet(c, AskedBefore(p))} :
              p \in {q \in ButtonPos : IsHTC(c, q) /\ c.loader[q] = "Growing"}}
=============================================================================
