----------------------------- MODULE ChoicePage -----------------------------
(***************************************************************************)
(* The page on which the user of a Model R moves through choices with the   *)
(* left and the right button and selects one with both:                     *)
(* core/embed/rust/src/ui/model_tr/component/input_methods/choice.rs, with  *)
(* the AutomaticMover of button_controller.rs.                              *)
(*                                                                          *)
(* A page is a record that belongs to the PIN, passphrase, word or number   *)
(* entry around it.  An operation yields the page after the event and the   *)
(* choice that event() returns to the entry, if any.                        *)
(***************************************************************************)
EXTENDS ButtonController, ChoiceFactories, Integers

\* AutomaticMover: timer tells whether the timer of its token is pending, moved
\* whether auto_moved_screens > 0.
MoverType == [dir : PhysicalButton \cup {"None"}, moved : BOOLEAN, timer : BOOLEAN]

new_mover == [dir |-> "None", moved |-> FALSE, timer |-> FALSE]
start_moving(b) == [dir |-> b, moved |-> FALSE, timer |-> TRUE]
stop_moving(m) == [m EXCEPT !.dir = "None", !.timer = FALSE]
is_moving(m) == m.dir # "None"

mover_event_requests_no_timer(m) == [m EXCEPT !.moved = TRUE, !.timer = FALSE]

\* event() for its own token: a new timer is requested.
mover_event(m) == [m EXCEPT !.moved = TRUE]

----------------------------------------------------------------------------
\* ChoicePage::new with with_initial_page_counter and with_carousel.
new_page(choices, page, is_carousel) ==
    [choices |-> choices, page |-> page, is_carousel |-> is_carousel,
     buttons |-> new_controller(btn_layout(choices, page), TRUE),
     holding |-> new_mover, animation |-> new_mover, steps |-> 0]

\* update: the buttons are those of the current item.
update(g) == [g EXCEPT !.buttons = set(@, btn_layout(g.choices, g.page))]

\* reset leaves the movers alone.
reset(g, choices, page, is_carousel) ==
    update([g EXCEPT !.choices = choices, !.page = page, !.is_carousel = is_carousel])

last_page_index(g) == count(g.choices) - 1

move_left(g) ==
    IF g.page > 0 THEN update([g EXCEPT !.page = @ - 1])
    ELSE IF g.is_carousel THEN update([g EXCEPT !.page = last_page_index(g)])
    ELSE g

move_right_past_end(g) ==
    IF g.page <= last_page_index(g) THEN [g EXCEPT !.page = @ + 1] ELSE g

move_right(g) ==
    IF g.page < last_page_index(g) THEN update([g EXCEPT !.page = @ + 1])
    ELSE IF g.is_carousel THEN update([g EXCEPT !.page = 0])
    ELSE g

Move(g, b) == IF b = "Left" THEN move_left(g) ELSE move_right(g)

animated_steps_to_last(g, page) ==
    LET diff == page - g.page
    IN  IF diff \in -3 .. 0 THEN diff + last_page_index(g)
        ELSE IF diff \in 1 .. 3 THEN diff - last_page_index(g)
        ELSE diff

\* How far, and in which direction, set_page_counter animates: a short way is
\* replaced by the long way round.
animated_steps(g, page) ==
    LET diff == page - g.page
    IN  IF diff \in -3 .. 0 THEN diff + count(g.choices)
        ELSE IF diff \in 1 .. 3 THEN diff - count(g.choices)
        ELSE diff

\* set_page_counter with do_animation
set_page_counter(g, page) ==
    LET steps == animated_steps(g, page)
    IN  [g EXCEPT !.steps = steps,
                  !.animation = start_moving(IF steps > 0 THEN "Right" ELSE "Left")]

----------------------------------------------------------------------------
(* ChoicePage::event *)

NoChoice == [action |-> "None", long |-> FALSE]
Chosen(g, long) == [action |-> action(g.choices, g.page), long |-> long]
PageOutcome(g, choice) == [page |-> g, choice |-> choice]

\* animation_event, when the event is not the timer of the animation: the
\* movement ends with the first event after the last step.
animation_event(g) ==
    IF g.steps = 0 THEN [g EXCEPT !.animation = stop_moving(@)] ELSE g

\* Events are ignored during an automatic movement as well.
Ignoring_when_holding(g) ==
    (is_moving(g.animation) /\ g.steps # 0) \/ (is_moving(g.holding) /\ g.holding.moved)

\* "When animation is running, ignoring all user events"
Ignoring(g) == is_moving(g.animation) /\ g.steps # 0

Stops_only_on_release(g, m) ==
    is_moving(g.holding) /\ m.of = "Triggered" /\ m.pos = g.holding.dir

\* The holding mover stops when its button is released or when another one is
\* pressed.
Stops(g, m) ==
    /\ is_moving(g.holding)
    /\ \/ m.of = "Triggered" /\ m.pos = g.holding.dir
       \/ m.of = "Pressed" /\ m.pos # g.holding.dir

Starts(g, m) == ~is_moving(g.holding) /\ m.of = "Pressed" /\ m.pos \in PhysicalButton

Mover(g, m) ==
    IF Stops(g, m) THEN stop_moving(g.holding)
    ELSE IF Starts(g, m) THEN start_moving(m.pos)
    ELSE g.holding

\* What the page makes of the outcome o of buttons.event().
React(g, o) ==
    LET m == o.msg
        h == [g EXCEPT !.buttons = o.buttons, !.holding = Mover(g, m)]
    IN  CASE Stops(g, m) /\ g.holding.moved -> PageOutcome(h, NoChoice)
          [] ~(Stops(g, m) /\ g.holding.moved) /\ m.of = "Triggered" ->
                IF m.pos = "Middle" THEN PageOutcome(h, Chosen(h, m.long))
                ELSE PageOutcome(Move(h, m.pos), NoChoice)
          [] m = LongPressed("Middle") /\ without_release(h.choices, h.page) ->
                PageOutcome([h EXCEPT !.buttons = reset_state(@)], Chosen(h, TRUE))
          [] OTHER -> PageOutcome(h, NoChoice)

\* An event that the animation does not take goes to the buttons, which answer
\* with one of outcomes.
ToButtons(g, outcomes) ==
    IF Ignoring(g) THEN {PageOutcome(g, NoChoice)}
    ELSE {React(animation_event(g), o) : o \in outcomes}

PagePress(g, b) == ToButtons(g, ButtonPressed(g.buttons, b))
PageRelease(g, b) == ToButtons(g, ButtonReleased(g.buttons, b))

\* A timer that fires while events are ignored is gone.
PageClickTimer(g, b) ==
    LET lost == [g EXCEPT !.buttons.clickTimer = @ \ {b}]
    IN  IF Ignoring(g) THEN {PageOutcome(lost, NoChoice)}
        ELSE ToButtons(g, ClickTimer(g.buttons, b))

PageLongTimer(g) ==
    LET lost == [g EXCEPT !.buttons.longTimer = "None"]
    IN  IF Ignoring(g) THEN {PageOutcome(lost, NoChoice)}
        ELSE ToButtons(g, LongTimer(g.buttons))

PageHoldingTimer(g) ==
    LET h == animation_event(g)
    IN  IF Ignoring(g) THEN PageOutcome([g EXCEPT !.holding.timer = FALSE], NoChoice)
        ELSE PageOutcome(Move([h EXCEPT !.holding = mover_event(@)], h.holding.dir), NoChoice)

PageAnimationTimer(g) ==
    IF g.steps = 0 THEN PageOutcome(animation_event(g), NoChoice)
    ELSE PageOutcome(Move([g EXCEPT !.animation = mover_event(@),
                                    !.steps = IF @ > 0 THEN @ - 1 ELSE @ + 1],
                          g.animation.dir), NoChoice)
=============================================================================
