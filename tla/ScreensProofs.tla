--------------------------- MODULE ScreensProofs ---------------------------
(***************************************************************************)
(* Theorems about Screens for every number of digits, characters, numbers   *)
(* and pages and every word list: what the controller of the buttons takes  *)
(* for held is held, an animation never swallows half of a press, nothing   *)
(* is chosen twice for one press, and the page moves by itself only while   *)
(* the button is held.  Then, from the contents of the tables: the page     *)
(* counter is always the index of a choice, and every animation ends where  *)
(* it was meant to.                                                         *)
(***************************************************************************)
EXTENDS Screens, FiniteSetTheorems, TLAPS

----------------------------------------------------------------------------
(* The invariant. *)

IsController(c) ==
    c = [state |-> c.state, btn |-> c.btn, delayed |-> c.delayed,
         clickable |-> c.clickable, clickTimer |-> c.clickTimer,
         longTimer |-> c.longTimer, loader |-> c.loader, frame |-> c.frame]

IsMover(m) ==
    /\ m = [dir |-> m.dir, moved |-> m.moved, timer |-> m.timer]
    /\ m.dir \in PhysicalButton \cup {"None"}
    /\ m.timer => is_moving(m)

IsChoicePage(g) ==
    g = [choices |-> g.choices, page |-> g.page, is_carousel |-> g.is_carousel,
         buttons |-> g.buttons, holding |-> g.holding, animation |-> g.animation,
         steps |-> g.steps]

IsButtonPage(p) ==
    p = [page_count |-> p.page_count, active_page |-> p.active_page,
         cancel |-> p.cancel, confirm |-> p.confirm, buttons |-> p.buttons]

\* The buttons that the state s takes for held are among those held down, d.
Held(s, d) ==
    \/ s = Nothing
    \/ \E b \in PhysicalButton : s \in {OneDown(b), HTCNeedsRelease(b)} /\ b \in d
    \/ s = BothDown /\ d = PhysicalButton
    \/ \E b \in PhysicalButton : s = OneReleased(b) /\ d = PhysicalButton \ {b}

\* Both buttons are, or were, down in this press.
Middle(s) == s = BothDown \/ \E b \in PhysicalButton : s = OneReleased(b)

Quiet(c) == c.state = Nothing /\ c.clickTimer = {} /\ c.longTimer = "None"

\* The controller c of a choice page, with the buttons d held down.
EntryButtons(c, d, ready) ==
    /\ IsController(c) /\ Held(c.state, d)
    /\ c.state.at # "HTCNeedsRelease" /\ c.clickTimer \subseteq PhysicalButton
    /\ c.longTimer \in {"None", "Middle"}
    /\ c.longTimer = "Middle" => Middle(c.state)
    /\ Middle(c.state) => ready

\* The holding mover v may outlive the press that started it only at the end of a
\* number input, where it moves nothing.
MoverFits(v, c) ==
    /\ IsMover(v)
    /\ is_moving(v) => \/ c.state = OneDown(v.dir)
                       \/ c.state = Nothing /\ c.btn[v.dir] = "Nothing"

\* The choice page g of a screen.
EntryPage(g, kind, d, ready) ==
    /\ IsChoicePage(g) /\ IsMover(g.animation)
    /\ g.choices.of = kind /\ (kind = "number" => ~g.is_carousel)
    /\ g.buttons.btn = btn_layout(g.choices, g.page)
    /\ EntryButtons(g.buttons, d, ready)
    /\ MoverFits(g.holding, g.buttons)
    /\ is_moving(g.animation) => kind # "number" /\ Quiet(g.buttons)

KindOf(s) == IF s = "first_word" THEN "wordlist" ELSE s

\* A hold-to-confirm button, which only the right one can be, fills its loader
\* only while it is held.
Growing(c) == c.btn["Right"] = "HoldToConfirm" /\ c.loader["Right"] = "Growing"

PageLayout(btn) ==
    /\ btn["Left"] \in {"Nothing", "Button"} /\ btn["Middle"] = "Nothing"
    /\ btn["Right"] \in {"Nothing", "Button", "HoldToConfirm"}

PageButtons(c, d) ==
    /\ IsController(c) /\ c.loader \in [ButtonPos -> LoaderState]
    /\ Held(c.state, d)

TextPage(p, d) ==
    /\ IsButtonPage(p) /\ p.page_count \in Nat /\ p.active_page \in 0 .. (p.page_count - 1)
    /\ p.cancel \in {"Nothing", "Button"} /\ p.confirm \in {"Nothing", "Button", "HoldToConfirm"}
    /\ p.buttons.btn = page_layout(p) /\ PageButtons(p.buttons, d)
    /\ Growing(p.buttons) => p.buttons.state \in {OneDown("Right"), BothDown}

ScreenInv ==
    /\ screen \in SCREENS /\ down \subseteq PhysicalButton /\ armed \in BOOLEAN
    /\ screen \in EntryScreens => EntryPage(page, KindOf(screen), down, armed)
    /\ screen = "pages" /\ result = "None" => TextPage(page, down)

----------------------------------------------------------------------------
(* ButtonController. *)

\* The states of the controller are told apart by their tags.
LEMMA StatesDiffer ==
    ASSUME NEW a \in PhysicalButton, NEW b \in PhysicalButton
    PROVE  /\ Nothing # OneDown(a) /\ Nothing # BothDown /\ Nothing # OneReleased(a)
           /\ Nothing # HTCNeedsRelease(a)
           /\ OneDown(a) # BothDown /\ OneDown(a) # OneReleased(b)
           /\ OneDown(a) # HTCNeedsRelease(b) /\ BothDown # OneReleased(a)
           /\ BothDown # HTCNeedsRelease(a) /\ OneReleased(a) # HTCNeedsRelease(b)
           /\ OneDown(a) = OneDown(b) => a = b
           /\ OneReleased(a) = OneReleased(b) => a = b
           /\ HTCNeedsRelease(a) = HTCNeedsRelease(b) => a = b
           /\ OneDown(a) # OneDown(Other(a)) /\ OneReleased(a) # OneReleased(Other(a))
           /\ HTCNeedsRelease(a) # HTCNeedsRelease(Other(a))
           /\ Other(a) \in PhysicalButton /\ Other(a) # a /\ Other(Other(a)) = a
           /\ PhysicalButton = {a, Other(a)}
  BY DEF Nothing, OneDown, BothDown, OneReleased, HTCNeedsRelease, PhysicalButton, Other

LEMMA StateTags ==
    ASSUME NEW a
    PROVE  /\ Nothing.at = "Nothing" /\ BothDown.at = "BothDown"
           /\ OneDown(a).at = "OneDown" /\ OneDown(a).which = a
           /\ OneReleased(a).at = "OneReleased" /\ OneReleased(a).which = a
           /\ HTCNeedsRelease(a).at = "HTCNeedsRelease" /\ HTCNeedsRelease(a).which = a
  BY DEF Nothing, OneDown, BothDown, OneReleased, HTCNeedsRelease

\* What a controller that is right about the held buttons does when b, which was
\* up, goes down.
LEMMA PressAt ==
    ASSUME NEW c, NEW d \in SUBSET PhysicalButton, Held(c.state, d),
           NEW b \in PhysicalButton \ d
    PROVE  \/ /\ c.state = Nothing
              /\ ButtonPressed(c, b) =
                    {Outcome(To(hold_started(got_pressed(handle_button_press(c, b), b), b),
                                OneDown(b)), Pressed(b))}
           \/ /\ c.state = OneDown(Other(b)) /\ Other(b) \in d
              /\ \/ ButtonPressed(c, b) = {Outcome(c, NoMsg)}
                 \/ /\ handle_middle_button(c)
                    /\ ButtonPressed(c, b) =
                          {Outcome(To(middle_hold_started(got_pressed(c, "Middle")), BothDown),
                                   Pressed("Middle"))}
                 \/ /\ ~handle_middle_button(c)
                    /\ ButtonPressed(c, b) =
                          {Outcome(To(got_pressed(c, b), BothDown), Pressed(b))}
           \/ /\ c.state = OneReleased(b) /\ d = PhysicalButton \ {b}
              /\ ButtonPressed(c, b) = {Outcome(To(middle_hold_started(c), BothDown), NoMsg)}
           \/ /\ \E a \in d : c.state = HTCNeedsRelease(a)
              /\ ButtonPressed(c, b) = {Outcome(c, NoMsg)}
<1>1. CASE c.state = Nothing
  BY <1>1, StatesDiffer, Zenon DEF ButtonPressed
<1>2. CASE \E a \in PhysicalButton : c.state = OneDown(a) /\ a \in d
  <2>1. c.state = OneDown(Other(b)) /\ Other(b) \in d
    BY <1>2, StatesDiffer
  <2>2. c.state # Nothing /\ c.state # OneReleased(b)
    BY <2>1, StatesDiffer
  <2>3. CASE b \notin c.clickable
    BY <2>1, <2>2, <2>3, Zenon DEF ButtonPressed
  <2>4. CASE b \in c.clickable /\ handle_middle_button(c)
    BY <2>1, <2>2, <2>4, Zenon DEF ButtonPressed
  <2>5. CASE b \in c.clickable /\ ~handle_middle_button(c)
    BY <2>1, <2>2, <2>5, Zenon DEF ButtonPressed
  <2> QED BY <2>3, <2>4, <2>5
<1>3. CASE \E a \in PhysicalButton : c.state = HTCNeedsRelease(a) /\ a \in d
  <2>1. c.state # Nothing /\ c.state # OneDown(Other(b)) /\ c.state # OneReleased(b)
    BY <1>3, StatesDiffer
  <2> QED BY <1>3, <2>1, Zenon DEF ButtonPressed
<1>4. CASE \E a \in PhysicalButton : c.state = OneReleased(a) /\ d = PhysicalButton \ {a}
  <2>1. c.state = OneReleased(b) /\ d = PhysicalButton \ {b}
    BY <1>4
  <2>2. c.state # Nothing /\ c.state # OneDown(Other(b))
    BY <2>1, StatesDiffer
  <2> QED BY <2>1, <2>2, Zenon DEF ButtonPressed
<1> QED BY <1>1, <1>2, <1>3, <1>4 DEF Held

\* And when b, which was down, goes up.
LEMMA ReleaseAt ==
    ASSUME NEW c, NEW d \in SUBSET PhysicalButton, Held(c.state, d), NEW b \in d
    PROVE  \/ /\ c.state = OneDown(b)
              /\ ButtonReleased(c, b) =
                    maybe_trigger(To(make_button_clickable(c, {Other(b)}), Nothing), b)
           \/ /\ c.state = BothDown /\ d = PhysicalButton
              /\ \/ /\ handle_middle_button(c)
                    /\ ButtonReleased(c, b) =
                          {Outcome(To(hold_ended(c, "Middle"), OneReleased(b)), NoMsg)}
                 \/ /\ ~handle_middle_button(c)
                    /\ ButtonReleased(c, b) =
                          {Outcome(To(hold_ended(c, "Middle"), OneReleased(b)),
                                   Triggered(b, FALSE))}
           \/ /\ c.state = OneReleased(Other(b)) /\ d = {b}
              /\ \/ /\ handle_middle_button(c)
                    /\ ButtonReleased(c, b) =
                          maybe_trigger(To(make_button_clickable(c, PhysicalButton), Nothing),
                                        "Middle")
                 \/ /\ ~handle_middle_button(c)
                    /\ ButtonReleased(c, b) =
                          {Outcome(To(make_button_clickable(c, PhysicalButton), Nothing),
                                   Triggered(b, FALSE))}
           \/ /\ c.state = HTCNeedsRelease(b)
              /\ ButtonReleased(c, b) = {Outcome(To(c, Nothing), NoMsg)}
           \/ /\ \/ c.state = Nothing
                 \/ c.state \in {OneDown(Other(b)), HTCNeedsRelease(Other(b))} /\ Other(b) \in d
              /\ ButtonReleased(c, b) = {Outcome(c, NoMsg)}
<1> b \in PhysicalButton
  OBVIOUS
<1>0. \A a \in PhysicalButton : a = b \/ a = Other(b)
  BY StatesDiffer
<1>1. CASE c.state = Nothing
  <2>1. /\ c.state # OneDown(b) /\ c.state # BothDown /\ c.state # OneReleased(Other(b))
        /\ c.state # HTCNeedsRelease(b)
    BY <1>1, StatesDiffer
  <2> QED BY <1>1, <2>1, Zenon DEF ButtonReleased
<1>2. CASE \E a \in PhysicalButton : c.state = OneDown(a) /\ a \in d
  <2>0. c.state # BothDown /\ c.state # OneReleased(Other(b)) /\ c.state # HTCNeedsRelease(b)
    BY <1>2, StatesDiffer
  <2>1. CASE c.state = OneDown(b)
    BY <2>0, <2>1, Zenon DEF ButtonReleased
  <2>2. CASE c.state = OneDown(Other(b)) /\ Other(b) \in d
    <3>1. c.state # OneDown(b)
      BY <2>2, StatesDiffer
    <3>2. ButtonReleased(c, b) = {Outcome(c, NoMsg)}
      BY <2>0, <2>2, <3>1, Zenon DEF ButtonReleased
    <3> QED BY <2>2, <3>2
  <2> QED BY <1>0, <1>2, <2>1, <2>2, Zenon
<1>3. CASE \E a \in PhysicalButton : c.state = HTCNeedsRelease(a) /\ a \in d
  <2>0. c.state # OneDown(b) /\ c.state # BothDown /\ c.state # OneReleased(Other(b))
    BY <1>3, StatesDiffer
  <2>1. CASE c.state = HTCNeedsRelease(b)
    BY <2>0, <2>1, Zenon DEF ButtonReleased
  <2>2. CASE c.state = HTCNeedsRelease(Other(b)) /\ Other(b) \in d
    <3>1. c.state # HTCNeedsRelease(b)
      BY <2>2, StatesDiffer
    <3>2. ButtonReleased(c, b) = {Outcome(c, NoMsg)}
      BY <2>0, <2>2, <3>1, Zenon DEF ButtonReleased
    <3> QED BY <2>2, <3>2
  <2> QED BY <1>0, <1>3, <2>1, <2>2, Zenon
<1>4. CASE c.state = BothDown /\ d = PhysicalButton
  <2>1. c.state # OneDown(b) /\ c.state # OneReleased(Other(b)) /\ c.state # HTCNeedsRelease(b)
    BY <1>4, StatesDiffer
  <2>2. ButtonReleased(c, b) =
            {Outcome(To(hold_ended(c, "Middle"), OneReleased(b)),
                     IF handle_middle_button(c) THEN NoMsg ELSE Triggered(b, FALSE))}
    BY <1>4, <2>1, Zenon DEF ButtonReleased
  <2>3. CASE handle_middle_button(c)
    BY <1>4, <2>2, <2>3, Zenon
  <2>4. CASE ~handle_middle_button(c)
    BY <1>4, <2>2, <2>4, Zenon
  <2> QED BY <2>3, <2>4
<1>5. CASE \E a \in PhysicalButton : c.state = OneReleased(a) /\ d = PhysicalButton \ {a}
  <2>1. c.state = OneReleased(Other(b)) /\ d = {b}
    BY <1>5, StatesDiffer
  <2>2. c.state # OneDown(b) /\ c.state # BothDown /\ c.state # HTCNeedsRelease(b)
    BY <2>1, StatesDiffer
  <2>3. CASE handle_middle_button(c)
    BY <2>1, <2>2, <2>3, Zenon DEF ButtonReleased
  <2>4. CASE ~handle_middle_button(c)
    BY <2>1, <2>2, <2>4, Zenon DEF ButtonReleased
  <2> QED BY <2>3, <2>4
<1> QED BY <1>1, <1>2, <1>3, <1>4, <1>5 DEF Held

\* What the operations of the controller leave alone.
LEMMA ToFields ==
    ASSUME NEW c, IsController(c), NEW s
    PROVE  /\ IsController(To(c, s)) /\ To(c, s).state = s /\ To(c, s).btn = c.btn
           /\ To(c, s).clickTimer = c.clickTimer /\ To(c, s).longTimer = c.longTimer
           /\ To(c, s).loader = c.loader
  BY DEF To, IsController

LEMMA GotPressedFields ==
    ASSUME NEW c, IsController(c), NEW p
    PROVE  LET e == got_pressed(c, p)
           IN  /\ IsController(e) /\ e.state = c.state /\ e.btn = c.btn
               /\ e.clickTimer = c.clickTimer /\ e.loader = c.loader
               /\ e.longTimer = IF c.btn[p] = "LongPress" THEN p ELSE "None"
  BY DEF got_pressed, IsController

LEMMA HandlePressFields ==
    ASSUME NEW c, IsController(c), NEW b
    PROVE  LET e == handle_button_press(c, b)
           IN  /\ IsController(e) /\ e.state = c.state /\ e.btn = c.btn
               /\ e.clickTimer \in {c.clickTimer, c.clickTimer \cup {Other(b)}}
               /\ e.loader = c.loader /\ e.longTimer = c.longTimer
<1>1. CASE c.delayed
  <2>1. handle_button_press(c, b) = [c EXCEPT !.clickTimer = @ \cup {Other(b)}]
    BY <1>1 DEF handle_button_press
  <2> QED BY <2>1 DEF IsController
<1>2. CASE ~c.delayed
  BY <1>2 DEF handle_button_press
<1> QED BY <1>1, <1>2

LEMMA ClickableFields ==
    ASSUME NEW c, IsController(c), NEW bs
    PROVE  LET e == make_button_clickable(c, bs)
           IN  /\ IsController(e) /\ e.state = c.state /\ e.btn = c.btn
               /\ e.clickTimer = c.clickTimer \ bs
               /\ e.loader = c.loader /\ e.longTimer = c.longTimer
<1>1. PICK k, t : k = c.clickable \cup bs /\ t = c.clickTimer \ bs
  OBVIOUS
<1>2. make_button_clickable(c, bs) = [c EXCEPT !.clickable = k, !.clickTimer = t]
  BY <1>1 DEF make_button_clickable
<1>3. PICK e : e = [c EXCEPT !.clickable = k, !.clickTimer = t]
  OBVIOUS
<1>4. /\ IsController(e) /\ e.state = c.state /\ e.btn = c.btn /\ e.clickTimer = t
      /\ e.loader = c.loader /\ e.longTimer = c.longTimer
  BY <1>3 DEF IsController
<1> QED BY <1>1, <1>2, <1>3, <1>4

----------------------------------------------------------------------------
(* The controller of a choice page. *)

EntryLayout(btn) ==
    /\ \A b \in PhysicalButton : btn[b] \in {"Nothing", "Button"}
    /\ btn["Middle"] \in {"LongPress", "Button"}

\* How an event may turn the controller c into e with the message m.
Turned(c, e, m) ==
    /\ e.btn = c.btn
    /\ \/ m = NoMsg /\ e.state = c.state
       \/ m = NoMsg /\ Middle(c.state) /\ Middle(e.state)
       \/ \E b \in PhysicalButton : m = Pressed(b) /\ c.state = Nothing /\ e.state = OneDown(b)
       \/ \E b \in PhysicalButton :
             m = Pressed("Middle") /\ c.state = OneDown(b) /\ e.state = BothDown
       \/ \E b \in PhysicalButton :
             /\ c.state = OneDown(b) /\ e.state = Nothing
             /\ \/ m = NoMsg /\ c.btn[b] = "Nothing"
                \/ \E long \in BOOLEAN : m = Triggered(b, long)
       \/ Middle(c.state) /\ Quiet(e) /\ \E long \in BOOLEAN : m = Triggered("Middle", long)
       \/ /\ Middle(c.state) /\ e.state = c.state
          /\ e.longTimer = "None" /\ m = LongPressed("Middle")

\* armed after the event
Ready(c, e, ready) == ready \/ (e.state = BothDown /\ c.state # BothDown)

LEMMA NoHold ==
    ASSUME NEW c, EntryLayout(c.btn), NEW p \in ButtonPos
    PROVE  hold_started(c, p) = c /\ hold_ended(c, p) = c
<1>1. c.btn[p] # "HoldToConfirm"
  BY DEF EntryLayout, PhysicalButton, ButtonPos
<1> QED BY <1>1 DEF hold_started, hold_ended, is_animating, IsHTC

LEMMA NoMiddleHold ==
    ASSUME NEW c, EntryLayout(c.btn)
    PROVE  middle_hold_started(c) = c /\ handle_middle_button(c)
  BY NoHold DEF middle_hold_started, ButtonPos, handle_middle_button, EntryLayout

LEMMA EntryPress ==
    ASSUME NEW c, NEW d \in SUBSET PhysicalButton, NEW ready \in BOOLEAN,
           EntryButtons(c, d, ready), EntryLayout(c.btn),
           NEW b \in PhysicalButton \ d, NEW o \in ButtonPressed(c, b)
    PROVE  /\ Turned(c, o.buttons, o.msg)
           /\ EntryButtons(o.buttons, d \cup {b}, Ready(c, o.buttons, ready))
<1>0. IsController(c) /\ Held(c.state, d) /\ c.clickTimer \subseteq PhysicalButton
  BY DEF EntryButtons
<1>1. CASE c.state = Nothing /\ ButtonPressed(c, b) =
             {Outcome(To(hold_started(got_pressed(handle_button_press(c, b), b), b), OneDown(b)),
                      Pressed(b))}
  <2>1. PICK x : x = handle_button_press(c, b)
    OBVIOUS
  <2>2. PICK y : y = got_pressed(x, b)
    OBVIOUS
  <2>3. PICK z : z = To(y, OneDown(b))
    OBVIOUS
  <2>4. /\ IsController(x) /\ x.btn = c.btn /\ x.clickTimer \subseteq PhysicalButton
    BY <1>0, <2>1, HandlePressFields, StatesDiffer
  <2>5. /\ IsController(y) /\ y.btn = c.btn /\ y.clickTimer \subseteq PhysicalButton
        /\ y.longTimer = "None"
    BY <2>2, <2>4, GotPressedFields DEF EntryLayout
  <2>6. hold_started(y, b) = y
    BY <2>5, NoHold DEF PhysicalButton, ButtonPos
  <2>7. o = Outcome(z, Pressed(b))
    BY <1>1, <2>1, <2>2, <2>3, <2>6
  <2>8. o.buttons = z /\ o.msg = Pressed(b)
    BY <2>7 DEF Outcome
  <2>9. /\ IsController(z) /\ z.btn = c.btn /\ z.clickTimer \subseteq PhysicalButton
        /\ z.longTimer = "None" /\ z.state = OneDown(b)
    BY <2>3, <2>5, ToFields
  <2>10. Turned(c, z, Pressed(b))
    BY <1>1, <2>9 DEF Turned
  <2>11. z.state.at # "HTCNeedsRelease" /\ ~Middle(z.state) /\ Held(z.state, d \cup {b})
    BY <2>9, StatesDiffer, StateTags DEF Middle, Held
  <2> QED BY <2>8, <2>9, <2>10, <2>11 DEF EntryButtons
<1>2. CASE /\ \/ c.state = OneDown(Other(b)) /\ Other(b) \in d
           /\ ButtonPressed(c, b) = {Outcome(c, NoMsg)}
  <2>1. o.buttons = c /\ o.msg = NoMsg
    BY <1>2 DEF Outcome
  <2>2. Held(c.state, d \cup {b}) /\ ~Middle(c.state)
    BY <1>2, StatesDiffer DEF Held, Middle
  <2> QED BY <2>1, <2>2 DEF EntryButtons, Turned
<1>3. CASE /\ c.state = OneDown(Other(b)) /\ Other(b) \in d
           /\ ButtonPressed(c, b) =
                 {Outcome(To(middle_hold_started(got_pressed(c, "Middle")), BothDown),
                          Pressed("Middle"))}
  <2>1. PICK y : y = got_pressed(c, "Middle")
    OBVIOUS
  <2>2. /\ IsController(y) /\ y.btn = c.btn /\ y.clickTimer = c.clickTimer
        /\ y.longTimer \in {"None", "Middle"}
    BY <1>0, <2>1, GotPressedFields
  <2>3. middle_hold_started(y) = y
    BY <2>2, NoMiddleHold
  <2>4. PICK z : z = To(y, BothDown)
    OBVIOUS
  <2>5. /\ IsController(z) /\ z.btn = c.btn /\ z.clickTimer \subseteq PhysicalButton
        /\ z.longTimer \in {"None", "Middle"} /\ z.state = BothDown
    BY <1>0, <2>2, <2>4, ToFields
  <2>6. o.buttons = z /\ o.msg = Pressed("Middle")
    BY <1>3, <2>1, <2>3, <2>4 DEF Outcome
  <2>7. d \cup {b} = PhysicalButton
    BY <1>3, StatesDiffer
  <2>8. Turned(c, z, Pressed("Middle"))
    BY <1>3, <2>5, StatesDiffer DEF Turned
  <2>9. /\ z.state.at # "HTCNeedsRelease" /\ Middle(z.state) /\ Held(z.state, d \cup {b})
        /\ Ready(c, z, ready)
    BY <1>3, <2>5, <2>7, StatesDiffer, StateTags DEF Middle, Held, Ready
  <2> QED BY <2>5, <2>6, <2>8, <2>9 DEF EntryButtons
<1>4. CASE /\ c.state = OneReleased(b) /\ d = PhysicalButton \ {b}
           /\ ButtonPressed(c, b) = {Outcome(To(middle_hold_started(c), BothDown), NoMsg)}
  <2>1. PICK z : z = To(c, BothDown)
    OBVIOUS
  <2>2. /\ IsController(z) /\ z.btn = c.btn /\ z.clickTimer = c.clickTimer
        /\ z.longTimer = c.longTimer /\ z.state = BothDown
    BY <1>0, <2>1, ToFields
  <2>3. o.buttons = z /\ o.msg = NoMsg
    BY <1>4, <2>1, NoMiddleHold DEF Outcome
  <2>4. Middle(c.state) /\ Middle(z.state) /\ d \cup {b} = PhysicalButton
    BY <1>4, <2>2 DEF Middle
  <2>5. z.state.at # "HTCNeedsRelease" /\ Held(z.state, d \cup {b})
    BY <2>2, <2>4, StateTags DEF Held
  <2> QED BY <2>2, <2>3, <2>4, <2>5 DEF EntryButtons, Turned, Ready
<1>5. ~\E a \in d : c.state = HTCNeedsRelease(a)
  BY StateTags DEF EntryButtons
<1> QED BY <1>0, <1>1, <1>2, <1>3, <1>4, <1>5, PressAt, NoMiddleHold

\* The message and the controller after the release that ends a press.
LEMMA MaybeTrigger ==
    ASSUME NEW c, IsController(c), EntryLayout(c.btn), NEW p \in ButtonPos,
           NEW o \in maybe_trigger(c, p)
    PROVE  /\ IsController(o.buttons) /\ o.buttons.state = c.state /\ o.buttons.btn = c.btn
           /\ o.buttons.clickTimer = c.clickTimer
           /\ \/ /\ c.btn[p] # "Nothing" /\ \E long \in BOOLEAN : o.msg = Triggered(p, long)
                 /\ o.buttons.longTimer = IF c.longTimer = p THEN "None" ELSE c.longTimer
              \/ /\ c.btn[p] = "Nothing" /\ o.msg = NoMsg
                 /\ o.buttons.longTimer = c.longTimer
<1>1. c.btn[p] \in {"Nothing", "Button", "LongPress"}
  BY DEF EntryLayout, PhysicalButton, ButtonPos
<1>2. CASE c.btn[p] \in {"Button", "LongPress"}
  <2>1. ~IsHTC(c, p) /\ c.btn[p] # "Nothing"
    BY <1>2 DEF IsHTC
  <2>2. maybe_trigger(c, p) =
            {Outcome([c EXCEPT !.longTimer = IF c.longTimer = p THEN "None" ELSE @],
                     Triggered(p, long)) : long \in BOOLEAN}
    BY <1>2, <2>1, Zenon DEF maybe_trigger
  <2>3. PICK n : n = IF c.longTimer = p THEN "None" ELSE c.longTimer
    OBVIOUS
  <2>4. PICK e : e = [c EXCEPT !.longTimer = n]
    OBVIOUS
  <2>5. /\ IsController(e) /\ e.state = c.state /\ e.btn = c.btn
        /\ e.clickTimer = c.clickTimer /\ e.longTimer = n
    BY <2>4 DEF IsController
  <2>6. [c EXCEPT !.longTimer = IF c.longTimer = p THEN "None" ELSE @] = e
    BY <2>3, <2>4
  <2>7. PICK long \in BOOLEAN : o = Outcome(e, Triggered(p, long))
    BY <2>2, <2>6
  <2>8. o.buttons = e /\ o.msg = Triggered(p, long)
    BY <2>7 DEF Outcome
  <2> QED BY <2>1, <2>3, <2>5, <2>8
<1>3. CASE c.btn[p] = "Nothing"
  <2>1. ~IsHTC(c, p) /\ c.btn[p] \notin {"Button", "LongPress"}
    BY <1>3 DEF IsHTC
  <2>2. maybe_trigger(c, p) = {Outcome(c, NoMsg)}
    BY <1>3, <2>1, Zenon DEF maybe_trigger
  <2> QED BY <1>3, <2>2 DEF Outcome
<1> QED BY <1>1, <1>2, <1>3

LEMMA EntryRelease ==
    ASSUME NEW c, NEW d \in SUBSET PhysicalButton, NEW ready \in BOOLEAN,
           EntryButtons(c, d, ready), EntryLayout(c.btn),
           NEW b \in d, NEW o \in ButtonReleased(c, b)
    PROVE  /\ Turned(c, o.buttons, o.msg)
           /\ EntryButtons(o.buttons, d \ {b}, Ready(c, o.buttons, ready))
<1> b \in PhysicalButton
  OBVIOUS
<1>0. IsController(c) /\ Held(c.state, d) /\ c.clickTimer \subseteq PhysicalButton
  BY DEF EntryButtons
<1>1. CASE c.state = OneDown(b) /\ ButtonReleased(c, b) =
             maybe_trigger(To(make_button_clickable(c, {Other(b)}), Nothing), b)
  <2>1. PICK x : x = make_button_clickable(c, {Other(b)})
    OBVIOUS
  <2>2. PICK y : y = To(x, Nothing)
    OBVIOUS
  <2>3. /\ IsController(x) /\ x.btn = c.btn /\ x.clickTimer \subseteq PhysicalButton
        /\ x.longTimer = c.longTimer
    BY <1>0, <2>1, ClickableFields
  <2>4. /\ IsController(y) /\ y.btn = c.btn /\ y.clickTimer \subseteq PhysicalButton
        /\ y.longTimer = c.longTimer /\ y.state = Nothing
    BY <2>2, <2>3, ToFields
  <2>5. ~Middle(c.state) /\ c.longTimer = "None"
    BY <1>1, StatesDiffer DEF Middle, EntryButtons
  <2>6. o \in maybe_trigger(y, b) /\ b \in ButtonPos
    BY <1>1, <2>1, <2>2 DEF ButtonPos, PhysicalButton
  <2>7. PICK e : e = o.buttons
    OBVIOUS
  <2>8. /\ IsController(e) /\ e.state = Nothing /\ e.btn = c.btn
        /\ e.clickTimer \subseteq PhysicalButton /\ e.longTimer = "None"
        /\ \/ \E long \in BOOLEAN : o.msg = Triggered(b, long)
           \/ c.btn[b] = "Nothing" /\ o.msg = NoMsg
    BY <2>4, <2>5, <2>6, <2>7, MaybeTrigger DEF PhysicalButton
  <2>9. Turned(c, e, o.msg)
    BY <1>1, <2>8 DEF Turned
  <2>10. e.state.at # "HTCNeedsRelease" /\ ~Middle(e.state) /\ Held(e.state, d \ {b})
    BY <2>8, StatesDiffer, StateTags DEF Middle, Held
  <2> QED BY <2>7, <2>8, <2>9, <2>10 DEF EntryButtons
<1>2. CASE /\ c.state = BothDown /\ d = PhysicalButton
           /\ ButtonReleased(c, b) =
                 {Outcome(To(hold_ended(c, "Middle"), OneReleased(b)), NoMsg)}
  <2>1. PICK z : z = To(c, OneReleased(b))
    OBVIOUS
  <2>2. /\ IsController(z) /\ z.btn = c.btn /\ z.clickTimer = c.clickTimer
        /\ z.longTimer = c.longTimer /\ z.state = OneReleased(b)
    BY <1>0, <2>1, ToFields
  <2>3. hold_ended(c, "Middle") = c
    BY NoHold DEF ButtonPos
  <2>4. o.buttons = z /\ o.msg = NoMsg
    BY <1>2, <2>1, <2>3 DEF Outcome
  <2>5. Middle(c.state) /\ Middle(z.state)
    BY <1>2, <2>2 DEF Middle
  <2>6. z.state.at # "HTCNeedsRelease" /\ Held(z.state, d \ {b})
    BY <1>2, <2>2, StateTags DEF Held
  <2> QED BY <2>2, <2>4, <2>5, <2>6 DEF EntryButtons, Turned, Ready
<1>3. CASE c.state = OneReleased(Other(b)) /\ ButtonReleased(c, b) =
             maybe_trigger(To(make_button_clickable(c, PhysicalButton), Nothing), "Middle")
  <2>1. PICK x : x = make_button_clickable(c, PhysicalButton)
    OBVIOUS
  <2>2. PICK y : y = To(x, Nothing)
    OBVIOUS
  <2>3. /\ IsController(x) /\ x.btn = c.btn /\ x.clickTimer = {} /\ x.longTimer = c.longTimer
    BY <1>0, <2>1, ClickableFields
  <2>4. /\ IsController(y) /\ y.btn = c.btn /\ y.clickTimer = {}
        /\ y.longTimer = c.longTimer /\ y.state = Nothing
    BY <2>2, <2>3, ToFields
  <2>5. Middle(c.state) /\ c.longTimer \in {"None", "Middle"}
    BY <1>3, StatesDiffer DEF Middle, EntryButtons
  <2>6. o \in maybe_trigger(y, "Middle") /\ "Middle" \in ButtonPos
    BY <1>3, <2>1, <2>2 DEF ButtonPos
  <2>7. PICK e : e = o.buttons
    OBVIOUS
  <2>8. y.btn["Middle"] # "Nothing"
    BY <2>4 DEF EntryLayout
  <2>9. /\ IsController(e) /\ e.state = Nothing /\ e.btn = c.btn
        /\ e.clickTimer = {} /\ e.longTimer = "None"
        /\ \E long \in BOOLEAN : o.msg = Triggered("Middle", long)
    BY <2>4, <2>5, <2>6, <2>7, <2>8, MaybeTrigger
  <2>10. Turned(c, e, o.msg)
    BY <2>5, <2>9 DEF Turned, Quiet
  <2>11. e.state.at # "HTCNeedsRelease" /\ ~Middle(e.state) /\ Held(e.state, d \ {b})
    BY <2>9, StatesDiffer, StateTags DEF Middle, Held
  <2> QED BY <2>7, <2>9, <2>10, <2>11 DEF EntryButtons
<1>4. CASE /\ c.state \in {Nothing, OneDown(Other(b))}
           /\ c.state = OneDown(Other(b)) => Other(b) \in d
           /\ ButtonReleased(c, b) = {Outcome(c, NoMsg)}
  <2>1. o.buttons = c /\ o.msg = NoMsg
    BY <1>4 DEF Outcome
  <2>2. Held(c.state, d \ {b}) /\ ~Middle(c.state)
    BY <1>4, StatesDiffer DEF Held, Middle
  <2> QED BY <2>1, <2>2 DEF EntryButtons, Turned
<1>5. c.state # HTCNeedsRelease(b) /\ c.state # HTCNeedsRelease(Other(b))
  BY StateTags DEF EntryButtons
<1>6. handle_middle_button(c)
  BY NoMiddleHold
<1>7. CASE /\ \/ c.state = Nothing
              \/ c.state \in {OneDown(Other(b)), HTCNeedsRelease(Other(b))} /\ Other(b) \in d
           /\ ButtonReleased(c, b) = {Outcome(c, NoMsg)}
  BY <1>4, <1>5, <1>7, StatesDiffer
<1> QED BY <1>0, <1>1, <1>2, <1>3, <1>5, <1>6, <1>7, ReleaseAt, Zenon

LEMMA EntryClickTimer ==
    ASSUME NEW c, NEW d, NEW ready \in BOOLEAN, EntryButtons(c, d, ready),
           NEW b, NEW o \in ClickTimer(c, b)
    PROVE  /\ Turned(c, o.buttons, o.msg)
           /\ EntryButtons(o.buttons, d, Ready(c, o.buttons, ready))
<1>1. PICK k, t : k = c.clickable \ {b} /\ t = c.clickTimer \ {b}
  OBVIOUS
<1>2. PICK e : e = [c EXCEPT !.clickTimer = t, !.clickable = k]
  OBVIOUS
<1>3. o.buttons = e /\ o.msg = NoMsg
  BY <1>1, <1>2 DEF ClickTimer, Outcome
<1>4. /\ IsController(e) /\ e.state = c.state /\ e.btn = c.btn /\ e.clickTimer = t
      /\ e.longTimer = c.longTimer
  BY <1>2 DEF IsController, EntryButtons
<1> QED BY <1>1, <1>3, <1>4 DEF EntryButtons, Turned, Ready

LEMMA EntryLongTimer ==
    ASSUME NEW c, NEW d, NEW ready \in BOOLEAN, EntryButtons(c, d, ready),
           c.longTimer # "None", NEW o \in LongTimer(c)
    PROVE  /\ Turned(c, o.buttons, o.msg)
           /\ EntryButtons(o.buttons, d, Ready(c, o.buttons, ready))
<1>1. c.longTimer = "Middle" /\ Middle(c.state)
  BY DEF EntryButtons
<1>2. PICK n : n = "None"
  OBVIOUS
<1>3. PICK e : e = [c EXCEPT !.longTimer = n]
  OBVIOUS
<1>4. o.buttons = e /\ o.msg = LongPressed("Middle")
  BY <1>1, <1>2, <1>3 DEF LongTimer, Outcome
<1>5. /\ IsController(e) /\ e.state = c.state /\ e.btn = c.btn
      /\ e.clickTimer = c.clickTimer /\ e.longTimer = "None"
  BY <1>2, <1>3 DEF IsController, EntryButtons
<1> QED BY <1>1, <1>4, <1>5 DEF EntryButtons, Turned, Ready

\* A button is missing only at an end of a number input.
LEMMA LayoutOf ==
    ASSUME NEW ch, NEW i
    PROVE  /\ EntryLayout(btn_layout(ch, i))
           /\ btn_layout(ch, i)["Left"] = "Nothing" => ch.of = "number" /\ i = 0
           /\ btn_layout(ch, i)["Right"] = "Nothing" => ch.of = "number" /\ i = NUMBERS - 1
  BY DEF btn_layout, EntryLayout, PhysicalButton

----------------------------------------------------------------------------
(* ChoicePage. *)

LEMMA UpdateFields ==
    ASSUME NEW g, IsChoicePage(g), IsController(g.buttons)
    PROVE  LET u == update(g)
           IN  /\ IsChoicePage(u) /\ u.choices = g.choices /\ u.page = g.page
               /\ u.is_carousel = g.is_carousel /\ u.holding = g.holding
               /\ u.animation = g.animation
               /\ IsController(u.buttons) /\ u.buttons.state = g.buttons.state
               /\ u.buttons.clickTimer = g.buttons.clickTimer
               /\ u.buttons.longTimer = g.buttons.longTimer
               /\ u.buttons.btn = btn_layout(g.choices, g.page)
<1>1. PICK l, n : l = btn_layout(g.choices, g.page) /\ n = NoLoaders
  OBVIOUS
<1>2. PICK c : c = g.buttons
  OBVIOUS
<1>3. PICK e : e = [c EXCEPT !.btn = l, !.loader = n]
  OBVIOUS
<1>4. /\ IsController(e) /\ e.state = c.state /\ e.clickTimer = c.clickTimer
      /\ e.longTimer = c.longTimer /\ e.btn = l
  BY <1>2, <1>3 DEF IsController
<1>5. PICK u : u = [g EXCEPT !.buttons = e]
  OBVIOUS
<1>6. update(g) = u
  BY <1>1, <1>2, <1>3, <1>5 DEF update, set
<1>7. /\ IsChoicePage(u) /\ u.choices = g.choices /\ u.page = g.page
      /\ u.is_carousel = g.is_carousel /\ u.holding = g.holding
      /\ u.animation = g.animation /\ u.buttons = e
  BY <1>5 DEF IsChoicePage
<1> QED BY <1>1, <1>2, <1>4, <1>6, <1>7

\* A move changes the page counter and the layout of the buttons, and nothing else.
LEMMA MoveFields ==
    ASSUME NEW g, IsChoicePage(g), IsController(g.buttons),
           g.buttons.btn = btn_layout(g.choices, g.page), NEW b
    PROVE  LET m == Move(g, b)
           IN  /\ IsChoicePage(m) /\ m.choices = g.choices /\ m.is_carousel = g.is_carousel
               /\ m.holding = g.holding /\ m.animation = g.animation
               /\ IsController(m.buttons) /\ m.buttons.state = g.buttons.state
               /\ m.buttons.clickTimer = g.buttons.clickTimer
               /\ m.buttons.longTimer = g.buttons.longTimer
               /\ m.buttons.btn = btn_layout(m.choices, m.page)
<1>1. \/ Move(g, b) = g
      \/ \E n : Move(g, b) = update([g EXCEPT !.page = n])
  <2>1. PICK i, j, k : i = g.page - 1 /\ j = last_page_index(g) /\ k = g.page + 1
    OBVIOUS
  <2>2. Move(g, b) \in {g, update([g EXCEPT !.page = i]), update([g EXCEPT !.page = j]),
                        update([g EXCEPT !.page = k]), update([g EXCEPT !.page = 0])}
    BY <2>1 DEF Move, move_left, move_right
  <2> QED BY <2>2
<1>2. CASE Move(g, b) = g
  BY <1>2
<1>3. ASSUME NEW n, Move(g, b) = update([g EXCEPT !.page = n])
      PROVE  LET m == Move(g, b)
             IN  /\ IsChoicePage(m) /\ m.choices = g.choices /\ m.is_carousel = g.is_carousel
                 /\ m.holding = g.holding /\ m.animation = g.animation
                 /\ IsController(m.buttons) /\ m.buttons.state = g.buttons.state
                 /\ m.buttons.clickTimer = g.buttons.clickTimer
                 /\ m.buttons.longTimer = g.buttons.longTimer
                 /\ m.buttons.btn = btn_layout(m.choices, m.page)
  <2>1. PICK h : h = [g EXCEPT !.page = n]
    OBVIOUS
  <2>2. /\ IsChoicePage(h) /\ h.choices = g.choices /\ h.is_carousel = g.is_carousel
        /\ h.holding = g.holding /\ h.animation = g.animation /\ h.buttons = g.buttons
    BY <2>1 DEF IsChoicePage
  <2>3. Move(g, b) = update(h)
    BY <1>3, <2>1
  <2> QED BY <2>2, <2>3, UpdateFields
<1> QED BY <1>1, <1>2, <1>3

\* At the end of a number input there is nowhere to go.
LEMMA NoMove ==
    ASSUME NEW g, g.choices.of = "number", ~g.is_carousel, NEW b \in PhysicalButton,
           g.buttons.btn = btn_layout(g.choices, g.page), g.buttons.btn[b] = "Nothing"
    PROVE  Move(g, b) = g
<1>1. CASE b = "Left"
  <2>1. g.page = 0
    BY <1>1, LayoutOf
  <2> QED BY <1>1, <2>1 DEF Move, move_left
<1>2. CASE b = "Right"
  <2>1. g.page = NUMBERS - 1
    BY <1>2, LayoutOf
  <2>2. last_page_index(g) = NUMBERS - 1
    BY DEF last_page_index, count
  <2>3. ~(g.page < last_page_index(g))
    BY <2>1, <2>2, FactoryAssumption
  <2> QED BY <1>2, <2>3 DEF Move, move_right
<1> QED BY <1>1, <1>2 DEF PhysicalButton

LEMMA SameButtons ==
    ASSUME NEW c, NEW e, NEW d, NEW ready, EntryButtons(c, d, ready), IsController(e),
           e.state = c.state, e.clickTimer = c.clickTimer, e.longTimer = c.longTimer
    PROVE  EntryButtons(e, d, ready)
  BY DEF EntryButtons

LEMMA MoveKeeps ==
    ASSUME NEW g, NEW kind, NEW d, NEW ready, EntryPage(g, kind, d, ready), NEW b,
           is_moving(g.holding) => g.holding.dir = b
    PROVE  EntryPage(Move(g, b), kind, d, ready) /\ Move(g, b).buttons.state = g.buttons.state
<1>1. /\ IsChoicePage(g) /\ IsController(g.buttons)
      /\ g.buttons.btn = btn_layout(g.choices, g.page) /\ EntryButtons(g.buttons, d, ready)
  BY DEF EntryPage, EntryButtons
<1>2. PICK m : m = Move(g, b)
  OBVIOUS
<1>3. /\ IsChoicePage(m) /\ m.choices = g.choices /\ m.is_carousel = g.is_carousel
      /\ m.holding = g.holding /\ m.animation = g.animation
      /\ IsController(m.buttons) /\ m.buttons.state = g.buttons.state
      /\ m.buttons.clickTimer = g.buttons.clickTimer
      /\ m.buttons.longTimer = g.buttons.longTimer
      /\ m.buttons.btn = btn_layout(m.choices, m.page)
  BY <1>1, <1>2, MoveFields
<1>4. CASE is_moving(g.holding) /\ g.buttons.state # OneDown(g.holding.dir)
  <2>1. g.buttons.btn[b] = "Nothing" /\ b \in PhysicalButton
    BY <1>4 DEF EntryPage, MoverFits, IsMover, is_moving
  <2>2. g.choices.of = "number"
    BY <1>1, <2>1, LayoutOf DEF PhysicalButton
  <2>3. ~g.is_carousel
    BY <2>2 DEF EntryPage
  <2> QED BY <1>1, <2>1, <2>2, <2>3, NoMove
<1>5. CASE is_moving(g.holding) => g.buttons.state = OneDown(g.holding.dir)
  <2>1. EntryButtons(m.buttons, d, ready)
    BY <1>1, <1>3, SameButtons
  <2>2. /\ MoverFits(g.holding, g.buttons) /\ IsMover(g.animation) /\ g.choices.of = kind
        /\ kind = "number" => ~g.is_carousel
        /\ is_moving(g.animation) => kind # "number" /\ Quiet(g.buttons)
    BY DEF EntryPage
  <2>3. is_moving(m.animation) => kind # "number" /\ Quiet(m.buttons)
    BY <1>3, <2>2 DEF Quiet
  <2>4. MoverFits(m.holding, m.buttons)
    BY <1>3, <1>5, <2>2 DEF MoverFits
  <2>5. EntryPage(m, kind, d, ready)
    BY <1>3, <2>1, <2>2, <2>3, <2>4 DEF EntryPage
  <2> QED BY <1>2, <1>3, <2>5
<1> QED BY <1>4, <1>5

\* Nothing that the user did is half-way done.
Resting(g) == Quiet(g.buttons) /\ ~is_moving(g.holding) /\ ~is_moving(g.animation)

\* How an event may turn the page g into the outcome r.  A choice is made only
\* while both buttons are, or were, down.
PageStep(g, r, kind, d, ready) ==
    \/ /\ r.choice = NoChoice
       /\ EntryPage(r.page, kind, d, Ready(g.buttons, r.page.buttons, ready))
    \/ /\ Middle(g.buttons.state)
       /\ EntryPage(r.page, kind, d, FALSE) /\ Resting(r.page)
       /\ \E long \in BOOLEAN : r.choice = Chosen(r.page, long)

LEMMA MessageFields ==
    ASSUME NEW p, NEW long
    PROVE  /\ NoMsg.of = "None" /\ Pressed(p).of = "Pressed" /\ Pressed(p).pos = p
           /\ Triggered(p, long).of = "Triggered" /\ Triggered(p, long).pos = p
           /\ Triggered(p, long).long = long
           /\ LongPressed(p).of = "LongPressed" /\ LongPressed(p).pos = p
  BY DEF NoMsg, Pressed, Triggered, LongPressed

LEMMA MoverFields ==
    ASSUME NEW m, IsMover(m), NEW b \in PhysicalButton
    PROVE  /\ IsMover(stop_moving(m)) /\ ~is_moving(stop_moving(m)) /\ ~stop_moving(m).timer
           /\ IsMover(start_moving(b)) /\ is_moving(start_moving(b)) /\ start_moving(b).dir = b
           /\ IsMover(mover_event(m)) /\ mover_event(m).dir = m.dir
           /\ mover_event(m).timer = m.timer
<1>1. /\ IsMover(start_moving(b)) /\ is_moving(start_moving(b)) /\ start_moving(b).dir = b
  BY DEF IsMover, start_moving, is_moving, PhysicalButton
<1>2. IsMover(stop_moving(m)) /\ ~is_moving(stop_moving(m)) /\ ~stop_moving(m).timer
  <2>1. PICK n, f : n = "None" /\ f = FALSE
    OBVIOUS
  <2>2. stop_moving(m) = [m EXCEPT !.dir = n, !.timer = f]
    BY <2>1 DEF stop_moving
  <2> QED BY <2>1, <2>2 DEF IsMover, is_moving
<1>3. /\ IsMover(mover_event(m)) /\ mover_event(m).dir = m.dir
      /\ mover_event(m).timer = m.timer
  <2>1. PICK t : t = TRUE
    OBVIOUS
  <2>2. mover_event(m) = [m EXCEPT !.moved = t]
    BY <2>1 DEF mover_event
  <2> QED BY <2>2 DEF IsMover, is_moving
<1> QED BY <1>1, <1>2, <1>3

\* The holding mover goes on only while its button is the one that is down, or at
\* the end of a number input.
LEMMA MoverAfter ==
    ASSUME NEW g, NEW kind, NEW d, NEW ready, EntryPage(g, kind, d, ready),
           NEW e, NEW m, Turned(g.buttons, e, m), NEW h, h = Mover(g, m)
    PROVE  /\ MoverFits(h, e)
           /\ m.of \in {"Triggered", "LongPressed"} => ~is_moving(h)
<1>1. PICK c, v : c = g.buttons /\ v = g.holding
  OBVIOUS
<1>2. /\ IsMover(v) /\ e.btn = c.btn /\ (v.timer => is_moving(v))
      /\ is_moving(v) => \/ c.state = OneDown(v.dir)
                         \/ c.state = Nothing /\ c.btn[v.dir] = "Nothing"
      /\ is_moving(v) => v.dir \in PhysicalButton
  BY <1>1 DEF EntryPage, MoverFits, Turned, IsMover, is_moving
<1>3. Middle(c.state) => ~is_moving(v)
  BY <1>2, StatesDiffer DEF Middle
<1>4. /\ Stops(g, m) => h = stop_moving(v)
      /\ ~Stops(g, m) /\ Starts(g, m) => h = start_moving(m.pos)
      /\ ~Stops(g, m) /\ ~Starts(g, m) => h = v
  BY <1>1 DEF Mover
<1>5. CASE m = NoMsg
  <2>1. ~Stops(g, m) /\ ~Starts(g, m)
    BY <1>5, MessageFields DEF Stops, Starts
  <2>2. h = v /\ m.of = "None"
    BY <1>4, <1>5, <2>1, MessageFields
  <2>3. CASE e.state = c.state
    BY <1>2, <2>2, <2>3 DEF MoverFits
  <2>4. CASE Middle(c.state)
    BY <1>2, <1>3, <2>2, <2>4 DEF MoverFits
  <2>5. ASSUME NEW b \in PhysicalButton, c.state = OneDown(b), e.state = Nothing,
               c.btn[b] = "Nothing"
        PROVE  is_moving(h) => e.state = Nothing /\ e.btn[h.dir] = "Nothing"
    BY <1>2, <2>2, <2>5, StatesDiffer
  <2>6. \/ e.state = c.state \/ Middle(c.state)
        \/ \E b \in PhysicalButton : /\ c.state = OneDown(b) /\ e.state = Nothing
                                     /\ c.btn[b] = "Nothing"
    <3>1. \A b, long : m # Pressed(b) /\ m # Triggered(b, long)
      BY <1>5, MessageFields
    <3> QED BY <1>1, <3>1, Zenon DEF Turned
  <2> QED BY <1>2, <2>2, <2>3, <2>4, <2>5, <2>6 DEF MoverFits
<1>6. ASSUME NEW b \in PhysicalButton, m = Pressed(b), c.state = Nothing, e.state = OneDown(b)
      PROVE  /\ IsMover(h) /\ (h.timer => is_moving(h))
             /\ is_moving(h) => e.state = OneDown(h.dir)
  <2>1. m.of = "Pressed" /\ m.pos = b
    BY <1>6, MessageFields
  <2>2. CASE is_moving(v) /\ v.dir = b
    <3>1. ~Stops(g, m) /\ ~Starts(g, m)
      BY <1>1, <2>1, <2>2 DEF Stops, Starts
    <3> QED BY <1>2, <1>4, <1>6, <2>2, <3>1
  <2>3. CASE is_moving(v) /\ v.dir # b
    <3>1. Stops(g, m)
      BY <1>1, <2>1, <2>3 DEF Stops
    <3> QED BY <1>2, <1>4, <3>1, MoverFields
  <2>4. CASE ~is_moving(v)
    <3>1. ~Stops(g, m) /\ Starts(g, m)
      BY <1>1, <2>1, <2>4 DEF Stops, Starts
    <3> QED BY <1>2, <1>4, <1>6, <2>1, <3>1, MoverFields
  <2> QED BY <2>2, <2>3, <2>4
<1>7. ASSUME NEW b \in PhysicalButton,
             \/ m = Pressed("Middle") /\ c.state = OneDown(b)
             \/ c.state = OneDown(b) /\ \E long \in BOOLEAN : m = Triggered(b, long)
      PROVE  IsMover(h) /\ ~is_moving(h) /\ ~h.timer
  <2>1. CASE is_moving(v)
    <3>1. v.dir = b
      BY <1>2, <1>7, <2>1, StatesDiffer
    <3>2. Stops(g, m)
      <4>1. \/ m.of = "Pressed" /\ m.pos = "Middle"
            \/ m.of = "Triggered" /\ m.pos = b
        BY <1>7, MessageFields
      <4> QED BY <1>1, <2>1, <3>1, <4>1 DEF Stops, PhysicalButton
    <3> QED BY <1>2, <1>4, <3>2, MoverFields
  <2>2. CASE ~is_moving(v)
    <3>1. ~Stops(g, m)
      BY <1>1, <2>2 DEF Stops
    <3>2. ~(m.of = "Pressed" /\ m.pos \in PhysicalButton)
      BY <1>7, MessageFields DEF PhysicalButton
    <3>3. ~Starts(g, m)
      BY <3>2 DEF Starts
    <3> QED BY <1>2, <1>4, <2>2, <3>1, <3>3
  <2> QED BY <2>1, <2>2
<1>8. CASE /\ Middle(c.state)
           /\ \/ \E long \in BOOLEAN : m = Triggered("Middle", long)
              \/ m = LongPressed("Middle")
  <2>1. m.of # "Pressed" /\ ~is_moving(v)
    BY <1>3, <1>8, MessageFields
  <2>2. ~Stops(g, m) /\ ~Starts(g, m)
    BY <1>1, <2>1 DEF Stops, Starts
  <2> QED BY <1>2, <1>4, <2>1, <2>2 DEF MoverFits
<1>9. \A b : Pressed(b).of = "Pressed"
  BY MessageFields
<1> QED BY <1>1, <1>5, <1>6, <1>7, <1>8, <1>9 DEF Turned, MoverFits

LEMMA ResetFields ==
    ASSUME NEW c, IsController(c)
    PROVE  LET e == reset_state(c)
           IN  IsController(e) /\ Quiet(e) /\ e.btn = c.btn
<1>1. PICK s, n, k, t : s = Nothing /\ n = "None" /\ k = PhysicalButton /\ t = {}
  OBVIOUS
<1>2. PICK e : e = [c EXCEPT !.state = s, !.longTimer = n, !.clickable = k, !.clickTimer = t]
  OBVIOUS
<1>3. reset_state(c) = e
  BY <1>1, <1>2 DEF reset_state
<1>4. /\ IsController(e) /\ e.state = s /\ e.longTimer = n /\ e.clickTimer = t
      /\ e.btn = c.btn
  BY <1>2 DEF IsController
<1> QED BY <1>1, <1>3, <1>4 DEF Quiet

LEMMA QuietButtons ==
    ASSUME NEW c, IsController(c), Quiet(c), NEW d, NEW ready
    PROVE  EntryButtons(c, d, ready)
  BY StatesDiffer, StateTags DEF EntryButtons, Quiet, Held, Middle

\* Replacing the buttons and the holding mover of a page that is not animated.
With(g, e, v) == [g EXCEPT !.buttons = e, !.holding = v]

LEMMA WithButtons ==
    ASSUME NEW g, NEW kind, NEW d, NEW ready, EntryPage(g, kind, d, ready),
           ~is_moving(g.animation),
           NEW e, NEW v, NEW d2, NEW ready2, EntryButtons(e, d2, ready2), e.btn = g.buttons.btn,
           MoverFits(v, e)
    PROVE  LET h == With(g, e, v)
           IN  /\ EntryPage(h, kind, d2, ready2) /\ h.buttons = e /\ h.holding = v
               /\ ~is_moving(h.animation) /\ h.choices = g.choices /\ h.page = g.page
<1>0. PICK h : h = With(g, e, v)
  OBVIOUS
<1>1. /\ IsChoicePage(h) /\ h.buttons = e /\ h.holding = v /\ h.animation = g.animation
      /\ h.choices = g.choices /\ h.page = g.page /\ h.is_carousel = g.is_carousel
  BY <1>0 DEF EntryPage, IsChoicePage, With
<1>2. EntryPage(h, kind, d2, ready2)
  BY <1>1 DEF EntryPage
<1> QED BY <1>0, <1>1, <1>2

LEMMA Reacts ==
    ASSUME NEW g, NEW kind, NEW d, NEW ready \in BOOLEAN, EntryPage(g, kind, d, ready),
           ~is_moving(g.animation),
           NEW o, NEW d2, Turned(g.buttons, o.buttons, o.msg),
           EntryButtons(o.buttons, d2, Ready(g.buttons, o.buttons, ready))
    PROVE  PageStep(g, React(g, o), kind, d2, ready)
<1>1. PICK e, m : e = o.buttons /\ m = o.msg
  OBVIOUS
<1>2. PICK v : v = Mover(g, m)
  OBVIOUS
<1>3. PICK h : h = With(g, e, v)
  OBVIOUS
<1>4. PICK ready2 : ready2 = Ready(g.buttons, e, ready)
  OBVIOUS
<1>5. /\ Turned(g.buttons, e, m) /\ EntryButtons(e, d2, ready2)
      /\ e.btn = g.buttons.btn
  BY <1>1, <1>4 DEF Turned
<1>6. /\ MoverFits(v, e)
      /\ m.of \in {"Triggered", "LongPressed"} => ~is_moving(v)
  BY <1>2, <1>5, MoverAfter
<1>7. /\ EntryPage(h, kind, d2, ready2) /\ h.buttons = e /\ h.holding = v
      /\ ~is_moving(h.animation)
  BY <1>3, <1>5, <1>6, WithButtons
<1>8. CASE React(g, o) = PageOutcome(h, NoChoice)
  <2>1. React(g, o).choice = NoChoice /\ React(g, o).page = h
    BY <1>8 DEF PageOutcome
  <2> QED BY <1>4, <1>7, <2>1 DEF PageStep
<1>9. ASSUME NEW b, m.of = "Triggered", React(g, o) = PageOutcome(Move(h, b), NoChoice)
      PROVE  PageStep(g, React(g, o), kind, d2, ready)
  <2>1. PICK n : n = Move(h, b)
    OBVIOUS
  <2>2. EntryPage(n, kind, d2, ready2) /\ n.buttons.state = e.state
    BY <1>6, <1>7, <1>9, <2>1, MoveKeeps
  <2>3. React(g, o).choice = NoChoice /\ React(g, o).page = n
    BY <1>9, <2>1 DEF PageOutcome
  <2>4. ready2 = Ready(g.buttons, n.buttons, ready)
    BY <1>4, <2>2 DEF Ready
  <2> QED BY <2>2, <2>3, <2>4 DEF PageStep
<1>10. CASE m.of = "Triggered" /\ m.pos = "Middle" /\
            React(g, o) = PageOutcome(h, Chosen(h, m.long))
  <2>1. /\ Middle(g.buttons.state) /\ Quiet(e)
        /\ \E long \in BOOLEAN : m = Triggered("Middle", long)
    <3>1. \A b : m # NoMsg /\ m # Pressed(b) /\ m # LongPressed(b)
      BY <1>10, MessageFields
    <3>2. \A b \in PhysicalButton : \A long : m # Triggered(b, long)
      BY <1>10, MessageFields DEF PhysicalButton
    <3> QED BY <1>1, <3>1, <3>2, Zenon DEF Turned
  <2>2. m.long \in BOOLEAN
    BY <2>1, MessageFields
  <2>3. EntryButtons(e, d2, FALSE)
    BY <1>1, <2>1, QuietButtons DEF EntryButtons
  <2>4. EntryPage(h, kind, d2, FALSE)
    BY <1>3, <1>5, <1>6, <2>3, WithButtons
  <2>5. Resting(h)
    BY <1>6, <1>7, <1>10, <2>1 DEF Resting
  <2>6. React(g, o).choice = Chosen(h, m.long) /\ React(g, o).page = h
    BY <1>10 DEF PageOutcome
  <2> QED BY <2>1, <2>2, <2>4, <2>5, <2>6 DEF PageStep
<1>11. CASE m = LongPressed("Middle") /\
            React(g, o) = PageOutcome([h EXCEPT !.buttons = reset_state(@)], Chosen(h, TRUE))
  <2>1. PICK x : x = reset_state(e)
    OBVIOUS
  <2>2. IsController(x) /\ Quiet(x) /\ x.btn = g.buttons.btn
    BY <1>1, <1>5, <2>1, ResetFields DEF EntryButtons
  <2>3. ~is_moving(v) /\ m.of = "LongPressed"
    BY <1>6, <1>11, MessageFields
  <2>4. PICK n : n = With(g, x, v)
    OBVIOUS
  <2>5. n = [h EXCEPT !.buttons = x]
    BY <1>3, <2>4 DEF EntryPage, IsChoicePage, With
  <2>6. /\ EntryPage(n, kind, d2, FALSE) /\ n.buttons = x /\ n.holding = v
        /\ ~is_moving(n.animation) /\ n.choices = g.choices /\ n.page = g.page
    <3>0. PICK f : f = FALSE
      OBVIOUS
    <3>1. EntryButtons(x, d2, f)
      BY <2>2, QuietButtons
    <3>2. MoverFits(v, x)
      BY <1>6, <2>3 DEF MoverFits
    <3>3. /\ EntryPage(n, kind, d2, f) /\ n.buttons = x /\ n.holding = v
          /\ ~is_moving(n.animation) /\ n.choices = g.choices /\ n.page = g.page
      BY <2>2, <2>4, <3>1, <3>2, WithButtons
    <3> QED BY <3>0, <3>3, Zenon
  <2>7. h.choices = g.choices /\ h.page = g.page
    BY <1>3 DEF EntryPage, IsChoicePage, With
  <2>8. Middle(g.buttons.state)
    <3>1. \A b, long : m # NoMsg /\ m # Pressed(b) /\ m # Triggered(b, long)
      BY <2>3, MessageFields
    <3> QED BY <1>1, <3>1, Zenon DEF Turned
  <2>9. React(g, o).page = n /\ React(g, o).choice = Chosen(n, TRUE)
    <3>1. React(g, o) = PageOutcome(n, Chosen(h, TRUE))
      <4>1. [h EXCEPT !.buttons = reset_state(@)] = n
        BY <1>7, <2>1, <2>5 DEF EntryPage, IsChoicePage
      <4> QED BY <1>11, <4>1
    <3>2. PICK t : t = TRUE
      OBVIOUS
    <3>3. Chosen(h, t) = Chosen(n, t)
      BY <2>6, <2>7 DEF Chosen
    <3>4. PICK y : y = Chosen(n, t)
      OBVIOUS
    <3>5. React(g, o) = PageOutcome(n, y)
      BY <3>1, <3>2, <3>3, <3>4, Zenon
    <3>6. React(g, o).page = n /\ React(g, o).choice = y
      BY <3>5 DEF PageOutcome
    <3> QED BY <3>2, <3>4, <3>6, Zenon
  <2>10. Resting(n)
    BY <2>2, <2>3, <2>6 DEF Resting
  <2> QED BY <2>6, <2>8, <2>9, <2>10 DEF PageStep
<1>12. \/ React(g, o) = PageOutcome(h, NoChoice)
       \/ m.of = "Triggered" /\ React(g, o) = PageOutcome(Move(h, m.pos), NoChoice)
       \/ /\ m.of = "Triggered" /\ m.pos = "Middle"
          /\ React(g, o) = PageOutcome(h, Chosen(h, m.long))
       \/ /\ m = LongPressed("Middle")
          /\ React(g, o) = PageOutcome([h EXCEPT !.buttons = reset_state(@)], Chosen(h, TRUE))
  <2> DEFINE stops == Stops(g, m) /\ g.holding.moved
             long == m = LongPressed("Middle") /\ without_release(h.choices, h.page)
  <2>0. LongPressed("Middle").of = "LongPressed"
    BY MessageFields
  <2>1. CASE stops
    <3>1. m.of \in {"Triggered", "Pressed"}
      BY <2>1 DEF Stops
    <3>2. ~long /\ ~(~stops /\ m.of = "Triggered")
      BY <2>0, <2>1, <3>1
    <3> QED BY <1>1, <1>2, <1>3, <2>1, <3>2, Zenon DEF React, With
  <2>2. CASE ~stops /\ m.of = "Triggered"
    <3>1. ~long
      BY <2>0, <2>2
    <3>2. React(g, o) = IF m.pos = "Middle" THEN PageOutcome(h, Chosen(h, m.long))
                        ELSE PageOutcome(Move(h, m.pos), NoChoice)
      BY <1>1, <1>2, <1>3, <2>2, <3>1, Zenon DEF React, With
    <3> QED BY <2>2, <3>2
  <2>3. CASE ~stops /\ m.of # "Triggered" /\ long
    BY <1>1, <1>2, <1>3, <2>3, Zenon DEF React, With
  <2>4. CASE ~stops /\ m.of # "Triggered" /\ ~long
    BY <1>1, <1>2, <1>3, <2>4, Zenon DEF React, With
  <2> QED BY <2>1, <2>2, <2>3, <2>4
<1> QED BY <1>8, <1>9, <1>10, <1>11, <1>12

LEMMA AnimationEvent ==
    ASSUME NEW g, NEW kind, NEW d, NEW ready, EntryPage(g, kind, d, ready)
    PROVE  LET h == animation_event(g)
           IN  /\ EntryPage(h, kind, d, ready) /\ h.buttons = g.buttons
               /\ h.holding = g.holding /\ h.page = g.page
               /\ ~Ignoring(g) => ~is_moving(h.animation)
<1>1. CASE g.steps = 0
  <2>1. PICK v : v = stop_moving(g.animation)
    OBVIOUS
  <2>2. IsMover(v) /\ ~is_moving(v)
    BY <2>1, MoverFields DEF EntryPage, PhysicalButton
  <2>3. PICK h : h = [g EXCEPT !.animation = v]
    OBVIOUS
  <2>4. animation_event(g) = h
    BY <1>1, <2>1, <2>3 DEF animation_event
  <2>5. /\ IsChoicePage(h) /\ h.choices = g.choices /\ h.page = g.page
        /\ h.is_carousel = g.is_carousel /\ h.buttons = g.buttons /\ h.holding = g.holding
        /\ h.animation = v
    BY <2>3 DEF EntryPage, IsChoicePage
  <2>6. EntryPage(h, kind, d, ready)
    BY <2>2, <2>5 DEF EntryPage
  <2> QED BY <2>2, <2>4, <2>5, <2>6
<1>2. CASE g.steps # 0
  BY <1>2 DEF animation_event, Ignoring
<1> QED BY <1>1, <1>2

\* While the page is animated, the holding mover is at rest.
LEMMA QuietHolding ==
    ASSUME NEW g, NEW kind, NEW d, NEW ready, EntryPage(g, kind, d, ready),
           is_moving(g.animation)
    PROVE  ~is_moving(g.holding)
<1> SUFFICES ASSUME is_moving(g.holding) PROVE FALSE
  OBVIOUS
<1>1. Quiet(g.buttons) /\ kind # "number"
  BY DEF EntryPage
<1>2. /\ g.holding.dir \in PhysicalButton
      /\ \/ g.buttons.state = OneDown(g.holding.dir)
         \/ g.buttons.btn[g.holding.dir] = "Nothing"
  BY DEF EntryPage, MoverFits, IsMover, is_moving
<1>3. g.buttons.btn[g.holding.dir] # "Nothing"
  BY <1>1, <1>2, LayoutOf DEF EntryPage, PhysicalButton
<1> QED BY <1>1, <1>2, <1>3, StatesDiffer DEF Quiet

\* While the page ignores the events, no press is half-way done, so it does not
\* matter which buttons are held down.
LEMMA WhileIgnoring ==
    ASSUME NEW g, NEW kind, NEW d, NEW ready, EntryPage(g, kind, d, ready), Ignoring(g),
           NEW d2, NEW ready2
    PROVE  EntryPage(g, kind, d2, ready2) /\ Quiet(g.buttons) /\ ~is_moving(g.holding)
<1>1. is_moving(g.animation)
  BY DEF Ignoring
<1>2. Quiet(g.buttons)
  BY <1>1 DEF EntryPage
<1>3. EntryButtons(g.buttons, d2, ready2)
  BY <1>2, QuietButtons DEF EntryPage, EntryButtons
<1> QED BY <1>1, <1>2, <1>3, QuietHolding DEF EntryPage

\* An event that goes to the buttons.
LEMMA EventStep ==
    ASSUME NEW g, NEW kind, NEW d, NEW ready \in BOOLEAN, EntryPage(g, kind, d, ready),
           NEW outcomes, NEW d2,
           \A o \in outcomes : /\ Turned(g.buttons, o.buttons, o.msg)
                               /\ EntryButtons(o.buttons, d2, Ready(g.buttons, o.buttons, ready)),
           NEW r \in ToButtons(g, outcomes)
    PROVE  PageStep(g, r, kind, d2, ready)
<1>1. CASE Ignoring(g)
  <2>1. r = PageOutcome(g, NoChoice)
    BY <1>1 DEF ToButtons
  <2>2. r.page = g /\ r.choice = NoChoice
    BY <2>1 DEF PageOutcome
  <2>3. EntryPage(g, kind, d2, Ready(g.buttons, g.buttons, ready))
    BY <1>1, WhileIgnoring
  <2> QED BY <2>2, <2>3 DEF PageStep
<1>2. CASE ~Ignoring(g)
  <2>1. PICK h : h = animation_event(g)
    OBVIOUS
  <2>2. EntryPage(h, kind, d, ready) /\ h.buttons = g.buttons /\ ~is_moving(h.animation)
    BY <1>2, <2>1, AnimationEvent
  <2>3. PICK o \in outcomes : r = React(h, o)
    BY <1>2, <2>1 DEF ToButtons
  <2>4. /\ Turned(h.buttons, o.buttons, o.msg)
        /\ EntryButtons(o.buttons, d2, Ready(h.buttons, o.buttons, ready))
    BY <2>2
  <2>5. PageStep(h, r, kind, d2, ready)
    BY <2>2, <2>3, <2>4, Reacts
  <2> QED BY <2>2, <2>5 DEF PageStep
<1> QED BY <1>1, <1>2

LEMMA EntryFields ==
    ASSUME NEW g, NEW kind, NEW d, NEW ready, EntryPage(g, kind, d, ready)
    PROVE  EntryButtons(g.buttons, d, ready) /\ EntryLayout(g.buttons.btn)
  BY LayoutOf DEF EntryPage

LEMMA PressStep ==
    ASSUME NEW g, NEW kind, NEW d \in SUBSET PhysicalButton, NEW ready \in BOOLEAN,
           EntryPage(g, kind, d, ready),
           NEW b \in PhysicalButton \ d, NEW r \in PagePress(g, b)
    PROVE  PageStep(g, r, kind, d \cup {b}, ready)
<1>1. PICK c, d2 : c = g.buttons /\ d2 = d \cup {b}
  OBVIOUS
<1>2. \A o \in ButtonPressed(c, b) : /\ Turned(c, o.buttons, o.msg)
                                     /\ EntryButtons(o.buttons, d2, Ready(c, o.buttons, ready))
  BY <1>1, EntryFields, EntryPress
<1>3. r \in ToButtons(g, ButtonPressed(c, b))
  BY <1>1 DEF PagePress
<1> QED BY <1>1, <1>2, <1>3, EventStep

LEMMA ReleaseStep ==
    ASSUME NEW g, NEW kind, NEW d \in SUBSET PhysicalButton, NEW ready \in BOOLEAN,
           EntryPage(g, kind, d, ready), NEW b \in d, NEW r \in PageRelease(g, b)
    PROVE  PageStep(g, r, kind, d \ {b}, ready)
<1>1. PICK c, d2 : c = g.buttons /\ d2 = d \ {b}
  OBVIOUS
<1>2. \A o \in ButtonReleased(c, b) : /\ Turned(c, o.buttons, o.msg)
                                      /\ EntryButtons(o.buttons, d2, Ready(c, o.buttons, ready))
  BY <1>1, EntryFields, EntryRelease
<1>3. r \in ToButtons(g, ButtonReleased(c, b))
  BY <1>1 DEF PageRelease
<1> QED BY <1>1, <1>2, <1>3, EventStep

LEMMA ClickTimerStep ==
    ASSUME NEW g, NEW kind, NEW d, NEW ready \in BOOLEAN, EntryPage(g, kind, d, ready),
           NEW b \in g.buttons.clickTimer, NEW r \in PageClickTimer(g, b)
    PROVE  PageStep(g, r, kind, d, ready)
<1>1. PICK c : c = g.buttons
  OBVIOUS
<1>2. ~Ignoring(g)
  BY WhileIgnoring DEF Quiet
<1>3. \A o \in ClickTimer(c, b) : /\ Turned(c, o.buttons, o.msg)
                                  /\ EntryButtons(o.buttons, d, Ready(c, o.buttons, ready))
  BY <1>1, EntryFields, EntryClickTimer
<1>4. r \in ToButtons(g, ClickTimer(c, b))
  BY <1>1, <1>2 DEF PageClickTimer
<1> QED BY <1>1, <1>3, <1>4, EventStep

LEMMA LongTimerStep ==
    ASSUME NEW g, NEW kind, NEW d, NEW ready \in BOOLEAN, EntryPage(g, kind, d, ready),
           g.buttons.longTimer # "None", NEW r \in PageLongTimer(g)
    PROVE  PageStep(g, r, kind, d, ready)
<1>1. PICK c : c = g.buttons
  OBVIOUS
<1>2. ~Ignoring(g)
  BY WhileIgnoring DEF Quiet
<1>3. \A o \in LongTimer(c) : /\ Turned(c, o.buttons, o.msg)
                              /\ EntryButtons(o.buttons, d, Ready(c, o.buttons, ready))
  BY <1>1, EntryFields, EntryLongTimer
<1>4. r \in ToButtons(g, LongTimer(c))
  BY <1>1, <1>2 DEF PageLongTimer
<1> QED BY <1>1, <1>3, <1>4, EventStep

\* The holding mover moves the page only while its button is held.
LEMMA HoldingTimerStep ==
    ASSUME NEW g, NEW kind, NEW d, NEW ready \in BOOLEAN, EntryPage(g, kind, d, ready),
           g.holding.timer
    PROVE  LET r == PageHoldingTimer(g)
           IN  /\ PageStep(g, r, kind, d, ready) /\ r.choice = NoChoice
               /\ r.page.page # g.page => g.buttons.state = OneDown(g.holding.dir)
<1>1. is_moving(g.holding)
  BY DEF EntryPage, MoverFits, IsMover
<1>2. ~Ignoring(g)
  BY <1>1, WhileIgnoring
<1>3. PICK h : h = animation_event(g)
  OBVIOUS
<1>4. /\ EntryPage(h, kind, d, ready) /\ h.buttons = g.buttons /\ h.holding = g.holding
      /\ ~is_moving(h.animation) /\ h.page = g.page
  BY <1>2, <1>3, AnimationEvent
<1>5. PICK v : v = mover_event(h.holding)
  OBVIOUS
<1>6. IsMover(v) /\ v.dir = g.holding.dir /\ v.timer = g.holding.timer
  <2>1. IsMover(h.holding) /\ "Left" \in PhysicalButton
    BY <1>4 DEF EntryPage, MoverFits, PhysicalButton
  <2> QED BY <1>4, <1>5, <2>1, MoverFields
<1>7. MoverFits(v, h.buttons)
  BY <1>4, <1>6 DEF EntryPage, MoverFits, is_moving
<1>8. PICK n : n = With(h, h.buttons, v)
  OBVIOUS
<1>9. /\ EntryPage(n, kind, d, ready) /\ n.buttons = h.buttons /\ n.holding = v
      /\ n.page = h.page
  <2>1. EntryButtons(h.buttons, d, ready)
    BY <1>4, EntryFields
  <2> QED BY <1>4, <1>7, <1>8, <2>1, WithButtons
<1>10. PICK m : m = Move(n, v.dir)
  OBVIOUS
<1>11. PageHoldingTimer(g) = PageOutcome(m, NoChoice)
  <2>1. n = [h EXCEPT !.holding = v]
    BY <1>4, <1>8 DEF With, EntryPage, IsChoicePage
  <2>2. [h EXCEPT !.holding = mover_event(@)] = n
    BY <1>5, <2>1
  <2> QED BY <1>2, <1>3, <1>4, <1>6, <1>10, <2>2, Zenon DEF PageHoldingTimer
<1>12. PageHoldingTimer(g).page = m /\ PageHoldingTimer(g).choice = NoChoice
  BY <1>11 DEF PageOutcome
<1>13. EntryPage(m, kind, d, ready) /\ m.buttons.state = g.buttons.state
  BY <1>4, <1>9, <1>10, MoveKeeps
<1>14. ready = Ready(g.buttons, m.buttons, ready)
  BY <1>13 DEF Ready
<1>15. PageStep(g, PageHoldingTimer(g), kind, d, ready)
  BY <1>12, <1>13, <1>14 DEF PageStep
<1>16. ASSUME g.buttons.state # OneDown(g.holding.dir) PROVE m.page = g.page
  <2>1. n.buttons.btn[v.dir] = "Nothing" /\ v.dir \in PhysicalButton
    BY <1>1, <1>4, <1>6, <1>9, <1>16 DEF EntryPage, MoverFits, IsMover, is_moving
  <2>2. n.buttons.btn = btn_layout(n.choices, n.page)
    BY <1>9 DEF EntryPage
  <2>3. n.choices.of = "number" /\ ~n.is_carousel
    BY <1>9, <2>1, <2>2, LayoutOf DEF EntryPage, PhysicalButton
  <2> QED BY <1>4, <1>9, <1>10, <2>1, <2>2, <2>3, NoMove
<1> QED BY <1>12, <1>15, <1>16

LEMMA AnimationTimerStep ==
    ASSUME NEW g, NEW kind, NEW d, NEW ready \in BOOLEAN, EntryPage(g, kind, d, ready),
           g.animation.timer
    PROVE  PageStep(g, PageAnimationTimer(g), kind, d, ready)
<1>1. CASE g.steps = 0
  <2>1. PICK h : h = animation_event(g)
    OBVIOUS
  <2>2. EntryPage(h, kind, d, ready) /\ h.buttons = g.buttons
    BY <2>1, AnimationEvent
  <2>3. PageAnimationTimer(g).page = h /\ PageAnimationTimer(g).choice = NoChoice
    BY <1>1, <2>1 DEF PageAnimationTimer, PageOutcome
  <2>4. ready = Ready(g.buttons, h.buttons, ready)
    BY <2>2 DEF Ready
  <2> QED BY <2>2, <2>3, <2>4 DEF PageStep
<1>2. CASE g.steps # 0 /\ is_moving(g.animation)
  <2>1. PICK v, n : /\ v = mover_event(g.animation)
                    /\ n = IF g.steps > 0 THEN g.steps - 1 ELSE g.steps + 1
    OBVIOUS
  <2>2. PICK h : h = [g EXCEPT !.animation = v, !.steps = n]
    OBVIOUS
  <2>3. IsMover(v) /\ v.dir = g.animation.dir
    <3>1. IsMover(g.animation) /\ "Left" \in PhysicalButton
      BY DEF EntryPage, PhysicalButton
    <3> QED BY <2>1, <3>1, MoverFields
  <2>4. /\ IsChoicePage(h) /\ h.choices = g.choices /\ h.page = g.page
        /\ h.is_carousel = g.is_carousel /\ h.buttons = g.buttons /\ h.holding = g.holding
        /\ h.animation = v
    BY <2>2 DEF EntryPage, IsChoicePage
  <2>5. EntryPage(h, kind, d, ready)
    BY <2>3, <2>4 DEF EntryPage, is_moving
  <2>6. PICK m : m = Move(h, g.animation.dir)
    OBVIOUS
  <2>7. ~is_moving(h.holding)
    <3>1. Ignoring(g)
      BY <1>2 DEF Ignoring
    <3> QED BY <2>4, <3>1, WhileIgnoring
  <2>8. EntryPage(m, kind, d, ready) /\ m.buttons.state = g.buttons.state
    BY <2>4, <2>5, <2>6, <2>7, MoveKeeps
  <2>9. PageAnimationTimer(g) = PageOutcome(m, NoChoice)
    <3>1. h = [g EXCEPT !.animation = mover_event(@),
                        !.steps = IF @ > 0 THEN @ - 1 ELSE @ + 1]
      BY <2>1, <2>2 DEF EntryPage, IsChoicePage
    <3> QED BY <1>2, <2>6, <3>1, Zenon DEF PageAnimationTimer
  <2>10. PageAnimationTimer(g).page = m /\ PageAnimationTimer(g).choice = NoChoice
    BY <2>9 DEF PageOutcome
  <2>11. ready = Ready(g.buttons, m.buttons, ready)
    BY <2>8 DEF Ready
  <2> QED BY <2>8, <2>10, <2>11 DEF PageStep
<1>3. is_moving(g.animation)
  BY DEF EntryPage, IsMover
<1> QED BY <1>1, <1>2, <1>3

----------------------------------------------------------------------------
(* The entries. *)

LEMMA RestingPage ==
    ASSUME NEW g, NEW kind, NEW d, NEW ready, EntryPage(g, kind, d, ready), Resting(g),
           NEW d2, NEW ready2
    PROVE  EntryPage(g, kind, d2, ready2)
<1>1. EntryButtons(g.buttons, d2, ready2)
  BY QuietButtons DEF EntryPage, EntryButtons, Resting
<1> QED BY <1>1 DEF EntryPage

LEMMA SetCounterKeeps ==
    ASSUME NEW g, NEW kind, NEW d, NEW ready, EntryPage(g, kind, d, ready), Resting(g),
           kind # "number", NEW i
    PROVE  EntryPage(set_page_counter(g, i), kind, d, ready)
<1>1. PICK s : s = animated_steps(g, i)
  OBVIOUS
<1>2. PICK b : b = IF s > 0 THEN "Right" ELSE "Left"
  OBVIOUS
<1>3. PICK v : v = start_moving(b)
  OBVIOUS
<1>4. IsMover(v)
  <2>1. b \in PhysicalButton
    BY <1>2 DEF PhysicalButton
  <2> QED BY <1>3, <2>1 DEF start_moving, IsMover, is_moving, PhysicalButton
<1>5. PICK h : h = [g EXCEPT !.steps = s, !.animation = v]
  OBVIOUS
<1>6. set_page_counter(g, i) = h
  BY <1>1, <1>2, <1>3, <1>5 DEF set_page_counter
<1>7. /\ IsChoicePage(h) /\ h.choices = g.choices /\ h.page = g.page
      /\ h.is_carousel = g.is_carousel /\ h.buttons = g.buttons /\ h.holding = g.holding
      /\ h.animation = v
  BY <1>5 DEF EntryPage, IsChoicePage
<1>8. EntryPage(h, kind, d, ready)
  BY <1>4, <1>7 DEF EntryPage, Resting
<1> QED BY <1>6, <1>8

LEMMA ResetKeeps ==
    ASSUME NEW g, NEW kind, NEW d, NEW ready, EntryPage(g, kind, d, ready), Resting(g),
           kind # "number", NEW ch, ch.of = kind, NEW i, NEW carousel
    PROVE  EntryPage(reset(g, ch, i, carousel), kind, d, ready)
<1>1. PICK h : h = [g EXCEPT !.choices = ch, !.page = i, !.is_carousel = carousel]
  OBVIOUS
<1>2. /\ IsChoicePage(h) /\ h.choices = ch /\ h.page = i /\ h.buttons = g.buttons
      /\ h.holding = g.holding /\ h.animation = g.animation
  BY <1>1 DEF EntryPage, IsChoicePage
<1>3. PICK u : u = update(h)
  OBVIOUS
<1>4. EntryButtons(g.buttons, d, ready) /\ IsController(g.buttons)
  BY DEF EntryPage, EntryButtons
<1>5. /\ IsChoicePage(u) /\ u.choices = ch /\ u.page = i /\ u.holding = g.holding
      /\ u.animation = g.animation /\ IsController(u.buttons)
      /\ u.buttons.state = g.buttons.state /\ u.buttons.clickTimer = g.buttons.clickTimer
      /\ u.buttons.longTimer = g.buttons.longTimer
      /\ u.buttons.btn = btn_layout(u.choices, u.page)
  BY <1>2, <1>3, <1>4, UpdateFields
<1>6. EntryButtons(u.buttons, d, ready)
  BY <1>4, <1>5, SameButtons
<1>7. MoverFits(u.holding, u.buttons)
  BY <1>5 DEF EntryPage, MoverFits, Resting
<1>8. EntryPage(u, kind, d, ready)
  BY <1>5, <1>6, <1>7 DEF EntryPage, Resting
<1> QED BY <1>1, <1>3, <1>8 DEF reset

\* What an entry may do to its page when a choice is made.
Follows(q, g, kind) ==
    \/ q = g
    \/ kind # "number" /\ \E i : q = set_page_counter(g, i)
    \/ /\ kind # "number"
       /\ \E ch, i, carousel : ch.of = kind /\ q = reset(g, ch, i, carousel)

LEMMA FollowsKeeps ==
    ASSUME NEW g, NEW kind, NEW d, NEW ready, EntryPage(g, kind, d, ready), Resting(g),
           NEW q, Follows(q, g, kind)
    PROVE  EntryPage(q, kind, d, ready)
  BY SetCounterKeeps, ResetKeeps DEF Follows

LEMMA StayPage ==
    ASSUME NEW g, NEW t, NEW res, NEW r \in Stay(g, t) \cup Return(g, t, res)
    PROVE  r.page = g
  BY DEF Stay, Return

LEMMA PinFollows ==
    ASSUME NEW g, NEW t, NEW c, NEW r \in PinChosen(g, t, c)
    PROVE  Follows(r.page, g, "pin")
<1>1. \/ \E u, res : r \in Stay(g, u) \cup Return(g, u, res)
      \/ \E i, u : r \in Stay(set_page_counter(g, i), u)
  BY DEF PinChosen
<1>2. CASE \E u, res : r \in Stay(g, u) \cup Return(g, u, res)
  BY <1>2, StayPage DEF Follows
<1>3. CASE \E i, u : r \in Stay(set_page_counter(g, i), u)
  BY <1>3, StayPage DEF Follows
<1> QED BY <1>1, <1>2, <1>3

LEMMA PassphraseFollows ==
    ASSUME NEW g, NEW t, NEW c, NEW r \in PassphraseChosen(g, t, c)
    PROVE  Follows(r.page, g, "passphrase")
<1>1. \/ \E u, res : r \in Stay(g, u) \cup Return(g, u, res)
      \/ \E i, u : r \in Stay(set_page_counter(g, i), u)
      \/ \E u, category, positions : r \in ShowCategory(g, u, category, positions)
  BY DEF PassphraseChosen
<1>2. CASE \E u, res : r \in Stay(g, u) \cup Return(g, u, res)
  BY <1>2, StayPage DEF Follows
<1>3. CASE \E i, u : r \in Stay(set_page_counter(g, i), u)
  BY <1>3, StayPage DEF Follows
<1>4. ASSUME NEW u, NEW category, NEW positions, r \in ShowCategory(g, u, category, positions)
      PROVE  Follows(r.page, g, "passphrase")
  <2>1. PICK i \in positions :
               r \in Stay(reset(g, Passphrase(category, u = << >>), i, TRUE), u)
    BY <1>4, Zenon DEF ShowCategory
  <2>2. PICK ch, carousel : ch = Passphrase(category, u = << >>) /\ carousel = TRUE
    OBVIOUS
  <2>3. r \in Stay(reset(g, ch, i, carousel), u)
    BY <2>1, <2>2, Zenon
  <2>4. r.page = reset(g, ch, i, carousel)
    BY <2>3, StayPage
  <2>5. ch.of = "passphrase"
    BY <2>2 DEF Passphrase
  <2> QED BY <2>4, <2>5 DEF Follows
<1> QED BY <1>1, <1>2, <1>3, <1>4

LEMMA WordlistFollows ==
    ASSUME NEW g, g.choices.of = "wordlist", NEW t, NEW long,
           NEW r \in WordlistChosen(g, t, Chosen(g, long))
    PROVE  Follows(r.page, g, "wordlist")
<1>1. Chosen(g, long).action \in {"Previous", "Delete", "Letter", "Word"}
  BY DEF Chosen, action
<1>2. \/ \E u, res : r \in Stay(g, u) \cup Return(g, u, res)
      \/ \E u : r \in WordlistUpdate(g, u)
  BY <1>1 DEF WordlistChosen
<1>3. CASE \E u, res : r \in Stay(g, u) \cup Return(g, u, res)
  BY <1>3, StayPage DEF Follows
<1>4. ASSUME NEW u, r \in WordlistUpdate(g, u) PROVE Follows(r.page, g, "wordlist")
  <2>1. PICK ch, i, f : ch \in WordlistChoices(u) /\ r \in Stay(reset(g, ch, i, f), u)
    BY <1>4 DEF WordlistUpdate
  <2>2. ch.of = "wordlist"
    BY <2>1 DEF WordlistChoices
  <2>3. r.page = reset(g, ch, i, f)
    BY <2>1, StayPage
  <2> QED BY <2>2, <2>3 DEF Follows
<1> QED BY <1>2, <1>3, <1>4

LEMMA ChosenKeeps ==
    ASSUME screen \in EntryScreens, NEW g, NEW d, NEW ready,
           EntryPage(g, KindOf(screen), d, ready), Resting(g), NEW t, NEW long,
           NEW r \in EntryChosen(g, t, Chosen(g, long))
    PROVE  EntryPage(r.page, KindOf(screen), d, ready)
<1>1. Follows(r.page, g, KindOf(screen))
  <2>1. CASE screen = "pin"
    BY <2>1, PinFollows DEF EntryChosen, KindOf
  <2>2. CASE screen = "passphrase"
    BY <2>2, PassphraseFollows DEF EntryChosen, KindOf
  <2>3. CASE screen \in {"wordlist", "first_word"}
    BY <2>3, WordlistFollows DEF EntryChosen, KindOf, EntryPage
  <2>4. CASE screen = "number"
    BY <2>4, StayPage DEF EntryChosen, KindOf, Follows
  <2> QED BY <2>1, <2>2, <2>3, <2>4 DEF EntryScreens
<1> QED BY <1>1, FollowsKeeps

----------------------------------------------------------------------------
(* The pages of text. *)

\* How the controller of a page of text may be turned into e with the message m.
PagesTurned(c, e, m, d) ==
    /\ PageButtons(e, d) /\ e.btn = c.btn
    /\ \/ m.of = "Triggered" /\ m.pos \in PhysicalButton
       \/ Growing(e) => e.state \in {OneDown("Right"), BothDown}

LEMMA LoaderFields ==
    ASSUME NEW c, IsController(c), c.loader \in [ButtonPos -> LoaderState],
           NEW p \in ButtonPos, NEW l \in LoaderState
    PROVE  LET e == [c EXCEPT !.loader[p] = l]
           IN  /\ IsController(e) /\ e.state = c.state /\ e.btn = c.btn
               /\ e.frame = c.frame
               /\ e.loader \in [ButtonPos -> LoaderState] /\ e.loader[p] = l
               /\ \A q \in ButtonPos : q # p => e.loader[q] = c.loader[q]
<1>1. PICK x : x = [c.loader EXCEPT ![p] = l]
  OBVIOUS
<1>2. PICK e : e = [c EXCEPT !.loader = x]
  OBVIOUS
<1>3. [c EXCEPT !.loader[p] = l] = e
  BY <1>1, <1>2
<1>4. /\ IsController(e) /\ e.state = c.state /\ e.btn = c.btn /\ e.frame = c.frame
      /\ e.loader = x
  BY <1>2 DEF IsController
<1>5. /\ x \in [ButtonPos -> LoaderState] /\ x[p] = l
      /\ \A q \in ButtonPos : q # p => x[q] = c.loader[q]
  BY <1>1
<1> QED BY <1>3, <1>4, <1>5

LEMMA HoldStarted ==
    ASSUME NEW c, IsController(c), c.loader \in [ButtonPos -> LoaderState],
           NEW p \in ButtonPos
    PROVE  LET e == hold_started(c, p)
           IN  /\ IsController(e) /\ e.state = c.state /\ e.btn = c.btn
               /\ e.loader \in [ButtonPos -> LoaderState]
               /\ \A q \in ButtonPos : q # p => e.loader[q] = c.loader[q]
<1>1. CASE IsHTC(c, p)
  <2>1. PICK l, t : l = "Growing" /\ t = TRUE
    OBVIOUS
  <2>2. PICK x : x = [c EXCEPT !.loader[p] = l]
    OBVIOUS
  <2>3. l \in LoaderState
    BY <2>1 DEF LoaderState
  <2>4. /\ IsController(x) /\ x.state = c.state /\ x.btn = c.btn
        /\ x.loader \in [ButtonPos -> LoaderState]
        /\ \A q \in ButtonPos : q # p => x.loader[q] = c.loader[q]
    BY <2>2, <2>3, LoaderFields
  <2>5. PICK e : e = [x EXCEPT !.frame = t]
    OBVIOUS
  <2>6. IsController(e) /\ e.state = x.state /\ e.btn = x.btn /\ e.loader = x.loader
    BY <2>4, <2>5 DEF IsController
  <2>7. hold_started(c, p) = e
    BY <1>1, <2>1, <2>2, <2>5 DEF hold_started
  <2> QED BY <2>4, <2>6, <2>7
<1>2. CASE ~IsHTC(c, p)
  BY <1>2 DEF hold_started
<1> QED BY <1>1, <1>2

LEMMA HoldEnded ==
    ASSUME NEW c, IsController(c), c.loader \in [ButtonPos -> LoaderState],
           NEW p \in ButtonPos
    PROVE  LET e == hold_ended(c, p)
           IN  /\ IsController(e) /\ e.state = c.state /\ e.btn = c.btn
               /\ e.loader \in [ButtonPos -> LoaderState]
               /\ IsHTC(c, p) => e.loader[p] # "Growing"
               /\ \A q \in ButtonPos : q # p => e.loader[q] = c.loader[q]
<1>1. CASE is_animating(c, p)
  <2>1. PICK l : l = "Shrinking"
    OBVIOUS
  <2>2. l \in LoaderState
    BY <2>1 DEF LoaderState
  <2>3. hold_ended(c, p) = [c EXCEPT !.loader[p] = l]
    BY <1>1, <2>1 DEF hold_ended
  <2> QED BY <2>1, <2>2, <2>3, LoaderFields
<1>2. CASE ~is_animating(c, p)
  BY <1>2 DEF hold_ended, is_animating
<1> QED BY <1>1, <1>2

LEMMA PagesPress ==
    ASSUME NEW c, NEW d \in SUBSET PhysicalButton, PageButtons(c, d), PageLayout(c.btn),
           Growing(c) => c.state \in {OneDown("Right"), BothDown},
           NEW b \in PhysicalButton \ d, NEW o \in ButtonPressed(c, b)
    PROVE  PagesTurned(c, o.buttons, o.msg, d \cup {b})
<1>0. /\ IsController(c) /\ c.loader \in [ButtonPos -> LoaderState] /\ Held(c.state, d)
      /\ b \in ButtonPos /\ "Right" \in ButtonPos /\ "Left" \in ButtonPos
      /\ "Middle" \in ButtonPos /\ "Right" \in PhysicalButton
  BY DEF PageButtons, ButtonPos, PhysicalButton
<1>1. CASE c.state = Nothing /\ ButtonPressed(c, b) =
             {Outcome(To(hold_started(got_pressed(handle_button_press(c, b), b), b), OneDown(b)),
                      Pressed(b))}
  <2>1. PICK x : x = handle_button_press(c, b)
    OBVIOUS
  <2>2. PICK y : y = got_pressed(x, b)
    OBVIOUS
  <2>3. PICK z : z = hold_started(y, b)
    OBVIOUS
  <2>4. PICK e : e = To(z, OneDown(b))
    OBVIOUS
  <2>5. IsController(x) /\ x.btn = c.btn /\ x.loader = c.loader
    BY <1>0, <2>1, HandlePressFields
  <2>6. IsController(y) /\ y.btn = c.btn /\ y.loader = c.loader
    BY <2>2, <2>5, GotPressedFields
  <2>7. /\ IsController(z) /\ z.btn = c.btn /\ z.loader \in [ButtonPos -> LoaderState]
        /\ b # "Right" => z.loader["Right"] = c.loader["Right"]
    BY <1>0, <2>3, <2>6, HoldStarted
  <2>8. /\ IsController(e) /\ e.btn = c.btn /\ e.loader = z.loader /\ e.state = OneDown(b)
    BY <2>4, <2>7, ToFields
  <2>9. o.buttons = e
    BY <1>1, <2>1, <2>2, <2>3, <2>4 DEF Outcome
  <2>10. ~Growing(c)
    BY <1>0, <1>1, StatesDiffer
  <2>11. Growing(e) => e.state = OneDown("Right")
    BY <2>7, <2>8, <2>10 DEF Growing
  <2>12. PageButtons(e, d \cup {b})
    BY <2>7, <2>8 DEF PageButtons, Held
  <2> QED BY <2>8, <2>9, <2>11, <2>12 DEF PagesTurned
<1>2. CASE \/ c.state = OneDown(Other(b)) /\ Other(b) \in d
              /\ ButtonPressed(c, b) = {Outcome(c, NoMsg)}
           \/ (\E a \in d : c.state = HTCNeedsRelease(a))
              /\ ButtonPressed(c, b) = {Outcome(c, NoMsg)}
  <2>1. o.buttons = c
    BY <1>2 DEF Outcome
  <2>2. PageButtons(c, d \cup {b})
    BY <1>0, <1>2, StatesDiffer DEF PageButtons, Held
  <2> QED BY <2>1, <2>2 DEF PagesTurned
<1>3. CASE /\ c.state = OneDown(Other(b)) /\ Other(b) \in d
           /\ ButtonPressed(c, b) = {Outcome(To(got_pressed(c, b), BothDown), Pressed(b))}
  <2>1. PICK y : y = got_pressed(c, b)
    OBVIOUS
  <2>2. PICK e : e = To(y, BothDown)
    OBVIOUS
  <2>3. IsController(y) /\ y.btn = c.btn /\ y.loader = c.loader
    BY <1>0, <2>1, GotPressedFields
  <2>4. IsController(e) /\ e.btn = c.btn /\ e.loader = c.loader /\ e.state = BothDown
    BY <2>2, <2>3, ToFields
  <2>5. o.buttons = e
    BY <1>3, <2>1, <2>2 DEF Outcome
  <2>6. d \cup {b} = PhysicalButton
    BY <1>3, StatesDiffer
  <2>7. PageButtons(e, d \cup {b})
    BY <1>0, <2>4, <2>6 DEF PageButtons, Held
  <2> QED BY <2>4, <2>5, <2>7 DEF PagesTurned
<1>4. CASE /\ c.state = OneReleased(b) /\ d = PhysicalButton \ {b}
           /\ ButtonPressed(c, b) = {Outcome(To(middle_hold_started(c), BothDown), NoMsg)}
  <2>1. PICK x : x = hold_ended(c, "Left")
    OBVIOUS
  <2>2. PICK y : y = hold_started(x, "Middle")
    OBVIOUS
  <2>3. PICK z : z = hold_ended(y, "Right")
    OBVIOUS
  <2>4. PICK e : e = To(z, BothDown)
    OBVIOUS
  <2>5. IsController(x) /\ x.btn = c.btn /\ x.loader \in [ButtonPos -> LoaderState]
    BY <1>0, <2>1, HoldEnded
  <2>6. IsController(y) /\ y.btn = c.btn /\ y.loader \in [ButtonPos -> LoaderState]
    BY <1>0, <2>2, <2>5, HoldStarted
  <2>7. IsController(z) /\ z.btn = c.btn /\ z.loader \in [ButtonPos -> LoaderState]
    BY <1>0, <2>3, <2>6, HoldEnded
  <2>8. /\ IsController(e) /\ e.btn = c.btn /\ e.loader \in [ButtonPos -> LoaderState]
        /\ e.state = BothDown
    BY <2>4, <2>7, ToFields
  <2>9. o.buttons = e
    BY <1>4, <2>1, <2>2, <2>3, <2>4 DEF Outcome, middle_hold_started
  <2>10. d \cup {b} = PhysicalButton
    BY <1>4
  <2>11. PageButtons(e, d \cup {b})
    BY <2>8, <2>10 DEF PageButtons, Held
  <2> QED BY <2>8, <2>9, <2>11 DEF PagesTurned
<1>5. ~handle_middle_button(c)
  BY DEF handle_middle_button, PageLayout
<1> QED BY <1>0, <1>1, <1>2, <1>3, <1>4, <1>5, PressAt, Zenon

\* A release triggers a button, or nothing is being held any more.
LEMMA PagesTrigger ==
    ASSUME NEW c, IsController(c), c.loader \in [ButtonPos -> LoaderState],
           PageLayout(c.btn), NEW b \in PhysicalButton, c.state = Nothing,
           Growing(c) => b = "Right", NEW o \in maybe_trigger(c, b), NEW d
    PROVE  PagesTurned(c, o.buttons, o.msg, d)
<1>0. b \in ButtonPos /\ c.btn[b] \in {"Nothing", "Button", "HoldToConfirm"}
  BY DEF PageLayout, PhysicalButton, ButtonPos
<1>1. CASE c.btn[b] = "Button"
  <2>1. maybe_trigger(c, b) =
            {Outcome([c EXCEPT !.longTimer = IF c.longTimer = b THEN "None" ELSE @],
                     Triggered(b, long)) : long \in BOOLEAN}
    <3>1. ~IsHTC(c, b) /\ c.btn[b] # "Nothing" /\ c.btn[b] \in {"Button", "LongPress"}
      BY <1>1 DEF IsHTC
    <3> QED BY <3>1, Zenon DEF maybe_trigger
  <2>2. PICK n : n = IF c.longTimer = b THEN "None" ELSE c.longTimer
    OBVIOUS
  <2>3. PICK e : e = [c EXCEPT !.longTimer = n]
    OBVIOUS
  <2>4. IsController(e) /\ e.state = Nothing /\ e.btn = c.btn /\ e.loader = c.loader
    BY <2>3 DEF IsController
  <2>5. [c EXCEPT !.longTimer = IF c.longTimer = b THEN "None" ELSE @] = e
    BY <2>2, <2>3
  <2>6. PICK long \in BOOLEAN : o = Outcome(e, Triggered(b, long))
    BY <2>1, <2>5
  <2>7. o.buttons = e /\ o.msg = Triggered(b, long)
    BY <2>6 DEF Outcome
  <2>8. o.msg.of = "Triggered" /\ o.msg.pos \in PhysicalButton
    BY <2>7, MessageFields
  <2> QED BY <2>4, <2>7, <2>8 DEF PagesTurned, PageButtons, Held
<1>2. CASE c.btn[b] = "HoldToConfirm"
  <2>1. IsHTC(c, b) /\ c.btn[b] # "Nothing" /\ c.btn[b] \notin {"Button", "LongPress"}
    BY <1>2 DEF IsHTC
  <2>2. maybe_trigger(c, b) = {Outcome(hold_ended(c, b), ReleasedWithoutLongPress(b))}
    BY <2>1, Zenon DEF maybe_trigger
  <2>3. PICK e : e = hold_ended(c, b)
    OBVIOUS
  <2>4. o.buttons = e
    BY <2>2, <2>3 DEF Outcome
  <2>5. /\ IsController(e) /\ e.state = Nothing /\ e.btn = c.btn
        /\ e.loader \in [ButtonPos -> LoaderState] /\ e.loader[b] # "Growing"
    BY <1>0, <2>1, <2>3, HoldEnded
  <2>6. b = "Right"
    BY <1>2 DEF PageLayout, PhysicalButton
  <2> QED BY <2>4, <2>5, <2>6 DEF PagesTurned, PageButtons, Held, Growing
<1>3. CASE c.btn[b] = "Nothing"
  <2>1. ~IsHTC(c, b) /\ c.btn[b] \notin {"Button", "LongPress"}
    BY <1>3 DEF IsHTC
  <2>2. maybe_trigger(c, b) = {Outcome(c, NoMsg)}
    BY <1>3, <2>1, Zenon DEF maybe_trigger
  <2>3. o.buttons = c
    BY <2>2 DEF Outcome
  <2>4. ~Growing(c)
    BY <1>3 DEF Growing
  <2> QED BY <2>3, <2>4 DEF PagesTurned, PageButtons, Held
<1> QED BY <1>0, <1>1, <1>2, <1>3

LEMMA PagesRelease ==
    ASSUME NEW c, NEW d \in SUBSET PhysicalButton, PageButtons(c, d), PageLayout(c.btn),
           Growing(c) => c.state \in {OneDown("Right"), BothDown},
           NEW b \in d, NEW o \in ButtonReleased(c, b)
    PROVE  PagesTurned(c, o.buttons, o.msg, d \ {b})
<1> b \in PhysicalButton
  OBVIOUS
<1>0. /\ IsController(c) /\ c.loader \in [ButtonPos -> LoaderState] /\ Held(c.state, d)
      /\ "Middle" \in ButtonPos /\ "Right" \in PhysicalButton
  BY DEF PageButtons, ButtonPos, PhysicalButton
<1>1. CASE c.state = OneDown(b) /\ ButtonReleased(c, b) =
             maybe_trigger(To(make_button_clickable(c, {Other(b)}), Nothing), b)
  <2>1. PICK x : x = make_button_clickable(c, {Other(b)})
    OBVIOUS
  <2>2. PICK y : y = To(x, Nothing)
    OBVIOUS
  <2>3. IsController(x) /\ x.btn = c.btn /\ x.loader = c.loader
    BY <1>0, <2>1, ClickableFields
  <2>4. IsController(y) /\ y.btn = c.btn /\ y.loader = c.loader /\ y.state = Nothing
    BY <2>2, <2>3, ToFields
  <2>5. Growing(y) => b = "Right"
    BY <1>0, <1>1, <2>4, StatesDiffer DEF Growing
  <2>6. o \in maybe_trigger(y, b)
    BY <1>1, <2>1, <2>2
  <2>7. PagesTurned(y, o.buttons, o.msg, d \ {b})
    BY <1>0, <2>4, <2>5, <2>6, PagesTrigger
  <2> QED BY <2>4, <2>7 DEF PagesTurned
<1>2. CASE /\ c.state = BothDown /\ d = PhysicalButton
           /\ ButtonReleased(c, b) =
                 {Outcome(To(hold_ended(c, "Middle"), OneReleased(b)), Triggered(b, FALSE))}
  <2>1. PICK x : x = hold_ended(c, "Middle")
    OBVIOUS
  <2>2. PICK e, f : e = To(x, OneReleased(b)) /\ f = FALSE
    OBVIOUS
  <2>3. IsController(x) /\ x.btn = c.btn /\ x.loader \in [ButtonPos -> LoaderState]
    BY <1>0, <2>1, HoldEnded
  <2>4. /\ IsController(e) /\ e.btn = c.btn /\ e.loader \in [ButtonPos -> LoaderState]
        /\ e.state = OneReleased(b)
    BY <2>2, <2>3, ToFields
  <2>5. o = Outcome(e, Triggered(b, f))
    BY <1>2, <2>1, <2>2, Zenon
  <2>6. o.buttons = e /\ o.msg = Triggered(b, f)
    BY <2>5 DEF Outcome
  <2>7. o.msg.of = "Triggered" /\ o.msg.pos \in PhysicalButton
    BY <2>6, MessageFields
  <2>8. PageButtons(e, d \ {b})
    BY <1>2, <2>4 DEF PageButtons, Held
  <2> QED BY <2>4, <2>6, <2>7, <2>8 DEF PagesTurned
<1>3. CASE /\ c.state = OneReleased(Other(b))
           /\ ButtonReleased(c, b) =
                 {Outcome(To(make_button_clickable(c, PhysicalButton), Nothing),
                          Triggered(b, FALSE))}
  <2>1. PICK x : x = make_button_clickable(c, PhysicalButton)
    OBVIOUS
  <2>2. PICK e, f : e = To(x, Nothing) /\ f = FALSE
    OBVIOUS
  <2>3. IsController(x) /\ x.btn = c.btn /\ x.loader \in [ButtonPos -> LoaderState]
    BY <1>0, <2>1, ClickableFields
  <2>4. /\ IsController(e) /\ e.btn = c.btn /\ e.loader \in [ButtonPos -> LoaderState]
        /\ e.state = Nothing
    BY <2>2, <2>3, ToFields
  <2>5. o = Outcome(e, Triggered(b, f))
    BY <1>3, <2>1, <2>2, Zenon
  <2>6. o.buttons = e /\ o.msg = Triggered(b, f)
    BY <2>5 DEF Outcome
  <2>7. o.msg.of = "Triggered" /\ o.msg.pos \in PhysicalButton
    BY <2>6, MessageFields
  <2>8. PageButtons(e, d \ {b})
    BY <2>4 DEF PageButtons, Held
  <2> QED BY <2>4, <2>6, <2>7, <2>8 DEF PagesTurned
<1>4. CASE /\ c.state = HTCNeedsRelease(b)
           /\ ButtonReleased(c, b) = {Outcome(To(c, Nothing), NoMsg)}
  <2>1. PICK e : e = To(c, Nothing)
    OBVIOUS
  <2>2. IsController(e) /\ e.btn = c.btn /\ e.loader = c.loader /\ e.state = Nothing
    BY <1>0, <2>1, ToFields
  <2>3. o.buttons = e
    BY <1>4, <2>1 DEF Outcome
  <2>4. ~Growing(e)
    BY <1>0, <1>4, <2>2, StatesDiffer DEF Growing
  <2> QED BY <1>0, <2>2, <2>3, <2>4 DEF PagesTurned, PageButtons, Held
<1>5. CASE /\ \/ c.state = Nothing
              \/ c.state \in {OneDown(Other(b)), HTCNeedsRelease(Other(b))} /\ Other(b) \in d
           /\ ButtonReleased(c, b) = {Outcome(c, NoMsg)}
  <2>1. o.buttons = c
    BY <1>5 DEF Outcome
  <2>2. Held(c.state, d \ {b})
    BY <1>5, StatesDiffer DEF Held
  <2> QED BY <1>0, <2>1, <2>2 DEF PagesTurned, PageButtons
<1>6. ~handle_middle_button(c)
  BY DEF handle_middle_button, PageLayout
<1> QED BY <1>0, <1>1, <1>2, <1>3, <1>4, <1>5, <1>6, ReleaseAt, Zenon

LEMMA NotYetFields ==
    ASSUME NEW c, IsController(c), c.loader \in [ButtonPos -> LoaderState],
           NEW ps, NEW e \in NotYet(c, ps)
    PROVE  /\ IsController(e) /\ e.state = c.state /\ e.btn = c.btn
           /\ e.loader \in [ButtonPos -> LoaderState]
           /\ \A p \in ButtonPos : e.loader[p] \in {c.loader[p], "Initial"}
<1>0. PICK ended : e = LET y == [c EXCEPT !.loader = [p \in ButtonPos |->
                                       IF p \in ended THEN "Initial" ELSE c.loader[p]]]
                       IN  [y EXCEPT !.frame = \E p \in ps : is_animating(y, p)]
  BY Zenon DEF NotYet
<1>1. PICK x : x = [p \in ButtonPos |-> IF p \in ended THEN "Initial" ELSE c.loader[p]]
  OBVIOUS
<1>2. /\ x \in [ButtonPos -> LoaderState]
      /\ \A p \in ButtonPos : x[p] \in {c.loader[p], "Initial"}
  BY <1>1 DEF LoaderState
<1>3. PICK y : y = [c EXCEPT !.loader = x]
  OBVIOUS
<1>4. IsController(y) /\ y.state = c.state /\ y.btn = c.btn /\ y.loader = x
  BY <1>3 DEF IsController
<1>5. PICK f : f = \E p \in ps : is_animating(y, p)
  OBVIOUS
<1>6. e = [y EXCEPT !.frame = f]
  BY <1>0, <1>1, <1>3, <1>5, Zenon
<1>7. IsController(e) /\ e.state = y.state /\ e.btn = y.btn /\ e.loader = y.loader
  BY <1>4, <1>6 DEF IsController
<1> QED BY <1>2, <1>4, <1>7

LEMMA PagesFrame ==
    ASSUME NEW c, NEW d \in SUBSET PhysicalButton, PageButtons(c, d), PageLayout(c.btn),
           Growing(c) => c.state \in {OneDown("Right"), BothDown},
           NEW o \in FrameTimer(c)
    PROVE  PagesTurned(c, o.buttons, o.msg, d)
<1>0. /\ IsController(c) /\ c.loader \in [ButtonPos -> LoaderState] /\ Held(c.state, d)
      /\ "Right" \in ButtonPos /\ "Right" \in PhysicalButton
  BY DEF PageButtons, ButtonPos, PhysicalButton
<1>1. \/ \E e \in NotYet(c, ButtonPos) : o = Outcome(e, NoMsg)
      \/ \E p \in ButtonPos :
            /\ IsHTC(c, p) /\ c.loader[p] = "Growing"
            /\ \E x \in NotYet(c, AskedBefore(p)) :
                  o = Outcome([x EXCEPT !.loader[p] = "Grown",
                                        !.state = IF p = "Middle" THEN Nothing
                                                  ELSE HTCNeedsRelease(p)],
                              Triggered(p, TRUE))
  BY Zenon DEF FrameTimer
<1>2. ASSUME NEW e \in NotYet(c, ButtonPos), o = Outcome(e, NoMsg)
      PROVE  PagesTurned(c, o.buttons, o.msg, d)
  <2>1. o.buttons = e
    BY <1>2 DEF Outcome
  <2>2. /\ IsController(e) /\ e.state = c.state /\ e.btn = c.btn
        /\ e.loader \in [ButtonPos -> LoaderState]
        /\ e.loader["Right"] \in {c.loader["Right"], "Initial"}
    BY <1>0, <1>2, NotYetFields
  <2>3. Growing(e) => Growing(c)
    BY <2>2 DEF Growing
  <2> QED BY <1>0, <2>1, <2>2, <2>3 DEF PagesTurned, PageButtons
<1>3. ASSUME NEW p \in ButtonPos, IsHTC(c, p), c.loader[p] = "Growing",
             NEW x \in NotYet(c, AskedBefore(p)),
             o = Outcome([x EXCEPT !.loader[p] = "Grown",
                                   !.state = IF p = "Middle" THEN Nothing
                                             ELSE HTCNeedsRelease(p)],
                         Triggered(p, TRUE))
      PROVE  PagesTurned(c, o.buttons, o.msg, d)
  <2>1. p = "Right"
    BY <1>3 DEF IsHTC, PageLayout, ButtonPos
  <2>2. c.state \in {OneDown("Right"), BothDown}
    BY <1>3, <2>1 DEF IsHTC, Growing
  <2>3. "Right" \in d
    BY <1>0, <2>2, StatesDiffer DEF Held
  <2>4. PICK l, s, t : l = "Grown" /\ s = HTCNeedsRelease(p) /\ t = TRUE
    OBVIOUS
  <2>5. l \in LoaderState
    BY <2>4 DEF LoaderState
  <2>6. PICK y : y = [x EXCEPT !.loader[p] = l]
    OBVIOUS
  <2>7. /\ IsController(x) /\ x.btn = c.btn /\ x.loader \in [ButtonPos -> LoaderState]
    BY <1>0, <1>3, NotYetFields
  <2>8. IsController(y) /\ y.btn = c.btn /\ y.loader \in [ButtonPos -> LoaderState]
    BY <2>5, <2>6, <2>7, LoaderFields
  <2>9. PICK e : e = [y EXCEPT !.state = s]
    OBVIOUS
  <2>10. IsController(e) /\ e.btn = y.btn /\ e.loader = y.loader /\ e.state = s
    BY <2>8, <2>9 DEF IsController
  <2>11. [x EXCEPT !.loader[p] = "Grown",
                   !.state = IF p = "Middle" THEN Nothing ELSE HTCNeedsRelease(p)] = e
    BY <2>1, <2>4, <2>6, <2>9
  <2>12. o = Outcome(e, Triggered(p, t))
    BY <1>3, <2>4, <2>11, Zenon
  <2>13. o.buttons = e /\ o.msg = Triggered(p, t)
    BY <2>12 DEF Outcome
  <2>14. o.msg.of = "Triggered" /\ o.msg.pos \in PhysicalButton
    BY <1>0, <2>1, <2>13, MessageFields
  <2>15. PageButtons(e, d)
    BY <1>0, <2>1, <2>3, <2>4, <2>8, <2>10 DEF PageButtons, Held
  <2> QED BY <2>8, <2>10, <2>13, <2>14, <2>15 DEF PagesTurned
<1> QED BY <1>1, <1>2, <1>3

LEMMA PageLayoutOf ==
    ASSUME NEW p, p.cancel \in {"Nothing", "Button"},
           p.confirm \in {"Nothing", "Button", "HoldToConfirm"}
    PROVE  PageLayout(page_layout(p))
  BY DEF PageLayout, page_layout

LEMMA ChangePage ==
    ASSUME NEW p, NEW d, IsButtonPage(p), p.page_count \in Nat,
           p.cancel \in {"Nothing", "Button"},
           p.confirm \in {"Nothing", "Button", "HoldToConfirm"}, PageButtons(p.buttons, d),
           NEW a \in 0 .. (p.page_count - 1)
    PROVE  TextPage(change_page(p, a), d)
<1>1. PICK q : q = [p EXCEPT !.active_page = a]
  OBVIOUS
<1>2. /\ IsButtonPage(q) /\ q.page_count = p.page_count /\ q.active_page = a
      /\ q.cancel = p.cancel /\ q.confirm = p.confirm /\ q.buttons = p.buttons
  BY <1>1 DEF IsButtonPage
<1>3. PICK l, n, c : l = page_layout(q) /\ n = NoLoaders /\ c = p.buttons
  OBVIOUS
<1>4. PICK e : e = [c EXCEPT !.btn = l, !.loader = n]
  OBVIOUS
<1>5. IsController(e) /\ e.state = c.state /\ e.btn = l /\ e.loader = n
  BY <1>3, <1>4 DEF IsController, PageButtons
<1>6. PICK r : r = [q EXCEPT !.buttons = e]
  OBVIOUS
<1>7. change_page(p, a) = r
  BY <1>1, <1>2, <1>3, <1>4, <1>6 DEF change_page, set
<1>8. /\ IsButtonPage(r) /\ r.page_count = q.page_count /\ r.active_page = q.active_page
      /\ r.cancel = q.cancel /\ r.confirm = q.confirm /\ r.buttons = e
  BY <1>2, <1>6 DEF IsButtonPage
<1>9. page_layout(r) = l
  BY <1>3, <1>8 DEF page_layout
<1>10. n \in [ButtonPos -> LoaderState] /\ n["Right"] = "Initial"
  BY <1>3 DEF NoLoaders, ButtonPos, LoaderState
<1>11. ~Growing(e)
  BY <1>5, <1>10 DEF Growing
<1>12. PageButtons(e, d)
  BY <1>3, <1>5, <1>10 DEF PageButtons
<1> QED BY <1>2, <1>5, <1>7, <1>8, <1>9, <1>11, <1>12 DEF TextPage

\* Releasing one of two buttons triggers something, and whatever is triggered
\* changes the page or closes the screen.
LEMMA PagesReact ==
    ASSUME NEW p, NEW d0, TextPage(p, d0), NEW d, NEW o,
           PagesTurned(p.buttons, o.buttons, o.msg, d)
    PROVE  PageReact(p, o).result = "None" => TextPage(PageReact(p, o).page, d)
<1>1. PICK e, m : e = o.buttons /\ m = o.msg
  OBVIOUS
<1>2. PICK q : q = [p EXCEPT !.buttons = e]
  OBVIOUS
<1>3. /\ IsButtonPage(q) /\ q.page_count = p.page_count /\ q.active_page = p.active_page
      /\ q.cancel = p.cancel /\ q.confirm = p.confirm /\ q.buttons = e
  BY <1>2 DEF TextPage, IsButtonPage
<1>4. PageButtons(e, d) /\ e.btn = p.buttons.btn
  BY <1>1 DEF PagesTurned
<1>5. /\ q.page_count \in Nat /\ q.active_page \in 0 .. (q.page_count - 1)
      /\ q.cancel \in {"Nothing", "Button"}
      /\ q.confirm \in {"Nothing", "Button", "HoldToConfirm"}
  BY <1>3 DEF TextPage
<1>6. page_layout(q) = page_layout(p)
  BY <1>3 DEF page_layout
<1> DEFINE Is(pos) == m.of = "Triggered" /\ m.pos = pos
           cases == \/ Is("Left") /\ q.active_page > 0
                    \/ Is("Left") /\ q.active_page = 0
                    \/ Is("Right") /\ q.active_page < q.page_count - 1
                    \/ Is("Right") /\ q.active_page = q.page_count - 1
<1>7. PICK lower, upper : lower = q.active_page - 1 /\ upper = q.active_page + 1
  OBVIOUS
<1>8. CASE Is("Left") /\ q.active_page > 0
  <2>1. /\ ~(Is("Left") /\ q.active_page = 0)
        /\ ~(Is("Right") /\ q.active_page < q.page_count - 1)
        /\ ~(Is("Right") /\ q.active_page = q.page_count - 1)
    BY <1>5, <1>8
  <2>2. PageReact(p, o) = [page |-> change_page(q, lower), result |-> "None"]
    BY <1>1, <1>2, <1>7, <1>8, <2>1, Zenon DEF PageReact
  <2>3. lower \in 0 .. (q.page_count - 1)
    BY <1>5, <1>7, <1>8
  <2>4. TextPage(change_page(q, lower), d)
    BY <1>3, <1>4, <1>5, <2>3, ChangePage
  <2> QED BY <2>2, <2>4
<1>9. CASE Is("Left") /\ q.active_page = 0
  <2>1. /\ ~(Is("Left") /\ q.active_page > 0)
        /\ ~(Is("Right") /\ q.active_page < q.page_count - 1)
        /\ ~(Is("Right") /\ q.active_page = q.page_count - 1)
    BY <1>5, <1>9
  <2>2. PageReact(p, o) = [page |-> q, result |-> "Cancelled"]
    BY <1>1, <1>2, <1>9, <2>1, Zenon DEF PageReact
  <2> QED BY <2>2
<1>10. CASE Is("Right") /\ q.active_page < q.page_count - 1
  <2>1. /\ ~(Is("Left") /\ q.active_page = 0)
        /\ ~(Is("Left") /\ q.active_page > 0)
        /\ ~(Is("Right") /\ q.active_page = q.page_count - 1)
    BY <1>5, <1>10
  <2>2. PageReact(p, o) = [page |-> change_page(q, upper), result |-> "None"]
    BY <1>1, <1>2, <1>7, <1>10, <2>1, Zenon DEF PageReact
  <2>3. upper \in 0 .. (q.page_count - 1)
    BY <1>5, <1>7, <1>10
  <2>4. TextPage(change_page(q, upper), d)
    BY <1>3, <1>4, <1>5, <2>3, ChangePage
  <2> QED BY <2>2, <2>4
<1>11. CASE Is("Right") /\ q.active_page = q.page_count - 1
  <2>1. /\ ~(Is("Left") /\ q.active_page = 0)
        /\ ~(Is("Left") /\ q.active_page > 0)
        /\ ~(Is("Right") /\ q.active_page < q.page_count - 1)
    BY <1>5, <1>11
  <2>2. PageReact(p, o) = [page |-> q, result |-> "Confirmed"]
    BY <1>1, <1>2, <1>11, <2>1, Zenon DEF PageReact
  <2> QED BY <2>2
<1>12. CASE ~cases
  <2>1. PageReact(p, o) = [page |-> q, result |-> "None"]
    BY <1>1, <1>2, <1>12, Zenon DEF PageReact
  <2>2. ~(m.of = "Triggered" /\ m.pos \in PhysicalButton)
    BY <1>5, <1>12 DEF PhysicalButton
  <2>3. Growing(e) => e.state \in {OneDown("Right"), BothDown}
    BY <1>1, <2>2 DEF PagesTurned
  <2>4. TextPage(q, d)
    BY <1>3, <1>4, <1>5, <1>6, <2>3 DEF TextPage
  <2> QED BY <2>1, <2>4
<1> QED BY <1>8, <1>9, <1>10, <1>11, <1>12

----------------------------------------------------------------------------
(* A new screen. *)

LEMMA NewController ==
    ASSUME NEW layout, NEW delayed
    PROVE  LET c == new_controller(layout, delayed)
           IN  /\ IsController(c) /\ Quiet(c) /\ c.btn = layout /\ c.loader = NoLoaders
  BY DEF new_controller, IsController, Quiet

LEMMA NewPage ==
    ASSUME NEW ch, NEW i, NEW carousel, ch.of = "number" => ~carousel, NEW d, NEW ready
    PROVE  EntryPage(new_page(ch, i, carousel), ch.of, d, ready)
<1>1. PICK c, t, v : /\ c = new_controller(btn_layout(ch, i), t) /\ t = TRUE
                     /\ v = new_mover
  OBVIOUS
<1>2. PICK g : g = new_page(ch, i, carousel)
  OBVIOUS
<1>3. g = [choices |-> ch, page |-> i, is_carousel |-> carousel, buttons |-> c,
           holding |-> v, animation |-> v, steps |-> 0]
  BY <1>1, <1>2, Zenon DEF new_page
<1>4. /\ IsChoicePage(g) /\ g.choices = ch /\ g.page = i /\ g.is_carousel = carousel
      /\ g.buttons = c /\ g.holding = v /\ g.animation = v
  BY <1>3 DEF IsChoicePage
<1>5. IsController(c) /\ Quiet(c) /\ c.btn = btn_layout(ch, i)
  BY <1>1, NewController
<1>6. IsMover(v) /\ ~is_moving(v)
  BY <1>1 DEF new_mover, IsMover, is_moving
<1>7. EntryButtons(c, d, ready)
  BY <1>5, QuietButtons
<1> QED BY <1>2, <1>4, <1>5, <1>6, <1>7 DEF EntryPage, MoverFits

LEMMA NewTextPage ==
    ASSUME NEW p \in ButtonPages, NEW d
    PROVE  TextPage(p, d)
<1>1. PICK n \in 1 .. MAX_PAGES, cancel \in {"Nothing", "Button"},
           confirm \in {"Nothing", "Button", "HoldToConfirm"} :
              p = new_button_page(n, cancel, confirm)
  BY DEF ButtonPages
<1>2. PICK l, c, f, z : /\ l = [Left |-> cancel, Middle |-> "Nothing",
                                Right |-> IF n > 1 THEN "Button" ELSE confirm]
                        /\ c = new_controller(l, f) /\ f = FALSE /\ z = 0
  OBVIOUS
<1>3. p = [page_count |-> n, active_page |-> z, cancel |-> cancel, confirm |-> confirm,
           buttons |-> c]
  BY <1>1, <1>2, Zenon DEF new_button_page
<1>4. /\ IsButtonPage(p) /\ p.page_count = n /\ p.active_page = 0 /\ p.cancel = cancel
      /\ p.confirm = confirm /\ p.buttons = c
  BY <1>2, <1>3 DEF IsButtonPage
<1>5. IsController(c) /\ c.state = Nothing /\ c.btn = l /\ c.loader = NoLoaders
  BY <1>2, NewController DEF Quiet
<1>6. n \in Nat \ {0}
  BY ScreensAssumption
<1>7. page_layout(p) = l
  BY <1>2, <1>4, <1>6 DEF page_layout
<1>8. c.loader \in [ButtonPos -> LoaderState] /\ c.loader["Right"] = "Initial"
  BY <1>5 DEF NoLoaders, ButtonPos, LoaderState
<1>9. PageButtons(c, d) /\ ~Growing(c)
  BY <1>5, <1>8 DEF PageButtons, Held, Growing
<1> QED BY <1>4, <1>5, <1>6, <1>7, <1>9 DEF TextPage

LEMMA NewScreen ==
    ASSUME NEW s \in SCREENS, NEW p \in InitialPages(s), NEW d, NEW ready
    PROVE  /\ s \in EntryScreens => EntryPage(p, KindOf(s), d, ready)
           /\ s = "pages" => TextPage(p, d)
<1>1. CASE s \in EntryScreens
  <2>1. \E ch, i, carousel : /\ p = new_page(ch, i, carousel) /\ ch.of = KindOf(s)
                             /\ ch.of = "number" => ~carousel
    <3>1. CASE s = "pin"
      <4>1. PICK i : p = new_page(PIN, i, TRUE)
        BY <3>1 DEF InitialPages
      <4>2. PIN.of = KindOf(s) /\ PIN.of # "number"
        BY <3>1 DEF PIN, KindOf
      <4> QED BY <4>1, <4>2, Zenon
    <3>2. CASE s = "passphrase"
      <4>1. PICK i : p = new_page(Passphrase("Menu", TRUE), i, TRUE)
        BY <3>2 DEF InitialPages
      <4>2. Passphrase("Menu", TRUE).of = KindOf(s) /\ Passphrase("Menu", TRUE).of # "number"
        BY <3>2 DEF Passphrase, KindOf
      <4> QED BY <4>1, <4>2, Zenon
    <3>3. CASE s \in {"wordlist", "first_word"}
      <4>1. PICK ch, i : ch \in WordlistChoices(<< >>) /\ p = new_page(ch, i, TRUE)
        BY <3>3 DEF InitialPages
      <4>2. ch.of = "wordlist"
        BY <4>1 DEF WordlistChoices
      <4> QED BY <3>3, <4>1, <4>2 DEF KindOf
    <3>4. CASE s = "number"
      BY <3>4 DEF InitialPages, KindOf, Number
    <3> QED BY <1>1, <3>1, <3>2, <3>3, <3>4 DEF EntryScreens
  <2>2. s # "pages"
    BY <1>1 DEF EntryScreens
  <2> QED BY <2>1, <2>2, NewPage
<1>2. CASE s = "pages"
  <2>1. p \in ButtonPages /\ s \notin EntryScreens
    BY <1>2 DEF InitialPages, EntryScreens
  <2> QED BY <2>1, NewTextPage
<1> QED BY <1>1, <1>2, ScreensAssumption

----------------------------------------------------------------------------
(* The steps. *)

\* What an event of an entry may change.  A choice needs a press of both buttons.
EntryChange ==
    /\ screen' = screen /\ armed' \in BOOLEAN
    /\ EntryPage(page', KindOf(screen), down', armed')
    /\ (text' # text \/ result' # "None") => armed

LEMMA EntryEventStep ==
    ASSUME ScreenInv, IsEntry, NEW outcomes, EntryEvent(outcomes),
           \A o \in outcomes : PageStep(page, o, KindOf(screen), down', armed)
    PROVE  EntryChange
<1>1. /\ screen \in EntryScreens /\ result = "None" /\ armed \in BOOLEAN
      /\ EntryPage(page, KindOf(screen), down, armed)
  BY DEF ScreenInv, IsEntry
<1>2. PICK k, d : k = KindOf(screen) /\ d = down'
  OBVIOUS
<1>3. PICK o \in outcomes :
          \/ /\ o.choice = NoChoice
             /\ page' = o.page
             /\ armed' = (armed \/ (o.page.buttons.state = BothDown /\ page.buttons.state # BothDown))
             /\ UNCHANGED << text, result >>
          \/ /\ o.choice # NoChoice
             /\ \E r \in EntryChosen(o.page, text, o.choice) :
                   page' = r.page /\ text' = r.text /\ result' = r.result
             /\ armed' = FALSE
  BY Zenon DEF EntryEvent
<1>4. screen' = screen
  BY DEF EntryEvent
<1>5. PageStep(page, o, k, d, armed)
  BY <1>2
<1>6. CASE /\ o.choice = NoChoice
           /\ page' = o.page
           /\ armed' = (armed \/ (o.page.buttons.state = BothDown /\ page.buttons.state # BothDown))
           /\ UNCHANGED << text, result >>
  <2>1. armed' = Ready(page.buttons, o.page.buttons, armed)
    BY <1>6, Zenon DEF Ready
  <2>2. armed' \in BOOLEAN
    BY <1>1, <1>6
  <2>3. EntryPage(o.page, k, d, armed')
    <3>1. CASE EntryPage(o.page, k, d, Ready(page.buttons, o.page.buttons, armed))
      BY <2>1, <3>1, Zenon
    <3>2. CASE EntryPage(o.page, k, d, FALSE) /\ Resting(o.page)
      BY <3>2, RestingPage
    <3> QED BY <1>5, <3>1, <3>2, Zenon DEF PageStep
  <2>4. text' = text /\ result' = "None"
    BY <1>1, <1>6
  <2> QED BY <1>2, <1>4, <1>6, <2>2, <2>3, <2>4 DEF EntryChange
<1>7. CASE /\ o.choice # NoChoice
           /\ \E r \in EntryChosen(o.page, text, o.choice) :
                 page' = r.page /\ text' = r.text /\ result' = r.result
           /\ armed' = FALSE
  <2>1. PICK f : f = FALSE
    OBVIOUS
  <2>2. /\ Middle(page.buttons.state) /\ EntryPage(o.page, k, d, f) /\ Resting(o.page)
        /\ \E long \in BOOLEAN : o.choice = Chosen(o.page, long)
    BY <1>5, <1>7, <2>1, Zenon DEF PageStep
  <2>3. PICK long \in BOOLEAN : o.choice = Chosen(o.page, long)
    BY <2>2
  <2>4. PICK r \in EntryChosen(o.page, text, Chosen(o.page, long)) : page' = r.page
    BY <1>7, <2>3
  <2>5. EntryPage(page', k, d, f)
    BY <1>1, <1>2, <2>2, <2>4, ChosenKeeps
  <2>6. armed
    BY <1>1, <2>2 DEF EntryPage, EntryButtons
  <2>7. armed' = f /\ armed' \in BOOLEAN
    BY <1>7, <2>1
  <2>8. EntryPage(page', KindOf(screen), down', armed')
    BY <1>2, <2>5, <2>7, Zenon
  <2> QED BY <1>4, <2>6, <2>7, <2>8 DEF EntryChange
<1> QED BY <1>3, <1>6, <1>7

LEMMA EntryChangeKeeps ==
    ASSUME ScreenInv, IsEntry, EntryChange, down' \subseteq PhysicalButton
    PROVE  ScreenInv'
<1>1. screen # "pages"
  BY DEF IsEntry, EntryScreens
<1> QED BY <1>1 DEF ScreenInv, EntryChange, IsEntry

\* Every event of an entry but the ones that leave it.
LEMMA EntrySteps ==
    ASSUME ScreenInv, IsEntry, Next
    PROVE  EntryChange /\ down' \subseteq PhysicalButton
<1>1. /\ screen \in EntryScreens /\ result = "None" /\ armed \in BOOLEAN
      /\ EntryPage(page, KindOf(screen), down, armed)
      /\ down \in SUBSET PhysicalButton /\ ~IsPages
  BY DEF ScreenInv, IsEntry, IsPages, EntryScreens
<1>2. ASSUME NEW b \in PhysicalButton, Press(b)
      PROVE  EntryChange /\ down' \subseteq PhysicalButton
  <2>1. b \notin down /\ down' = down \cup {b} /\ EntryEvent(PagePress(page, b))
    BY <1>1, <1>2 DEF Press
  <2>2. \A o \in PagePress(page, b) : PageStep(page, o, KindOf(screen), down', armed)
    BY <1>1, <2>1, PressStep
  <2> QED BY <1>1, <2>1, <2>2, EntryEventStep
<1>3. ASSUME NEW b \in PhysicalButton, Release(b)
      PROVE  EntryChange /\ down' \subseteq PhysicalButton
  <2>1. b \in down /\ down' = down \ {b} /\ EntryEvent(PageRelease(page, b))
    BY <1>1, <1>3 DEF Release
  <2>2. \A o \in PageRelease(page, b) : PageStep(page, o, KindOf(screen), down', armed)
    BY <1>1, <2>1, ReleaseStep
  <2> QED BY <1>1, <2>1, <2>2, EntryEventStep
<1>4. CASE ClickTimerFires
  <2>1. PICK b \in page.buttons.clickTimer : EntryEvent(PageClickTimer(page, b))
    BY <1>4 DEF ClickTimerFires
  <2>2. down' = down
    BY <1>4 DEF ClickTimerFires
  <2>3. \A o \in PageClickTimer(page, b) : PageStep(page, o, KindOf(screen), down', armed)
    BY <1>1, <2>2, ClickTimerStep
  <2> QED BY <1>1, <2>1, <2>2, <2>3, EntryEventStep
<1>5. CASE LongTimerFires
  <2>1. page.buttons.longTimer # "None" /\ EntryEvent(PageLongTimer(page)) /\ down' = down
    BY <1>5 DEF LongTimerFires
  <2>2. \A o \in PageLongTimer(page) : PageStep(page, o, KindOf(screen), down', armed)
    BY <1>1, <2>1, LongTimerStep
  <2> QED BY <1>1, <2>1, <2>2, EntryEventStep
<1>6. CASE HoldingTimerFires
  <2>1. page.holding.timer /\ EntryEvent({PageHoldingTimer(page)}) /\ down' = down
    BY <1>6 DEF HoldingTimerFires
  <2>2. \A o \in {PageHoldingTimer(page)} : PageStep(page, o, KindOf(screen), down', armed)
    BY <1>1, <2>1, HoldingTimerStep
  <2> QED BY <1>1, <2>1, <2>2, EntryEventStep
<1>7. CASE AnimationTimerFires
  <2>1. page.animation.timer /\ EntryEvent({PageAnimationTimer(page)}) /\ down' = down
    BY <1>7 DEF AnimationTimerFires
  <2>2. \A o \in {PageAnimationTimer(page)} : PageStep(page, o, KindOf(screen), down', armed)
    BY <1>1, <2>1, AnimationTimerStep
  <2> QED BY <1>1, <2>1, <2>2, EntryEventStep
<1>8. ~FrameTimerFires /\ ~NextScreen
  BY <1>1 DEF FrameTimerFires, NextScreen
<1> QED BY <1>2, <1>3, <1>4, <1>5, <1>6, <1>7, <1>8 DEF Next

LEMMA PagesEventStep ==
    ASSUME ScreenInv, IsPages, NEW outcomes, PagesEvent(outcomes),
           down' \subseteq PhysicalButton,
           \A o \in outcomes : PagesTurned(page.buttons, o.buttons, o.msg, down')
    PROVE  ScreenInv'
<1>1. screen = "pages" /\ screen \notin EntryScreens /\ TextPage(page, down)
  BY DEF ScreenInv, IsPages, EntryScreens
<1>2. PICK o \in outcomes : /\ page' = PageReact(page, o).page
                            /\ result' = PageReact(page, o).result
  BY Zenon DEF PagesEvent
<1>3. screen' = screen /\ armed' = armed
  BY DEF PagesEvent
<1>4. result' = "None" => TextPage(page', down')
  BY <1>1, <1>2, PagesReact
<1> QED BY <1>1, <1>3, <1>4 DEF ScreenInv

LEMMA PagesSteps ==
    ASSUME ScreenInv, IsPages, Next
    PROVE  ScreenInv'
<1>1. /\ screen = "pages" /\ result = "None" /\ TextPage(page, down)
      /\ down \in SUBSET PhysicalButton /\ ~IsEntry
  BY DEF ScreenInv, IsEntry, IsPages, EntryScreens
<1>2. /\ PageButtons(page.buttons, down) /\ PageLayout(page.buttons.btn)
      /\ Growing(page.buttons) => page.buttons.state \in {OneDown("Right"), BothDown}
  BY <1>1, PageLayoutOf DEF TextPage
<1>3. ASSUME NEW b \in PhysicalButton, Press(b)
      PROVE  ScreenInv'
  <2>1. b \notin down /\ down' = down \cup {b} /\ PagesEvent(ButtonPressed(page.buttons, b))
    BY <1>1, <1>3 DEF Press
  <2>2. \A o \in ButtonPressed(page.buttons, b) :
            PagesTurned(page.buttons, o.buttons, o.msg, down')
    BY <1>1, <1>2, <2>1, PagesPress
  <2> QED BY <1>1, <2>1, <2>2, PagesEventStep
<1>4. ASSUME NEW b \in PhysicalButton, Release(b)
      PROVE  ScreenInv'
  <2>1. b \in down /\ down' = down \ {b} /\ PagesEvent(ButtonReleased(page.buttons, b))
    BY <1>1, <1>4 DEF Release
  <2>2. \A o \in ButtonReleased(page.buttons, b) :
            PagesTurned(page.buttons, o.buttons, o.msg, down')
    BY <1>1, <1>2, <2>1, PagesRelease
  <2> QED BY <1>1, <2>1, <2>2, PagesEventStep
<1>5. CASE FrameTimerFires
  <2>1. PagesEvent(FrameTimer(page.buttons)) /\ down' = down
    BY <1>5 DEF FrameTimerFires
  <2>2. \A o \in FrameTimer(page.buttons) :
            PagesTurned(page.buttons, o.buttons, o.msg, down')
    BY <1>1, <1>2, <2>1, PagesFrame
  <2> QED BY <1>1, <2>1, <2>2, PagesEventStep
<1>6. /\ ~ClickTimerFires /\ ~LongTimerFires /\ ~HoldingTimerFires /\ ~AnimationTimerFires
      /\ ~NextScreen
  BY <1>1 DEF ClickTimerFires, LongTimerFires, HoldingTimerFires, AnimationTimerFires, NextScreen
<1> QED BY <1>3, <1>4, <1>5, <1>6 DEF Next

\* Only the next screen follows a result.
LEMMA NoEventAfterResult ==
    ASSUME result # "None", Next
    PROVE  NextScreen
  BY DEF Next, Press, Release, ClickTimerFires, LongTimerFires, HoldingTimerFires,
         AnimationTimerFires, FrameTimerFires, IsEntry, IsPages

LEMMA ScreenInit == Init => ScreenInv
<1> SUFFICES ASSUME Init PROVE ScreenInv
  OBVIOUS
<1>1. screen \in SCREENS /\ down = {} /\ page \in InitialPages(screen) /\ armed \in BOOLEAN
  BY DEF Init
<1>2. /\ screen \in EntryScreens => EntryPage(page, KindOf(screen), down, armed)
      /\ screen = "pages" => TextPage(page, down)
  BY <1>1, NewScreen
<1> QED BY <1>1, <1>2 DEF ScreenInv

LEMMA ScreenStep == ScreenInv /\ [Next]_vars => ScreenInv'
<1> SUFFICES ASSUME ScreenInv, [Next]_vars PROVE ScreenInv'
  OBVIOUS
<1>1. CASE UNCHANGED vars
  BY <1>1 DEF ScreenInv, vars
<1>2. CASE Next /\ IsEntry
  BY <1>2, EntrySteps, EntryChangeKeeps
<1>3. CASE Next /\ IsPages
  BY <1>3, PagesSteps
<1>4. CASE Next /\ result # "None"
  <2>1. PICK s \in SCREENS : Show(s)
    BY <1>4, NoEventAfterResult DEF NextScreen
  <2>2. down' = down
    BY <1>4, NoEventAfterResult DEF NextScreen
  <2>3. screen' = s /\ page' \in InitialPages(s) /\ armed' \in BOOLEAN
    BY <2>1 DEF Show
  <2>4. /\ s \in EntryScreens => EntryPage(page', KindOf(s), down', armed')
        /\ s = "pages" => TextPage(page', down')
    BY <2>3, NewScreen
  <2> QED BY <2>2, <2>3, <2>4 DEF ScreenInv
<1>5. CASE Next /\ result = "None"
  <2>1. IsEntry \/ IsPages
    BY <1>5, ScreensAssumption DEF ScreenInv, IsEntry, IsPages
  <2> QED BY <1>2, <1>3, <1>5, <2>1
<1> QED BY <1>1, <1>4, <1>5

LEMMA ScreenInvariant == Spec => []ScreenInv
  BY ScreenInit, ScreenStep, PTL DEF Spec

----------------------------------------------------------------------------
(* The theorems. *)

LEMMA HeldIsDown ==
    ASSUME NEW s, NEW d, Held(s, d)
    PROVE  /\ s.at \in {"OneDown", "HTCNeedsRelease"} => s.which \in d
           /\ s.at = "BothDown" => d = PhysicalButton
           /\ s.at = "OneReleased" => d = PhysicalButton \ {s.which}
  BY StateTags DEF Held

\* The button controller never takes a button for held that is up, on the choice
\* pages and on the pages of text alike.
THEOREM HeldCorrect == Spec => []HeldMeansDown
<1>1. ScreenInv => HeldMeansDown
  <2> SUFFICES ASSUME ScreenInv, result = "None"
               PROVE  LET s == page.buttons.state
                      IN  /\ s.at \in {"OneDown", "HTCNeedsRelease"} => s.which \in down
                          /\ s.at = "BothDown" => down = PhysicalButton
                          /\ s.at = "OneReleased" => down = PhysicalButton \ {s.which}
    BY DEF HeldMeansDown
  <2>1. screen \in EntryScreens \/ screen = "pages"
    BY ScreensAssumption DEF ScreenInv
  <2>2. Held(page.buttons.state, down)
    BY <2>1 DEF ScreenInv, EntryPage, EntryButtons, TextPage, PageButtons
  <2> QED BY <2>2, HeldIsDown
<1> QED BY <1>1, ScreenInvariant, PTL

\* While an animation makes a choice page ignore every event, no press is half-way
\* done and no timer is pending that would be lost.
THEOREM QuietCorrect == Spec => []QuietWhileAnimating
<1>1. ScreenInv => QuietWhileAnimating
  <2> SUFFICES ASSUME ScreenInv, Animating
               PROVE  /\ page.buttons.state = Nothing
                      /\ page.buttons.clickTimer = {} /\ page.buttons.longTimer = "None"
                      /\ ~is_moving(page.holding)
    BY DEF QuietWhileAnimating
  <2>1. EntryPage(page, KindOf(screen), down, armed) /\ is_moving(page.animation)
    BY DEF ScreenInv, Animating
  <2>2. Quiet(page.buttons) /\ KindOf(screen) # "number"
    BY <2>1 DEF EntryPage
  <2>3. ~is_moving(page.holding)
    BY <2>1, <2>2, QuietHolding
  <2> QED BY <2>2, <2>3 DEF Quiet
<1> QED BY <1>1, ScreenInvariant, PTL

\* An entry takes at most one choice for every time both buttons were pressed
\* together: neither the timer of a long press nor the release that follows it can
\* choose once more.
THEOREM OneSelectCorrect == Spec => OneSelectPerPress
<1>1. ScreenInv /\ [Next]_vars =>
          [(IsEntry /\ (text' # text \/ result' # "None")) => armed]_vars
  <2> SUFFICES ASSUME ScreenInv, Next, IsEntry, text' # text \/ result' # "None"
               PROVE  armed
    BY Zenon
  <2> QED BY EntrySteps DEF EntryChange
<1> QED BY <1>1, ScreenInvariant, PTL DEF Spec, OneSelectPerPress

\* The page moves by itself only while the button of that direction, and no other,
\* is held down.
THEOREM MovesCorrect == Spec => MovesOnlyWhileHeld
<1>1. ScreenInv /\ [Next]_vars =>
          [(HoldingTimerFires /\ page'.page # page.page) =>
              /\ page.holding.dir \in down
              /\ page.buttons.state = OneDown(page.holding.dir)]_vars
  <2> SUFFICES ASSUME ScreenInv, HoldingTimerFires, page'.page # page.page
               PROVE  /\ page.holding.dir \in down
                      /\ page.buttons.state = OneDown(page.holding.dir)
    BY Zenon
  <2>1. /\ page.holding.timer /\ EntryEvent({PageHoldingTimer(page)}) /\ armed \in BOOLEAN
        /\ EntryPage(page, KindOf(screen), down, armed)
    BY DEF HoldingTimerFires, IsEntry, ScreenInv
  <2>2. PICK r : r = PageHoldingTimer(page)
    OBVIOUS
  <2>3. r.page.page # page.page => page.buttons.state = OneDown(page.holding.dir)
    BY <2>1, <2>2, HoldingTimerStep
  <2>4. r.choice = NoChoice
    BY <2>1, <2>2, HoldingTimerStep
  <2>5. page' = r.page
    BY <2>1, <2>2, <2>4 DEF EntryEvent
  <2>6. page.buttons.state = OneDown(page.holding.dir)
    BY <2>3, <2>5
  <2>7. Held(page.buttons.state, down)
    BY <2>1 DEF EntryPage, EntryButtons
  <2>8. page.holding.dir \in down
    BY <2>6, <2>7, HeldIsDown, StateTags
  <2> QED BY <2>6, <2>8
<1> QED BY <1>1, ScreenInvariant, PTL DEF Spec, MovesOnlyWhileHeld

----------------------------------------------------------------------------
(* The types of the controllers. *)

LEMMA ControllerFields ==
    ASSUME NEW c \in ControllerType
    PROVE  /\ IsController(c) /\ c.state \in ButtonState /\ c.btn \in [ButtonPos -> ButtonType]
           /\ c.delayed \in BOOLEAN /\ c.clickable \subseteq PhysicalButton
           /\ c.clickTimer \subseteq PhysicalButton /\ c.longTimer \in ButtonPos \cup {"None"}
           /\ c.loader \in [ButtonPos -> LoaderState] /\ c.frame \in BOOLEAN
  BY DEF ControllerType, IsController

LEMMA StateTypes ==
    /\ Nothing \in ButtonState /\ BothDown \in ButtonState
    /\ \A b \in PhysicalButton : /\ OneDown(b) \in ButtonState /\ OneReleased(b) \in ButtonState
                                 /\ HTCNeedsRelease(b) \in ButtonState
                                 /\ Other(b) \in PhysicalButton
    /\ PhysicalButton \subseteq ButtonPos /\ "Middle" \in ButtonPos /\ "None" \notin ButtonPos
  BY DEF ButtonState, Nothing, BothDown, OneDown, OneReleased, HTCNeedsRelease, PhysicalButton,
         ButtonPos, Other

LEMMA LayoutTypes ==
    ASSUME NEW a \in ButtonType, NEW b \in ButtonType, NEW c \in ButtonType
    PROVE  [Left |-> a, Middle |-> b, Right |-> c] \in [ButtonPos -> ButtonType]
  BY DEF ButtonPos

LEMMA LoaderTypes == NoLoaders \in [ButtonPos -> LoaderState]
  BY DEF NoLoaders, LoaderState

LEMMA ToType ==
    ASSUME NEW c \in ControllerType, NEW s \in ButtonState
    PROVE  To(c, s) \in ControllerType
  BY DEF To, ControllerType

LEMMA GotPressedType ==
    ASSUME NEW c \in ControllerType, NEW p \in ButtonPos
    PROVE  got_pressed(c, p) \in ControllerType
  BY DEF got_pressed, ControllerType

LEMMA HoldTypes ==
    ASSUME NEW c \in ControllerType, NEW p \in ButtonPos
    PROVE  hold_started(c, p) \in ControllerType /\ hold_ended(c, p) \in ControllerType
<1>1. ASSUME NEW l \in LoaderState PROVE [c EXCEPT !.loader[p] = l] \in ControllerType
  <2>1. PICK x : x = [c.loader EXCEPT ![p] = l]
    OBVIOUS
  <2>2. c.loader \in [ButtonPos -> LoaderState]
    BY ControllerFields
  <2>3. x \in [ButtonPos -> LoaderState]
    BY <2>1, <2>2
  <2>4. [c EXCEPT !.loader = x] \in ControllerType
    BY <2>3 DEF ControllerType
  <2> QED BY <2>1, <2>4
<1>2. PICK d : d = [c EXCEPT !.loader[p] = "Growing"]
  OBVIOUS
<1>3. d \in ControllerType
  BY <1>1, <1>2 DEF LoaderState
<1>4. [d EXCEPT !.frame = TRUE] \in ControllerType
  BY <1>3 DEF ControllerType
<1>5. [c EXCEPT !.loader[p] = "Growing", !.frame = TRUE] = [d EXCEPT !.frame = TRUE]
  BY <1>2 DEF ControllerType
<1>6. hold_started(c, p) \in ControllerType
  BY <1>4, <1>5 DEF hold_started
<1>7. hold_ended(c, p) \in ControllerType
  BY <1>1 DEF hold_ended, LoaderState
<1> QED BY <1>6, <1>7

LEMMA MiddleHoldType ==
    ASSUME NEW c \in ControllerType
    PROVE  middle_hold_started(c) \in ControllerType
<1>1. PICK l, m, r : l = "Left" /\ m = "Middle" /\ r = "Right"
  OBVIOUS
<1>2. l \in ButtonPos /\ m \in ButtonPos /\ r \in ButtonPos
  BY <1>1 DEF ButtonPos
<1>3. PICK x : x = hold_ended(c, l)
  OBVIOUS
<1>4. PICK y : y = hold_started(x, m)
  OBVIOUS
<1>5. x \in ControllerType
  BY <1>2, <1>3, HoldTypes
<1>6. y \in ControllerType
  BY <1>2, <1>4, <1>5, HoldTypes
<1>7. hold_ended(y, r) \in ControllerType
  BY <1>2, <1>6, HoldTypes
<1> QED BY <1>1, <1>3, <1>4, <1>7 DEF middle_hold_started

LEMMA HandlePressType ==
    ASSUME NEW c \in ControllerType, NEW b \in PhysicalButton
    PROVE  handle_button_press(c, b) \in ControllerType
<1>1. c.clickTimer \cup {Other(b)} \subseteq PhysicalButton
  BY ControllerFields, StateTypes
<1> QED BY <1>1 DEF handle_button_press, ControllerType

LEMMA ClickableType ==
    ASSUME NEW c \in ControllerType, NEW bs \in SUBSET PhysicalButton
    PROVE  make_button_clickable(c, bs) \in ControllerType
  BY DEF make_button_clickable, ControllerType

\* Every outcome has a controller of the right type.
Typed(outcomes) == \A o \in outcomes : o.buttons \in ControllerType

LEMMA TriggerType ==
    ASSUME NEW c \in ControllerType, NEW p \in ButtonPos
    PROVE  Typed(maybe_trigger(c, p))
<1>1. PICK d : d = [c EXCEPT !.longTimer = IF c.longTimer = p THEN "None" ELSE @]
  OBVIOUS
<1>2. d \in ControllerType
  BY <1>1 DEF ControllerType
<1>3. hold_ended(c, p) \in ControllerType
  BY HoldTypes
<1>4. c.btn[p] \in {"Nothing", "Button", "LongPress", "HoldToConfirm"}
  BY ControllerFields DEF ButtonType
<1>5. \A o \in maybe_trigger(c, p) : o.buttons \in {c, d, hold_ended(c, p)}
  <2>1. CASE c.btn[p] \in {"Button", "LongPress"}
    BY <1>1, <2>1 DEF maybe_trigger, Outcome, IsHTC
  <2>2. CASE c.btn[p] = "HoldToConfirm"
    BY <2>2 DEF maybe_trigger, Outcome, IsHTC
  <2>3. CASE c.btn[p] = "Nothing"
    BY <2>3 DEF maybe_trigger, Outcome, IsHTC
  <2> QED BY <1>4, <2>1, <2>2, <2>3
<1> QED BY <1>2, <1>3, <1>5 DEF Typed
LEMMA OneTyped ==
    ASSUME NEW c \in ControllerType, NEW m, NEW outcomes, outcomes = {Outcome(c, m)}
    PROVE  Typed(outcomes)
  BY DEF Typed, Outcome

LEMMA PressType ==
    ASSUME NEW c \in ControllerType, NEW b \in PhysicalButton
    PROVE  Typed(ButtonPressed(c, b))
<1>1. b \in ButtonPos /\ "Middle" \in ButtonPos
  BY StateTypes
<1>2. PICK x : x = To(hold_started(got_pressed(handle_button_press(c, b), b), b), OneDown(b))
  OBVIOUS
<1>3. x \in ControllerType
  <2>1. PICK k : k = handle_button_press(c, b)
    OBVIOUS
  <2>2. PICK l : l = got_pressed(k, b)
    OBVIOUS
  <2>3. PICK h : h = hold_started(l, b)
    OBVIOUS
  <2>4. k \in ControllerType
    BY <2>1, HandlePressType
  <2>5. l \in ControllerType
    BY <1>1, <2>2, <2>4, GotPressedType
  <2>6. h \in ControllerType
    BY <1>1, <2>3, <2>5, HoldTypes
  <2>7. x = To(h, OneDown(b))
    BY <1>2, <2>1, <2>2, <2>3
  <2> QED BY <2>6, <2>7, StateTypes, ToType
<1>4. PICK y : y = To(middle_hold_started(got_pressed(c, "Middle")), BothDown)
  OBVIOUS
<1>5. y \in ControllerType
  <2>0. PICK p : p = "Middle"
    OBVIOUS
  <2>1. PICK l : l = got_pressed(c, p)
    OBVIOUS
  <2>2. l \in ControllerType
    BY <1>1, <2>0, <2>1, GotPressedType
  <2>3. PICK h : h = middle_hold_started(l)
    OBVIOUS
  <2>4. h \in ControllerType
    BY <2>2, <2>3, MiddleHoldType
  <2>5. y = To(h, BothDown)
    BY <1>4, <2>0, <2>1, <2>3
  <2> QED BY <2>4, <2>5, StateTypes, ToType
<1>6. PICK z : z = To(got_pressed(c, b), BothDown)
  OBVIOUS
<1>7. z \in ControllerType
  <2>1. PICK l : l = got_pressed(c, b)
    OBVIOUS
  <2>2. l \in ControllerType
    BY <1>1, <2>1, GotPressedType
  <2> QED BY <1>6, <2>1, <2>2, StateTypes, ToType
<1>8. PICK w : w = To(middle_hold_started(c), BothDown)
  OBVIOUS
<1>9. w \in ControllerType
  <2>1. PICK l : l = middle_hold_started(c)
    OBVIOUS
  <2>2. l \in ControllerType
    BY <2>1, MiddleHoldType
  <2> QED BY <1>8, <2>1, <2>2, StateTypes, ToType
<1>10. \E e \in {c, x, y, z, w} : \E m : ButtonPressed(c, b) = {Outcome(e, m)}
  BY <1>2, <1>4, <1>6, <1>8 DEF ButtonPressed
<1> QED BY <1>3, <1>5, <1>7, <1>9, <1>10, OneTyped

LEMMA ReleaseType ==
    ASSUME NEW c \in ControllerType, NEW b \in PhysicalButton
    PROVE  Typed(ButtonReleased(c, b))
<1>1. b \in ButtonPos /\ "Middle" \in ButtonPos /\ Other(b) \in PhysicalButton
  BY StateTypes
<1>2. PICK x : x = To(make_button_clickable(c, {Other(b)}), Nothing)
  OBVIOUS
<1>3. PICK y : y = To(make_button_clickable(c, PhysicalButton), Nothing)
  OBVIOUS
<1>4. PICK z : z = To(hold_ended(c, "Middle"), OneReleased(b))
  OBVIOUS
<1>5. PICK w : w = To(c, Nothing)
  OBVIOUS
<1>6. x \in ControllerType
  <2>1. PICK bs, l : bs = {Other(b)} /\ l = make_button_clickable(c, bs)
    OBVIOUS
  <2>2. bs \in SUBSET PhysicalButton
    BY <1>1, <2>1
  <2>3. l \in ControllerType
    BY <2>1, <2>2, ClickableType
  <2> QED BY <1>2, <2>1, <2>3, StateTypes, ToType
<1>7. y \in ControllerType
  <2>1. PICK bs, l : bs = PhysicalButton /\ l = make_button_clickable(c, bs)
    OBVIOUS
  <2>2. bs \in SUBSET PhysicalButton
    BY <2>1
  <2>3. l \in ControllerType
    BY <2>1, <2>2, ClickableType
  <2> QED BY <1>3, <2>1, <2>3, StateTypes, ToType
<1>8. z \in ControllerType
  <2>1. PICK p, l : p = "Middle" /\ l = hold_ended(c, p)
    OBVIOUS
  <2>2. l \in ControllerType
    BY <1>1, <2>1, HoldTypes
  <2> QED BY <1>4, <2>1, <2>2, StateTypes, ToType
<1>9. w \in ControllerType
  BY <1>5, StateTypes, ToType
<1>10. \/ ButtonReleased(c, b) = maybe_trigger(x, b)
       \/ ButtonReleased(c, b) = maybe_trigger(y, "Middle")
       \/ \E e \in {c, y, z, w} : \E m : ButtonReleased(c, b) = {Outcome(e, m)}
  <2>1. PICK m : m = IF handle_middle_button(c) THEN NoMsg ELSE Triggered(b, FALSE)
    OBVIOUS
  <2>2. PICK n : n = Triggered(b, FALSE)
    OBVIOUS
  <2>3. ButtonReleased(c, b) \in {maybe_trigger(x, b), maybe_trigger(y, "Middle"),
                                  {Outcome(z, m)}, {Outcome(y, n)}, {Outcome(w, NoMsg)},
                                  {Outcome(c, NoMsg)}}
    BY <1>2, <1>3, <1>4, <1>5, <2>1, <2>2 DEF ButtonReleased
  <2> QED BY <2>3
<1>11. Typed(maybe_trigger(x, b))
  BY <1>1, <1>6, TriggerType
<1>12. Typed(maybe_trigger(y, "Middle"))
  BY <1>1, <1>7, TriggerType
<1>13. ASSUME NEW e \in {c, y, z, w}, NEW m, ButtonReleased(c, b) = {Outcome(e, m)}
       PROVE  Typed(ButtonReleased(c, b))
  BY <1>7, <1>8, <1>9, <1>13, OneTyped
<1> QED BY <1>10, <1>11, <1>12, <1>13

LEMMA TimerTypes ==
    ASSUME NEW c \in ControllerType, NEW b
    PROVE  Typed(ClickTimer(c, b)) /\ Typed(LongTimer(c))
<1>1. PICK x : x = [c EXCEPT !.clickTimer = @ \ {b}, !.clickable = @ \ {b}]
  OBVIOUS
<1>2. x \in ControllerType
  BY <1>1 DEF ControllerType
<1>3. PICK y : y = [c EXCEPT !.longTimer = "None"]
  OBVIOUS
<1>4. y \in ControllerType
  BY <1>3 DEF ControllerType
<1>5. ClickTimer(c, b) = {Outcome(x, NoMsg)}
  BY <1>1 DEF ClickTimer
<1>6. LongTimer(c) = {Outcome(y, LongPressed(c.longTimer))}
  BY <1>3 DEF LongTimer
<1> QED BY <1>2, <1>4, <1>5, <1>6, OneTyped

LEMMA NotYetType ==
    ASSUME NEW c \in ControllerType, NEW ps, NEW e \in NotYet(c, ps)
    PROVE  e \in ControllerType
<1>1. PICK ended : e = LET d == [c EXCEPT !.loader = [p \in ButtonPos |-> IF p \in ended THEN "Initial"
                                                        ELSE c.loader[p]]]
                       IN  [d EXCEPT !.frame = \E p \in ps : is_animating(d, p)]
  BY DEF NotYet
<1>2. PICK l : l = [p \in ButtonPos |-> IF p \in ended THEN "Initial" ELSE c.loader[p]]
  OBVIOUS
<1>3. l \in [ButtonPos -> LoaderState]
  BY <1>2, ControllerFields DEF LoaderState
<1>4. PICK d : d = [c EXCEPT !.loader = l]
  OBVIOUS
<1>5. d \in ControllerType
  BY <1>3, <1>4 DEF ControllerType
<1>6. PICK f \in BOOLEAN : f = (\E p \in ps : is_animating(d, p))
  OBVIOUS
<1>7. e = [d EXCEPT !.frame = f]
  BY <1>1, <1>2, <1>4, <1>6, Zenon
<1> QED BY <1>5, <1>7 DEF ControllerType

LEMMA FrameType ==
    ASSUME NEW c \in ControllerType
    PROVE  Typed(FrameTimer(c))
<1> SUFFICES ASSUME NEW o \in FrameTimer(c) PROVE o.buttons \in ControllerType
  BY DEF Typed
<1>1. \/ \E d \in NotYet(c, ButtonPos) : o = Outcome(d, NoMsg)
      \/ \E p \in ButtonPos : \E d \in NotYet(c, AskedBefore(p)) :
            o = Outcome([d EXCEPT !.loader[p] = "Grown",
                           !.state = IF p = "Middle" THEN Nothing ELSE HTCNeedsRelease(p)],
                        Triggered(p, TRUE))
  BY DEF FrameTimer
<1>2. CASE \E d \in NotYet(c, ButtonPos) : o = Outcome(d, NoMsg)
  BY <1>2, NotYetType DEF Outcome
<1>3. ASSUME NEW p \in ButtonPos, NEW d \in NotYet(c, AskedBefore(p)),
             o = Outcome([d EXCEPT !.loader[p] = "Grown",
                            !.state = IF p = "Middle" THEN Nothing ELSE HTCNeedsRelease(p)],
                         Triggered(p, TRUE))
      PROVE  o.buttons \in ControllerType
  <2>1. d \in ControllerType
    BY NotYetType
  <2>2. PICK l : l = [d.loader EXCEPT ![p] = "Grown"]
    OBVIOUS
  <2>3. l \in [ButtonPos -> LoaderState]
    BY <2>1, <2>2, ControllerFields DEF LoaderState
  <2>4. PICK s : s = IF p = "Middle" THEN Nothing ELSE HTCNeedsRelease(p)
    OBVIOUS
  <2>5. s \in ButtonState
    BY <2>4, StateTypes DEF ButtonPos, PhysicalButton
  <2>6. PICK x : x = [d EXCEPT !.loader = l, !.state = s]
    OBVIOUS
  <2>7. x \in ControllerType
    BY <2>1, <2>3, <2>5, <2>6 DEF ControllerType
  <2>8. [d EXCEPT !.loader[p] = "Grown",
                  !.state = IF p = "Middle" THEN Nothing ELSE HTCNeedsRelease(p)] = x
    BY <2>2, <2>4, <2>6, Zenon
  <2>9. o = Outcome(x, Triggered(p, TRUE))
    BY <1>3, <2>8
  <2> QED BY <2>7, <2>9 DEF Outcome
<1> QED BY <1>1, <1>2, <1>3

LEMMA SetType ==
    ASSUME NEW c \in ControllerType, NEW layout \in [ButtonPos -> ButtonType]
    PROVE  set(c, layout) \in ControllerType
  BY LoaderTypes DEF set, ControllerType

LEMMA ResetType ==
    ASSUME NEW c \in ControllerType
    PROVE  reset_state(c) \in ControllerType
  BY StateTypes DEF reset_state, ControllerType

LEMMA NewControllerType ==
    ASSUME NEW layout \in [ButtonPos -> ButtonType], NEW delayed \in BOOLEAN
    PROVE  new_controller(layout, delayed) \in ControllerType
  BY LoaderTypes, StateTypes DEF new_controller, ControllerType

LEMMA LayoutType ==
    ASSUME NEW ch, NEW i
    PROVE  btn_layout(ch, i) \in [ButtonPos -> ButtonType]
<1>1. PICK a, b, c : /\ a = IF ch.of = "number" /\ i = 0 THEN "Nothing" ELSE "Button"
                     /\ b = IF without_release(ch, i) THEN "LongPress" ELSE "Button"
                     /\ c = IF ch.of = "number" /\ i = NUMBERS - 1 THEN "Nothing" ELSE "Button"
  OBVIOUS
<1>2. a \in ButtonType /\ b \in ButtonType /\ c \in ButtonType
  BY <1>1 DEF ButtonType
<1>3. [Left |-> a, Middle |-> b, Right |-> c] \in [ButtonPos -> ButtonType]
  BY <1>2, LayoutTypes
<1> QED BY <1>1, <1>3, Zenon DEF btn_layout

LEMMA MoverTypes ==
    ASSUME NEW v \in MoverType, NEW b \in PhysicalButton
    PROVE  /\ stop_moving(v) \in MoverType /\ ~is_moving(stop_moving(v))
           /\ mover_event(v) \in MoverType /\ mover_event(v).dir = v.dir
           /\ start_moving(b) \in MoverType /\ start_moving(b).dir = b
           /\ new_mover \in MoverType /\ ~is_moving(new_mover)
  BY DEF MoverType, stop_moving, mover_event, start_moving, new_mover, is_moving, PhysicalButton

----------------------------------------------------------------------------
(* The contents of the tables of choices, and where an animation ends. *)

\* The choices that an entry of this kind puts on its page.
Tables(kind) ==
    IF kind = "pin" THEN {PIN}
    ELSE IF kind = "number" THEN {Number}
    ELSE IF kind = "passphrase"
         THEN {Passphrase(category, e) : category \in Categories \cup {"Menu"}, e \in BOOLEAN}
    ELSE UNION {WordlistChoices(p) : p \in Prefixes}

\* Where an animation of the choices ch may end.
Targets(ch) ==
    IF ch.of = "pin" THEN get_random_digit_position ELSE random_category_position(ch.category)

Arrives(p, k, n, i) == p + k \in {i, i - n, i + n}

\* The steps that are left end, perhaps after one turn of the carousel, at a target.
Lands(g, kind) ==
    is_moving(g.animation) =>
        /\ g.is_carousel /\ kind \in {"pin", "passphrase"}
        /\ g.steps > 0 => g.animation.dir = "Right"
        /\ g.steps < 0 => g.animation.dir = "Left"
        /\ \E i \in Targets(g.choices) : Arrives(g.page, g.steps, count(g.choices), i)

\* The choice page g of a screen, by its contents.
PageOK(g, kind) ==
    /\ IsChoicePage(g) /\ g.choices \in Tables(kind) /\ g.page \in 0 .. (count(g.choices) - 1)
    /\ g.is_carousel \in BOOLEAN /\ (kind \in {"pin", "passphrase"} => g.is_carousel)
    /\ g.buttons \in ControllerType /\ g.holding \in MoverType /\ g.animation \in MoverType
    /\ g.steps \in Int
    /\ Lands(g, kind)

\* The text of an entry; while a word is typed it is the prefix that the page shows.
TextOK(t, g, kind, res) ==
    /\ t \in Seq(Nat)
    /\ kind \in {"pin", "passphrase"} => Len(t) <= MAX_LENGTH
    /\ kind = "wordlist" /\ res = "None" => t = g.choices.prefix

PagesOK(p) ==
    /\ IsButtonPage(p) /\ p.page_count \in Nat /\ p.active_page \in 0 .. (p.page_count - 1)
    /\ p.cancel \in ButtonType /\ p.confirm \in ButtonType /\ p.buttons \in ControllerType

Results == {"None", "Confirmed", "Cancelled", "Previous", "Word", "Number"}

TypeInv ==
    /\ down \subseteq PhysicalButton /\ screen \in SCREENS /\ armed \in BOOLEAN
    /\ result \in Results
    /\ screen \in EntryScreens =>
          PageOK(page, KindOf(screen)) /\ TextOK(text, page, KindOf(screen), result)
    /\ screen = "pages" => PagesOK(page) /\ text \in Seq(Nat)

----------------------------------------------------------------------------
(* The tables of choices. *)

\* The letters that stand behind a prefix, of which there are finitely many.
LEMMA FinitelyMany ==
    ASSUME NEW p \in Seq(Nat)
    PROVE  /\ IsFiniteSet(filter_prefix(p)) /\ IsFiniteSet(get_available_letters(p))
           /\ get_available_letters(p) \in SUBSET Nat
           /\ Cardinality(filter_prefix(p)) \in Nat
           /\ Cardinality(get_available_letters(p)) \in Nat
<1>1. PICK V : V = {v \in filter_prefix(p) : Len(v) > Len(p)}
  OBVIOUS
<1>2. PICK W : W = filter_prefix(p)
  OBVIOUS
<1>3. W \subseteq WORDLIST /\ V \subseteq W
  BY <1>1, <1>2 DEF filter_prefix
<1>4. IsFiniteSet(W)
  BY <1>3, FactoryAssumption, FS_Subset
<1>5. IsFiniteSet(V)
  BY <1>3, <1>4, FS_Subset
<1>6. PICK L : L = get_available_letters(p)
  OBVIOUS
<1>7. L = {w[Len(p) + 1] : w \in V}
  BY <1>1, <1>6 DEF get_available_letters
<1>8. PICK f : f = [w \in V |-> w[Len(p) + 1]]
  OBVIOUS
<1>9. f \in Surjection(V, L)
  BY <1>7, <1>8 DEF Surjection
<1>10. IsFiniteSet(L)
  BY <1>5, <1>9, FS_Surjection
<1>11. L \subseteq Nat
  <2>1. \A w \in V : w \in Seq(Nat) /\ Len(w) > Len(p)
    BY <1>1, <1>2, <1>3, FactoryAssumption
  <2>2. Len(p) \in Nat
    OBVIOUS
  <2>3. ASSUME NEW w \in V PROVE w[Len(p) + 1] \in Nat
    BY <2>1, <2>2
  <2> QED BY <1>7, <2>3
<1>12. Cardinality(W) \in Nat /\ Cardinality(L) \in Nat
  BY <1>4, <1>10, FS_CardinalityType
<1> QED BY <1>2, <1>4, <1>6, <1>10, <1>11, <1>12

\* How many of the numbers of S are less than l.
Rank(S, l) == Cardinality({k \in S : k < l})

LEMMA RankBounds ==
    ASSUME NEW S \in SUBSET Nat, IsFiniteSet(S), NEW l \in S
    PROVE  Rank(S, l) \in 0 .. (Cardinality(S) - 1)
<1>1. PICK T : T = {k \in S : k < l}
  OBVIOUS
<1>2. T \in SUBSET S /\ l \notin T
  BY <1>1
<1>3. IsFiniteSet(T) /\ Cardinality(T) <= Cardinality(S) /\ Cardinality(S) # Cardinality(T)
  BY <1>2, FS_Subset
<1>4. Cardinality(T) \in Nat /\ Cardinality(S) \in Nat
  BY <1>3, FS_CardinalityType
<1> QED BY <1>1, <1>3, <1>4 DEF Rank

LEMMA RankGrows ==
    ASSUME NEW S \in SUBSET Nat, IsFiniteSet(S), NEW l \in S, NEW m \in S, l < m
    PROVE  Rank(S, l) < Rank(S, m)
<1>1. PICK T, U : T = {k \in S : k < l} /\ U = {k \in S : k < m}
  OBVIOUS
<1>2. T \in SUBSET U /\ l \notin T /\ l \in U /\ U \in SUBSET S
  <2>1. \A k \in S : k \in Nat /\ l \in Nat /\ m \in Nat
    OBVIOUS
  <2>2. \A k \in S : k < l => k < m
    BY <2>1
  <2>3. l \notin T /\ l \in U
    BY <1>1, <2>1
  <2> QED BY <1>1, <2>2, <2>3
<1>3. IsFiniteSet(U)
  BY <1>2, FS_Subset
<1>4. IsFiniteSet(T) /\ Cardinality(T) <= Cardinality(U) /\ Cardinality(U) # Cardinality(T)
  BY <1>2, <1>3, FS_Subset
<1>5. Cardinality(T) \in Nat /\ Cardinality(U) \in Nat
  BY <1>3, <1>4, FS_CardinalityType
<1> QED BY <1>1, <1>4, <1>5 DEF Rank

\* Every rank below the cardinality is that of some number.
LEMMA RankTaken ==
    ASSUME NEW S \in SUBSET Nat, IsFiniteSet(S), NEW i \in 0 .. (Cardinality(S) - 1)
    PROVE  \E l \in S : Rank(S, l) = i
<1>1. PICK n, R : n = Cardinality(S) /\ R = 0 .. (n - 1)
  OBVIOUS
<1>2. n \in Nat
  BY <1>1, FS_CardinalityType
<1>3. IsFiniteSet(R) /\ Cardinality(R) = n
  BY <1>1, <1>2, FS_Interval
<1>4. PICK f : f = [l \in S |-> Rank(S, l)]
  OBVIOUS
<1>5. f \in [S -> R]
  BY <1>1, <1>4, RankBounds
<1>6. \A l, m \in S : f[l] = f[m] => l = m
  <2> SUFFICES ASSUME NEW l \in S, NEW m \in S, f[l] = f[m], l # m PROVE FALSE
    OBVIOUS
  <2>1. l < m \/ m < l
    OBVIOUS
  <2>2. f[l] < f[m] \/ f[m] < f[l]
    BY <1>4, <2>1, RankGrows
  <2>3. f[l] \in Nat
    BY <1>1, <1>2, <1>5
  <2> QED BY <2>2, <2>3
<1>7. f \in Injection(S, R)
  BY <1>5, <1>6 DEF Injection, IsInjective
<1>8. f \in Surjection(S, R)
  BY <1>1, <1>3, <1>7, FS_Injection
<1>9. i \in R
  BY <1>1
<1>10. \E l \in S : f[l] = i
  BY <1>8, <1>9 DEF Surjection
<1> QED BY <1>4, <1>10

LEMMA NthLetterIs ==
    ASSUME NEW p \in Seq(Nat), NEW i \in 0 .. (Cardinality(get_available_letters(p)) - 1)
    PROVE  NthLetter(p, i) \in get_available_letters(p)
<1>1. PICK S : S = get_available_letters(p)
  OBVIOUS
<1>2. S \in SUBSET Nat /\ IsFiniteSet(S) /\ i \in 0 .. (Cardinality(S) - 1)
  BY <1>1, FinitelyMany
<1>3. \E l \in S : Rank(S, l) = i
  BY <1>2, RankTaken
<1>4. NthLetter(p, i) = CHOOSE l \in S : Rank(S, l) = i
  BY <1>1, Zenon DEF NthLetter, Rank
<1> QED BY <1>1, <1>3, <1>4

LEMMA PrefixIs ==
    ASSUME NEW p \in Prefixes
    PROVE  /\ p \in Seq(Nat) /\ filter_prefix(p) # {}
           /\ \E w \in WORDLIST : \E n \in 0 .. Len(w) : w \in Seq(Nat) /\ p = SubSeq(w, 1, n)
<1>1. PICK w \in WORDLIST : \E n \in 0 .. Len(w) : p = SubSeq(w, 1, n)
  BY DEF Prefixes
<1>2. PICK n \in 0 .. Len(w) : p = SubSeq(w, 1, n)
  BY <1>1
<1>3. w \in Seq(Nat)
  BY FactoryAssumption
<1>4. p \in Seq(Nat) /\ Len(p) = n
  BY <1>2, <1>3
<1>5. HasPrefix(w, p)
  BY <1>2, <1>3, <1>4 DEF HasPrefix
<1> QED BY <1>2, <1>3, <1>4, <1>5 DEF filter_prefix

LEMMA EmptyPrefix == << >> \in Prefixes
<1>1. PICK w : w \in WORDLIST
  BY FactoryAssumption
<1>2. w \in Seq(Nat)
  BY <1>1, FactoryAssumption
<1>3. << >> = SubSeq(w, 1, 0) /\ 0 \in 0 .. Len(w)
  BY <1>2
<1> QED BY <1>1, <1>3 DEF Prefixes

LEMMA DeleteIs ==
    ASSUME NEW t \in Seq(Nat), NEW long
    PROVE  Delete(t, long) \in Seq(Nat) /\ Len(Delete(t, long)) <= Len(t)
  BY DEF Delete

LEMMA DeletePrefix ==
    ASSUME NEW p \in Prefixes, NEW long
    PROVE  Delete(p, long) \in Prefixes
<1>1. CASE Delete(p, long) = << >>
  BY <1>1, EmptyPrefix
<1>2. CASE p # << >> /\ Delete(p, long) = SubSeq(p, 1, Len(p) - 1)
  <2>0. PICK w \in WORDLIST : \E n \in 0 .. Len(w) : w \in Seq(Nat) /\ p = SubSeq(w, 1, n)
    BY PrefixIs
  <2>1. PICK n \in 0 .. Len(w) : w \in Seq(Nat) /\ p = SubSeq(w, 1, n)
    BY <2>0
  <2>2. n # 0
    BY <1>2, <2>1
  <2>3. Len(p) = n /\ n - 1 \in 0 .. Len(w)
    BY <2>1, <2>2
  <2>4. SubSeq(p, 1, n - 1) = SubSeq(w, 1, n - 1)
    BY <2>1, <2>2, <2>3
  <2> QED BY <1>2, <2>3, <2>4 DEF Prefixes
<1> QED BY <1>1, <1>2 DEF Delete

LEMMA AppendPrefix ==
    ASSUME NEW p \in Prefixes, NEW l \in get_available_letters(p)
    PROVE  Append(p, l) \in Prefixes
<1>1. p \in Seq(Nat)
  BY PrefixIs
<1>2. PICK w \in WORDLIST : HasPrefix(w, p) /\ Len(w) > Len(p) /\ l = w[Len(p) + 1]
  BY DEF get_available_letters, filter_prefix
<1>3. w \in Seq(Nat)
  BY FactoryAssumption
<1>4. PICK n : n = Len(p) + 1
  OBVIOUS
<1>5. n \in 0 .. Len(w) /\ n \in Nat
  BY <1>1, <1>2, <1>3, <1>4
<1>6. PICK q : q = SubSeq(w, 1, n)
  OBVIOUS
<1>7. q \in Seq(Nat) /\ Len(q) = n /\ \A i \in 1 .. n : q[i] = w[i]
  BY <1>3, <1>5, <1>6
<1>8. \A i \in 1 .. Len(p) : p[i] = w[i]
  BY <1>1, <1>2, <1>3 DEF HasPrefix
<1>9. Append(p, l) = q
  <2>1. PICK a : a = Append(p, l)
    OBVIOUS
  <2>2. l \in Nat
    BY <1>2, <1>3, <1>4, <1>5
  <2>3. a \in Seq(Nat) /\ Len(a) = n /\ a[n] = l /\ \A i \in 1 .. Len(p) : a[i] = p[i]
    BY <1>1, <1>4, <2>1, <2>2
  <2>4. \A i \in 1 .. n : i \in 1 .. Len(p) \/ i = n
    BY <1>1, <1>4
  <2>5. \A i \in 1 .. n : a[i] = q[i]
    BY <1>2, <1>4, <1>5, <1>7, <1>8, <2>3, <2>4
  <2>6. DOMAIN a = 1 .. n /\ DOMAIN q = 1 .. n
    BY <1>7, <2>3
  <2>7. a = [i \in 1 .. n |-> a[i]] /\ q = [i \in 1 .. n |-> q[i]]
    BY <1>7, <2>3, <2>6
  <2>8. a = q
    BY <2>5, <2>7
  <2> QED BY <2>1, <2>8
<1> QED BY <1>5, <1>6, <1>9 DEF Prefixes

\* The choices of a word entry.
LEMMA WordTable ==
    ASSUME NEW p \in Prefixes, NEW ch \in WordlistChoices(p)
    PROVE  /\ ch.of = "wordlist" /\ ch.prefix = p /\ ch.order \in WordOrders(p)
           /\ ch \in Tables("wordlist")
           /\ count(ch) \in Nat \ {0}
           /\ offer_words(p) => count(ch) = 1 + Cardinality(filter_prefix(p)) /\ count(ch) >= 2
           /\ ~offer_words(p) => count(ch) = 1 + Cardinality(get_available_letters(p))
<1>1. PICK o \in WordOrders(p) : ch = [of |-> "wordlist", prefix |-> p, order |-> o]
  BY DEF WordlistChoices
<1>2. ch.of = "wordlist" /\ ch.prefix = p /\ ch.order \in WordOrders(p)
  BY <1>1
<1>3. ch \in Tables("wordlist")
  BY DEF Tables
<1>4. /\ Cardinality(filter_prefix(p)) \in Nat /\ Cardinality(get_available_letters(p)) \in Nat
      /\ Cardinality(filter_prefix(p)) # 0
  BY PrefixIs, FinitelyMany, FS_EmptySet
<1>5. count(ch) = 1 + IF offer_words(p) THEN Cardinality(filter_prefix(p))
                      ELSE Cardinality(get_available_letters(p))
  BY <1>2 DEF count
<1> QED BY <1>2, <1>3, <1>4, <1>5

LEMMA PassphraseTable ==
    ASSUME NEW category \in Categories \cup {"Menu"}, NEW e \in BOOLEAN
    PROVE  LET ch == Passphrase(category, e)
           IN  /\ ch.of = "passphrase" /\ ch.category = category /\ ch \in Tables("passphrase")
               /\ category = "Menu" => count(ch) = 8
               /\ category # "Menu" => count(ch) = CHARS + 1
<1>1. PICK ch : ch = Passphrase(category, e)
  OBVIOUS
<1>2. ch \in Tables("passphrase")
  BY <1>1 DEF Tables
<1>3. ch.of = "passphrase" /\ ch.category = category
  BY <1>1 DEF Passphrase
<1>4. Len(Menu) = 8
  BY DEF Menu
<1>5. count(ch) = IF category = "Menu" THEN Len(Menu) ELSE CHARS + 1
  BY <1>3 DEF count
<1> QED BY <1>1, <1>2, <1>3, <1>4, <1>5

LEMMA PassphraseIs ==
    ASSUME NEW ch \in Tables("passphrase")
    PROVE  /\ ch.of = "passphrase" /\ ch.category \in Categories \cup {"Menu"}
           /\ ch.category = "Menu" => count(ch) = 8
           /\ ch.category # "Menu" => count(ch) = CHARS + 1
<1>1. PICK category \in Categories \cup {"Menu"}, e \in BOOLEAN : ch = Passphrase(category, e)
  BY DEF Tables
<1> QED BY <1>1, PassphraseTable

LEMMA PinTable == PIN.of = "pin" /\ count(PIN) = 3 + DIGITS /\ Tables("pin") = {PIN}
<1>1. PIN.of = "pin"
  BY DEF PIN
<1> QED BY <1>1 DEF count, Tables

LEMMA NumberTable ==
    Number.of = "number" /\ count(Number) = NUMBERS /\ Tables("number") = {Number}
<1>1. Number.of = "number"
  BY DEF Number
<1> QED BY <1>1 DEF count, Tables

LEMMA WordTableIs ==
    ASSUME NEW ch \in Tables("wordlist")
    PROVE  ch.prefix \in Prefixes /\ ch \in WordlistChoices(ch.prefix)
<1>1. PICK p \in Prefixes : ch \in WordlistChoices(p)
  BY DEF Tables
<1> QED BY <1>1, WordTable

Kinds == {"pin", "passphrase", "number", "wordlist"}

\* No table is empty.
LEMMA TableCount ==
    ASSUME NEW kind \in Kinds, NEW ch \in Tables(kind)
    PROVE  ch.of = kind /\ count(ch) \in Nat \ {0}
<1>1. CASE kind = "pin"
  BY <1>1, PinTable, FactoryAssumption
<1>2. CASE kind = "passphrase"
  BY <1>2, PassphraseIs, FactoryAssumption
<1>3. CASE kind = "number"
  BY <1>3, NumberTable, FactoryAssumption
<1>4. CASE kind = "wordlist"
  BY <1>4, WordTableIs, WordTable
<1> QED BY <1>1, <1>2, <1>3, <1>4 DEF Kinds

\* Every target is the index of a choice.
LEMMA TargetsInside ==
    ASSUME NEW kind \in {"pin", "passphrase"}, NEW ch \in Tables(kind), NEW i \in Targets(ch)
    PROVE  i \in 0 .. (count(ch) - 1)
<1>1. CASE kind = "pin"
  <2>1. ch.of = "pin" /\ count(ch) = 3 + DIGITS
    BY <1>1, PinTable
  <2> QED BY <2>1, FactoryAssumption DEF Targets, get_random_digit_position
<1>2. CASE kind = "passphrase"
  <2>1. /\ ch.of = "passphrase"
        /\ ch.category = "Menu" => count(ch) = 8
        /\ ch.category # "Menu" => count(ch) = CHARS + 1
    BY <1>2, PassphraseIs
  <2>2. Len(Menu) = 8
    BY DEF Menu
  <2>3. i \in 0 .. (IF ch.category = "Menu" THEN Len(Menu) ELSE CHARS) - 1
    BY <2>1 DEF Targets, random_category_position
  <2> QED BY <2>1, <2>2, <2>3, FactoryAssumption
<1> QED BY <1>1, <1>2

\* reset() in a word entry puts the page counter on a choice.
LEMMA CounterInside ==
    ASSUME NEW p \in Prefixes, NEW ch \in WordlistChoices(p), NEW i \in get_new_page_counter(ch)
    PROVE  i \in 0 .. (count(ch) - 1)
<1>1. /\ ch.prefix = p /\ count(ch) \in Nat
      /\ offer_words(p) => count(ch) >= 2
  BY WordTable
<1>2. CASE offer_words(p) \/ count(ch) = 2
  BY <1>1, <1>2 DEF get_new_page_counter
<1>3. CASE ~(offer_words(p) \/ count(ch) = 2)
  <2>1. i \in 1 .. (count(ch) - 1)
    BY <1>1, <1>3 DEF get_new_page_counter
  <2> QED BY <1>1, <2>1
<1> QED BY <1>2, <1>3

----------------------------------------------------------------------------
(* The page counter. *)

\* m is the page g with another page counter and layout of the buttons.
Moved(m, g) ==
    /\ IsChoicePage(m) /\ m.choices = g.choices /\ m.is_carousel = g.is_carousel
    /\ m.holding = g.holding /\ m.animation = g.animation /\ m.steps = g.steps
    /\ m.buttons \in ControllerType

LEMMA UpdateIs ==
    ASSUME NEW g, IsChoicePage(g), g.buttons \in ControllerType
    PROVE  Moved(update(g), g) /\ update(g).page = g.page
<1>1. PICK l : l = btn_layout(g.choices, g.page)
  OBVIOUS
<1>2. PICK e : e = set(g.buttons, l)
  OBVIOUS
<1>3. e \in ControllerType
  BY <1>1, <1>2, LayoutType, SetType
<1>4. PICK u : u = [g EXCEPT !.buttons = e]
  OBVIOUS
<1>5. update(g) = u
  BY <1>1, <1>2, <1>4 DEF update
<1>6. /\ IsChoicePage(u) /\ u.choices = g.choices /\ u.is_carousel = g.is_carousel
      /\ u.holding = g.holding /\ u.animation = g.animation /\ u.steps = g.steps
      /\ u.buttons = e /\ u.page = g.page
  BY <1>4 DEF IsChoicePage
<1> QED BY <1>3, <1>5, <1>6 DEF Moved

\* A move stays inside the table; in a carousel it goes round.
LEMMA MoveIs ==
    ASSUME NEW g, IsChoicePage(g), g.buttons \in ControllerType,
           NEW n \in Nat \ {0}, n = count(g.choices), g.page \in 0 .. (n - 1), NEW b
    PROVE  LET m == Move(g, b)
           IN  /\ Moved(m, g) /\ m.page \in 0 .. (n - 1)
               /\ g.is_carousel /\ b = "Left" =>
                     m.page = IF g.page > 0 THEN g.page - 1 ELSE n - 1
               /\ g.is_carousel /\ b # "Left" =>
                     m.page = IF g.page < n - 1 THEN g.page + 1 ELSE 0
<1>1. last_page_index(g) = n - 1
  BY DEF last_page_index
<1>2. PICK z : z = 0
  OBVIOUS
<1>3. PICK t : t = IF b = "Left" THEN IF g.page > 0 THEN g.page - 1 ELSE n - 1
                   ELSE IF g.page < n - 1 THEN g.page + 1 ELSE z
  OBVIOUS
<1>4. t \in 0 .. (n - 1)
  BY <1>2, <1>3
<1>5. PICK h : h = [g EXCEPT !.page = t]
  OBVIOUS
<1>6. \/ Move(g, b) = update(h)
      \/ Move(g, b) = g /\ ~g.is_carousel
  <2>1. CASE b = "Left" /\ g.page > 0
    BY <1>3, <1>5, <2>1 DEF Move, move_left
  <2>2. CASE b = "Left" /\ ~(g.page > 0)
    BY <1>1, <1>3, <1>5, <2>2 DEF Move, move_left
  <2>3. CASE b # "Left" /\ g.page < n - 1
    BY <1>1, <1>3, <1>5, <2>3 DEF Move, move_right
  <2>4. CASE b # "Left" /\ ~(g.page < n - 1)
    BY <1>1, <1>2, <1>3, <1>5, <2>4 DEF Move, move_right
  <2> QED BY <2>1, <2>2, <2>3, <2>4
<1>7. CASE Move(g, b) = g /\ ~g.is_carousel
  BY <1>7 DEF Moved
<1>8. CASE Move(g, b) = update(h)
  <2>1. /\ IsChoicePage(h) /\ h.choices = g.choices /\ h.is_carousel = g.is_carousel
        /\ h.holding = g.holding /\ h.animation = g.animation /\ h.steps = g.steps
        /\ h.buttons = g.buttons /\ h.page = t
    BY <1>5 DEF IsChoicePage
  <2>2. PICK m : m = update(h)
    OBVIOUS
  <2>3. Moved(m, h) /\ m.page = t
    BY <2>1, <2>2, UpdateIs
  <2>4. Moved(m, g)
    BY <2>1, <2>3 DEF Moved
  <2> QED BY <1>2, <1>3, <1>4, <1>8, <2>2, <2>3, <2>4
<1> QED BY <1>6, <1>7, <1>8

LEMMA PageOKFields ==
    ASSUME NEW kind \in Kinds, NEW g, PageOK(g, kind)
    PROVE  /\ IsChoicePage(g) /\ g.choices \in Tables(kind) /\ g.choices.of = kind
           /\ count(g.choices) \in Nat \ {0} /\ g.page \in 0 .. (count(g.choices) - 1)
           /\ g.is_carousel \in BOOLEAN /\ (kind \in {"pin", "passphrase"} => g.is_carousel)
           /\ g.buttons \in ControllerType /\ g.holding \in MoverType
           /\ g.animation \in MoverType /\ g.steps \in Int /\ Lands(g, kind)
  BY TableCount DEF PageOK

\* A page at rest keeps its contents when its counter moves.
LEMMA MoveOK ==
    ASSUME NEW kind \in Kinds, NEW g, PageOK(g, kind), ~is_moving(g.animation), NEW b
    PROVE  LET m == Move(g, b)
           IN  PageOK(m, kind) /\ m.choices = g.choices /\ ~is_moving(m.animation)
<1>1. PICK m, n : m = Move(g, b) /\ n = count(g.choices)
  OBVIOUS
<1>2. Moved(m, g) /\ m.page \in 0 .. (n - 1)
  BY <1>1, PageOKFields, MoveIs
<1>3. ~is_moving(m.animation) /\ m.choices = g.choices
  BY <1>2 DEF Moved
<1>4. Lands(m, kind)
  BY <1>3 DEF Lands
<1>5. PageOK(m, kind)
  BY <1>1, <1>2, <1>4, PageOKFields DEF PageOK, Moved
<1> QED BY <1>1, <1>3, <1>5

\* The arithmetic of an animation: every step is one step nearer, round the end too.
LEMMA StepRight ==
    ASSUME NEW n \in Nat \ {0}, NEW i \in 0 .. (n - 1), NEW p \in 0 .. (n - 1),
           NEW k \in Int, k > 0, Arrives(p, k, n, i),
           NEW q, q = IF p < n - 1 THEN p + 1 ELSE 0
    PROVE  Arrives(q, k - 1, n, i)
<1>1. CASE p < n - 1
  BY <1>1 DEF Arrives
<1>2. CASE p = n - 1
  BY <1>2 DEF Arrives
<1> QED BY <1>1, <1>2

LEMMA StepLeft ==
    ASSUME NEW n \in Nat \ {0}, NEW i \in 0 .. (n - 1), NEW p \in 0 .. (n - 1),
           NEW k \in Int, k < 0, Arrives(p, k, n, i),
           NEW q, q = IF p > 0 THEN p - 1 ELSE n - 1
    PROVE  Arrives(q, k + 1, n, i)
<1>1. CASE p > 0
  BY <1>1 DEF Arrives
<1>2. CASE p = 0
  BY <1>2 DEF Arrives
<1> QED BY <1>1, <1>2

LEMMA StepsTo ==
    ASSUME NEW g, NEW n \in Nat, n = count(g.choices), g.page \in 0 .. (n - 1),
           NEW i \in 0 .. (n - 1)
    PROVE  /\ animated_steps(g, i) \in Int
           /\ Arrives(g.page, animated_steps(g, i), n, i)
<1>1. PICK d : d = i - g.page
  OBVIOUS
<1>2. d \in Int /\ g.page + d = i /\ i \in Int
  BY <1>1
<1>3. animated_steps(g, i) \in {d, d + n, d - n}
  BY <1>1 DEF animated_steps
<1> QED BY <1>2, <1>3 DEF Arrives

LEMMA ArrivesAt ==
    ASSUME NEW n \in Nat \ {0}, NEW i \in 0 .. (n - 1), NEW p \in Int, NEW k \in Int,
           Arrives(p, k, n, i)
    PROVE  (p + k) % n = i
<1>1. i % n = i /\ (i + n) % n = i /\ (i - n) % n = i
  OBVIOUS
<1> QED BY <1>1 DEF Arrives

----------------------------------------------------------------------------
(* The events of a choice page keep its contents. *)

\* What an event makes of the page g: the same choices, and a choice only at rest.
EventOK(g, r, kind) ==
    /\ PageOK(r.page, kind) /\ r.page.choices = g.choices
    /\ \/ r.choice = NoChoice
       \/ /\ ~is_moving(r.page.animation)
          /\ \E long \in BOOLEAN : r.choice = Chosen(r.page, long)

LEMMA WithOK ==
    ASSUME NEW kind \in Kinds, NEW g, PageOK(g, kind), ~is_moving(g.animation),
           NEW e \in ControllerType, NEW v \in MoverType
    PROVE  LET h == With(g, e, v)
           IN  /\ PageOK(h, kind) /\ ~is_moving(h.animation)
               /\ h.choices = g.choices /\ h.page = g.page
               /\ h.buttons = e /\ h.holding = v
<1>1. PICK h : h = With(g, e, v)
  OBVIOUS
<1>2. /\ IsChoicePage(h) /\ h.choices = g.choices /\ h.page = g.page
      /\ h.is_carousel = g.is_carousel /\ h.buttons = e /\ h.holding = v
      /\ h.animation = g.animation /\ h.steps = g.steps
  <2>1. IsChoicePage(g)
    BY PageOKFields
  <2> QED BY <1>1, <2>1 DEF IsChoicePage, With
<1>3. Lands(h, kind)
  BY <1>2 DEF Lands
<1>4. PageOK(h, kind)
  BY <1>2, <1>3, PageOKFields DEF PageOK
<1> QED BY <1>1, <1>2, <1>4

LEMMA MoverIs ==
    ASSUME NEW g, g.holding \in MoverType, NEW m
    PROVE  Mover(g, m) \in MoverType
<1>1. CASE Stops(g, m)
  <2>1. "Left" \in PhysicalButton
    BY DEF PhysicalButton
  <2> QED BY <1>1, <2>1, MoverTypes DEF Mover
<1>2. CASE ~Stops(g, m) /\ Starts(g, m)
  <2>1. m.pos \in PhysicalButton
    BY <1>2 DEF Starts
  <2> QED BY <1>2, <2>1, MoverTypes DEF Mover
<1>3. CASE ~Stops(g, m) /\ ~Starts(g, m)
  BY <1>3 DEF Mover
<1> QED BY <1>1, <1>2, <1>3

LEMMA OutcomeOK ==
    ASSUME NEW kind, NEW g, NEW h, PageOK(h, kind), h.choices = g.choices,
           NEW r, r = PageOutcome(h, NoChoice)
    PROVE  EventOK(g, r, kind)
  BY DEF EventOK, PageOutcome

LEMMA ChosenOK ==
    ASSUME NEW kind, NEW g, NEW h, PageOK(h, kind), h.choices = g.choices,
           ~is_moving(h.animation), NEW long \in BOOLEAN,
           NEW r, r = PageOutcome(h, Chosen(h, long))
    PROVE  EventOK(g, r, kind)
<1>1. PICK c : c = Chosen(h, long)
  OBVIOUS
<1>2. r.page = h /\ r.choice = c
  BY <1>1 DEF PageOutcome
<1> QED BY <1>1, <1>2 DEF EventOK

LEMMA ReactOK ==
    ASSUME NEW kind \in Kinds, NEW g, PageOK(g, kind), ~is_moving(g.animation),
           NEW o, o.buttons \in ControllerType, o.msg.long \in BOOLEAN
    PROVE  EventOK(g, React(g, o), kind)
<1>1. PICK e, m : e = o.buttons /\ m = o.msg
  OBVIOUS
<1>2. PICK v : v = Mover(g, m)
  OBVIOUS
<1>3. PICK h : h = With(g, e, v)
  OBVIOUS
<1>4. /\ PageOK(h, kind) /\ ~is_moving(h.animation) /\ h.choices = g.choices
      /\ h.page = g.page /\ h.buttons = e /\ h.holding = v
  <2>1. v \in MoverType
    BY <1>2, PageOKFields, MoverIs
  <2> QED BY <1>1, <1>3, <2>1, WithOK
<1>5. CASE React(g, o) = PageOutcome(h, NoChoice)
  BY <1>4, <1>5, OutcomeOK
<1>6. CASE React(g, o) = PageOutcome(Move(h, m.pos), NoChoice)
  <2>1. PICK n : n = Move(h, m.pos)
    OBVIOUS
  <2>2. PageOK(n, kind) /\ n.choices = g.choices
    BY <1>4, <2>1, MoveOK
  <2> QED BY <1>6, <2>1, <2>2, OutcomeOK
<1>7. CASE React(g, o) = PageOutcome(h, Chosen(h, m.long))
  BY <1>1, <1>4, <1>7, ChosenOK
<1>8. CASE React(g, o) = PageOutcome([h EXCEPT !.buttons = reset_state(@)], Chosen(h, TRUE))
  <2>1. PICK x : x = reset_state(e)
    OBVIOUS
  <2>2. x \in ControllerType
    BY <1>1, <2>1, ResetType
  <2>3. PICK n : n = With(h, x, v)
    OBVIOUS
  <2>4. v \in MoverType
    BY <1>4, PageOKFields
  <2>5. PageOK(n, kind) /\ ~is_moving(n.animation) /\ n.choices = h.choices /\ n.page = h.page
    BY <1>4, <2>2, <2>3, <2>4, WithOK
  <2>6. [h EXCEPT !.buttons = reset_state(@)] = n
    BY <1>4, <2>1, <2>3, PageOKFields DEF IsChoicePage, With
  <2>7. PICK t \in BOOLEAN : t = TRUE
    OBVIOUS
  <2>8. Chosen(h, t) = Chosen(n, t)
    BY <2>5 DEF Chosen
  <2>9. React(g, o) = PageOutcome(n, Chosen(n, t))
    BY <1>8, <2>6, <2>7, <2>8, Zenon
  <2> QED BY <1>4, <2>5, <2>9, ChosenOK
<1>9. \/ React(g, o) = PageOutcome(h, NoChoice)
      \/ React(g, o) = PageOutcome(Move(h, m.pos), NoChoice)
      \/ React(g, o) = PageOutcome(h, Chosen(h, m.long))
      \/ React(g, o) = PageOutcome([h EXCEPT !.buttons = reset_state(@)], Chosen(h, TRUE))
  <2> DEFINE stops == Stops(g, m) /\ g.holding.moved
             long == m = LongPressed("Middle") /\ without_release(h.choices, h.page)
  <2>0. LongPressed("Middle").of = "LongPressed"
    BY MessageFields
  <2>1. CASE stops
    <3>1. m.of \in {"Triggered", "Pressed"}
      BY <2>1 DEF Stops
    <3>2. ~long /\ ~(~stops /\ m.of = "Triggered")
      BY <2>0, <2>1, <3>1
    <3> QED BY <1>1, <1>2, <1>3, <2>1, <3>2, Zenon DEF React, With
  <2>2. CASE ~stops /\ m.of = "Triggered"
    <3>1. ~long
      BY <2>0, <2>2
    <3>2. React(g, o) = IF m.pos = "Middle" THEN PageOutcome(h, Chosen(h, m.long))
                        ELSE PageOutcome(Move(h, m.pos), NoChoice)
      BY <1>1, <1>2, <1>3, <2>2, <3>1, Zenon DEF React, With
    <3> QED BY <2>2, <3>2
  <2>3. CASE ~stops /\ m.of # "Triggered" /\ long
    BY <1>1, <1>2, <1>3, <2>3, Zenon DEF React, With
  <2>4. CASE ~stops /\ m.of # "Triggered" /\ ~long
    BY <1>1, <1>2, <1>3, <2>4, Zenon DEF React, With
  <2> QED BY <2>1, <2>2, <2>3, <2>4
<1> QED BY <1>5, <1>6, <1>7, <1>8, <1>9

LEMMA AnimationEventOK ==
    ASSUME NEW kind \in Kinds, NEW g, PageOK(g, kind)
    PROVE  LET h == animation_event(g)
           IN  /\ PageOK(h, kind) /\ h.choices = g.choices /\ h.buttons = g.buttons
               /\ h.holding = g.holding
               /\ ~Ignoring(g) => ~is_moving(h.animation)
<1>1. CASE g.steps = 0
  <2>1. PICK v : v = stop_moving(g.animation)
    OBVIOUS
  <2>2. v \in MoverType /\ ~is_moving(v)
    BY <2>1, PageOKFields, MoverTypes DEF PhysicalButton
  <2>3. PICK h : h = [g EXCEPT !.animation = v]
    OBVIOUS
  <2>4. animation_event(g) = h
    BY <1>1, <2>1, <2>3 DEF animation_event
  <2>5. /\ IsChoicePage(h) /\ h.choices = g.choices /\ h.page = g.page
        /\ h.is_carousel = g.is_carousel /\ h.buttons = g.buttons /\ h.holding = g.holding
        /\ h.animation = v /\ h.steps = g.steps
    BY <2>3, PageOKFields DEF IsChoicePage
  <2>6. Lands(h, kind)
    BY <2>2, <2>5 DEF Lands
  <2>7. PageOK(h, kind)
    BY <2>2, <2>5, <2>6, PageOKFields DEF PageOK
  <2> QED BY <2>2, <2>4, <2>5, <2>7
<1>2. CASE g.steps # 0
  BY <1>2 DEF animation_event, Ignoring
<1> QED BY <1>1, <1>2

\* Messages carry whether the press was long.
LongKnown(outcomes) == \A o \in outcomes : o.msg.long \in BOOLEAN

LEMMA ToButtonsOK ==
    ASSUME NEW kind \in Kinds, NEW g, PageOK(g, kind), NEW outcomes,
           Typed(outcomes), LongKnown(outcomes), NEW r \in ToButtons(g, outcomes)
    PROVE  EventOK(g, r, kind)
<1>1. CASE Ignoring(g)
  BY <1>1, OutcomeOK DEF ToButtons
<1>2. CASE ~Ignoring(g)
  <2>1. PICK h : h = animation_event(g)
    OBVIOUS
  <2>2. PageOK(h, kind) /\ h.choices = g.choices /\ ~is_moving(h.animation)
    BY <1>2, <2>1, AnimationEventOK
  <2>3. PICK o \in outcomes : r = React(h, o)
    BY <1>2, <2>1 DEF ToButtons
  <2>4. EventOK(h, r, kind)
    BY <2>2, <2>3, ReactOK DEF Typed, LongKnown
  <2> QED BY <2>2, <2>4 DEF EventOK
<1> QED BY <1>1, <1>2

LEMMA MessageLong ==
    ASSUME NEW p
    PROVE  /\ NoMsg.long \in BOOLEAN /\ Pressed(p).long \in BOOLEAN
           /\ LongPressed(p).long \in BOOLEAN
           /\ ReleasedWithoutLongPress(p).long \in BOOLEAN
<1>1. PICK f \in BOOLEAN : f = FALSE
  OBVIOUS
<1>2. /\ NoMsg = [of |-> "None", pos |-> "None", long |-> f]
      /\ Pressed(p) = [of |-> "Pressed", pos |-> p, long |-> f]
      /\ LongPressed(p) = [of |-> "LongPressed", pos |-> p, long |-> f]
      /\ ReleasedWithoutLongPress(p) =
            [of |-> "ReleasedWithoutLongPress", pos |-> p, long |-> f]
  BY <1>1, Zenon DEF NoMsg, Pressed, LongPressed, ReleasedWithoutLongPress
<1>3. /\ NoMsg.long = f /\ Pressed(p).long = f /\ LongPressed(p).long = f
      /\ ReleasedWithoutLongPress(p).long = f
  BY <1>2
<1> QED BY <1>3, Zenon

LEMMA TriggeredLong ==
    ASSUME NEW p, NEW long \in BOOLEAN
    PROVE  Triggered(p, long).long \in BOOLEAN
  BY DEF Triggered

LEMMA OneLong ==
    ASSUME NEW c, NEW m, m.long \in BOOLEAN, NEW outcomes, outcomes = {Outcome(c, m)}
    PROVE  LongKnown(outcomes)
  BY DEF LongKnown, Outcome

LEMMA TriggerLong ==
    ASSUME NEW c \in ControllerType, NEW p \in ButtonPos
    PROVE  LongKnown(maybe_trigger(c, p))
<1>1. c.btn[p] \in {"Nothing", "Button", "LongPress", "HoldToConfirm"}
  BY ControllerFields DEF ButtonType
<1>2. CASE c.btn[p] \in {"Button", "LongPress"}
  <2>1. PICK d : d = [c EXCEPT !.longTimer = IF c.longTimer = p THEN "None" ELSE @]
    OBVIOUS
  <2>2. ~(c.btn[p] = "HoldToConfirm") /\ ~(c.btn[p] = "Nothing")
    BY <1>2
  <2>3. maybe_trigger(c, p) = {Outcome(d, Triggered(p, long)) : long \in BOOLEAN}
    BY <1>2, <2>1, <2>2, Zenon DEF maybe_trigger, IsHTC
  <2>4. ASSUME NEW o \in maybe_trigger(c, p) PROVE o.msg.long \in BOOLEAN
    <3>1. PICK long \in BOOLEAN : o = Outcome(d, Triggered(p, long))
      BY <2>3, Zenon
    <3>2. PICK m : m = Triggered(p, long)
      OBVIOUS
    <3>3. o.msg = m
      BY <3>1, <3>2 DEF Outcome
    <3> QED BY <3>2, <3>3, TriggeredLong
  <2> QED BY <2>4 DEF LongKnown
<1>3. CASE c.btn[p] = "HoldToConfirm"
  <2>0. ~(c.btn[p] \in {"Button", "LongPress"}) /\ ~(c.btn[p] = "Nothing")
    BY <1>3
  <2>1. maybe_trigger(c, p) = {Outcome(hold_ended(c, p), ReleasedWithoutLongPress(p))}
    BY <1>3, <2>0, Zenon DEF maybe_trigger, IsHTC
  <2> QED BY <2>1, MessageLong, OneLong
<1>4. CASE c.btn[p] = "Nothing"
  <2>0. ~(c.btn[p] \in {"Button", "LongPress"}) /\ ~(c.btn[p] = "HoldToConfirm")
    BY <1>4
  <2>1. maybe_trigger(c, p) = {Outcome(c, NoMsg)}
    BY <1>4, <2>0, Zenon DEF maybe_trigger, IsHTC
  <2> QED BY <2>1, MessageLong, OneLong
<1> QED BY <1>1, <1>2, <1>3, <1>4

LEMMA PressLong ==
    ASSUME NEW c \in ControllerType, NEW b \in PhysicalButton
    PROVE  LongKnown(ButtonPressed(c, b))
<1>1. PICK x, y, z, w :
         /\ x = To(hold_started(got_pressed(handle_button_press(c, b), b), b), OneDown(b))
         /\ y = To(middle_hold_started(got_pressed(c, "Middle")), BothDown)
         /\ z = To(got_pressed(c, b), BothDown)
         /\ w = To(middle_hold_started(c), BothDown)
  OBVIOUS
<1>2. ButtonPressed(c, b) \in {{Outcome(x, Pressed(b))}, {Outcome(c, NoMsg)},
                               {Outcome(y, Pressed("Middle"))}, {Outcome(z, Pressed(b))},
                               {Outcome(w, NoMsg)}}
  BY <1>1 DEF ButtonPressed
<1>3. \E e, m : m.long \in BOOLEAN /\ ButtonPressed(c, b) = {Outcome(e, m)}
  BY <1>2, MessageLong
<1> QED BY <1>3, OneLong

LEMMA ReleaseLong ==
    ASSUME NEW c \in ControllerType, NEW b \in PhysicalButton
    PROVE  LongKnown(ButtonReleased(c, b))
<1>1. b \in ButtonPos /\ "Middle" \in ButtonPos /\ Other(b) \in PhysicalButton
  BY StateTypes
<1>2. PICK x : x = To(make_button_clickable(c, {Other(b)}), Nothing)
  OBVIOUS
<1>3. PICK y : y = To(make_button_clickable(c, PhysicalButton), Nothing)
  OBVIOUS
<1>4. x \in ControllerType
  <2>1. PICK bs, l : bs = {Other(b)} /\ l = make_button_clickable(c, bs)
    OBVIOUS
  <2>2. bs \in SUBSET PhysicalButton
    BY <1>1, <2>1
  <2>3. l \in ControllerType
    BY <2>1, <2>2, ClickableType
  <2> QED BY <1>2, <2>1, <2>3, StateTypes, ToType
<1>5. y \in ControllerType
  <2>1. PICK bs, l : bs = PhysicalButton /\ l = make_button_clickable(c, bs)
    OBVIOUS
  <2>2. bs \in SUBSET PhysicalButton
    BY <2>1
  <2>3. l \in ControllerType
    BY <2>1, <2>2, ClickableType
  <2> QED BY <1>3, <2>1, <2>3, StateTypes, ToType
<1>6. PICK t, n, z, w : /\ t = Triggered(b, FALSE) /\ n = NoMsg
                        /\ z = To(hold_ended(c, "Middle"), OneReleased(b)) /\ w = To(c, Nothing)
  OBVIOUS
<1>7. ButtonReleased(c, b) \in {maybe_trigger(x, b), maybe_trigger(y, "Middle"),
                                {Outcome(z, IF handle_middle_button(c) THEN n ELSE t)},
                                {Outcome(y, t)}, {Outcome(w, n)}, {Outcome(c, n)}}
  BY <1>2, <1>3, <1>6 DEF ButtonReleased
<1>8. LongKnown(maybe_trigger(x, b)) /\ LongKnown(maybe_trigger(y, "Middle"))
  BY <1>1, <1>4, <1>5, TriggerLong
<1>9. ASSUME NEW e, NEW m \in {t, n}
      PROVE  LongKnown({Outcome(e, m)})
  <2>1. PICK f \in BOOLEAN : f = FALSE
    OBVIOUS
  <2>2. t = Triggered(b, f)
    BY <1>6, <2>1, Zenon
  <2>3. m.long \in BOOLEAN
    BY <1>6, <2>2, MessageLong, TriggeredLong
  <2> QED BY <2>3, OneLong
<1>10. ButtonReleased(c, b) \in {maybe_trigger(x, b), maybe_trigger(y, "Middle")} \/
       \E e, m : m \in {t, n} /\ ButtonReleased(c, b) = {Outcome(e, m)}
  BY <1>7
<1> QED BY <1>8, <1>9, <1>10

LEMMA TimerLong ==
    ASSUME NEW c, NEW b
    PROVE  LongKnown(ClickTimer(c, b)) /\ LongKnown(LongTimer(c))
<1>1. \E e : ClickTimer(c, b) = {Outcome(e, NoMsg)}
  BY DEF ClickTimer
<1>2. \E e : LongTimer(c) = {Outcome(e, LongPressed(c.longTimer))}
  BY DEF LongTimer
<1> QED BY <1>1, <1>2, MessageLong, OneLong

LEMMA PressOK ==
    ASSUME NEW kind \in Kinds, NEW g, PageOK(g, kind), NEW b \in PhysicalButton,
           NEW r \in PagePress(g, b)
    PROVE  EventOK(g, r, kind)
<1>1. PICK outcomes : outcomes = ButtonPressed(g.buttons, b)
  OBVIOUS
<1>2. Typed(outcomes) /\ LongKnown(outcomes)
  BY <1>1, PageOKFields, PressType, PressLong
<1>3. r \in ToButtons(g, outcomes)
  BY <1>1 DEF PagePress
<1> QED BY <1>2, <1>3, ToButtonsOK

LEMMA ReleaseOK ==
    ASSUME NEW kind \in Kinds, NEW g, PageOK(g, kind), NEW b \in PhysicalButton,
           NEW r \in PageRelease(g, b)
    PROVE  EventOK(g, r, kind)
<1>1. PICK outcomes : outcomes = ButtonReleased(g.buttons, b)
  OBVIOUS
<1>2. Typed(outcomes) /\ LongKnown(outcomes)
  BY <1>1, PageOKFields, ReleaseType, ReleaseLong
<1>3. r \in ToButtons(g, outcomes)
  BY <1>1 DEF PageRelease
<1> QED BY <1>2, <1>3, ToButtonsOK

\* Changing the buttons or the holding mover leaves the animation alone.
LEMMA TimerLostOK ==
    ASSUME NEW kind \in Kinds, NEW g, PageOK(g, kind), NEW e \in ControllerType,
           NEW v \in MoverType
    PROVE  PageOK(With(g, e, v), kind) /\ With(g, e, v).choices = g.choices
<1>1. PICK h : h = With(g, e, v)
  OBVIOUS
<1>2. IsChoicePage(g)
  BY PageOKFields
<1>3. /\ IsChoicePage(h) /\ h.choices = g.choices /\ h.page = g.page
      /\ h.is_carousel = g.is_carousel /\ h.buttons = e /\ h.holding = v
      /\ h.animation = g.animation /\ h.steps = g.steps
  BY <1>1, <1>2 DEF IsChoicePage, With
<1>4. Lands(h, kind)
  BY <1>3, PageOKFields DEF Lands
<1>5. PageOK(h, kind)
  BY <1>3, <1>4, PageOKFields DEF PageOK
<1> QED BY <1>1, <1>3, <1>5

LEMMA ClickTimerOK ==
    ASSUME NEW kind \in Kinds, NEW g, PageOK(g, kind), NEW b, NEW r \in PageClickTimer(g, b)
    PROVE  EventOK(g, r, kind)
<1>1. CASE Ignoring(g)
  <2>1. PICK e, v : e = [g.buttons EXCEPT !.clickTimer = @ \ {b}] /\ v = g.holding
    OBVIOUS
  <2>2. e \in ControllerType /\ v \in MoverType
    BY <2>1, PageOKFields DEF ControllerType
  <2>3. PICK h : h = With(g, e, v)
    OBVIOUS
  <2>4. PageOK(h, kind) /\ h.choices = g.choices
    BY <2>2, <2>3, TimerLostOK
  <2>5. IsChoicePage(g)
    BY PageOKFields
  <2>6. h = [g EXCEPT !.buttons = e]
    BY <2>1, <2>3, <2>5 DEF With, IsChoicePage
  <2>7. [g EXCEPT !.buttons.clickTimer = @ \ {b}] = h
    BY <2>1, <2>6
  <2>8. r = PageOutcome(h, NoChoice)
    BY <1>1, <2>7 DEF PageClickTimer
  <2> QED BY <2>4, <2>8, OutcomeOK
<1>2. CASE ~Ignoring(g)
  <2>1. PICK outcomes : outcomes = ClickTimer(g.buttons, b)
    OBVIOUS
  <2>2. Typed(outcomes) /\ LongKnown(outcomes)
    BY <2>1, PageOKFields, TimerTypes, TimerLong
  <2>3. r \in ToButtons(g, outcomes)
    BY <1>2, <2>1 DEF PageClickTimer
  <2> QED BY <2>2, <2>3, ToButtonsOK
<1> QED BY <1>1, <1>2

LEMMA LongTimerOK ==
    ASSUME NEW kind \in Kinds, NEW g, PageOK(g, kind), NEW r \in PageLongTimer(g)
    PROVE  EventOK(g, r, kind)
<1>1. CASE Ignoring(g)
  <2>1. PICK e, v : e = [g.buttons EXCEPT !.longTimer = "None"] /\ v = g.holding
    OBVIOUS
  <2>2. e \in ControllerType /\ v \in MoverType
    BY <2>1, PageOKFields DEF ControllerType
  <2>3. PICK h : h = With(g, e, v)
    OBVIOUS
  <2>4. PageOK(h, kind) /\ h.choices = g.choices
    BY <2>2, <2>3, TimerLostOK
  <2>5. IsChoicePage(g)
    BY PageOKFields
  <2>6. h = [g EXCEPT !.buttons = e]
    BY <2>1, <2>3, <2>5 DEF With, IsChoicePage
  <2>7. [g EXCEPT !.buttons.longTimer = "None"] = h
    BY <2>1, <2>6
  <2>8. r = PageOutcome(h, NoChoice)
    BY <1>1, <2>7 DEF PageLongTimer
  <2> QED BY <2>4, <2>8, OutcomeOK
<1>2. CASE ~Ignoring(g)
  <2>1. PICK outcomes : outcomes = LongTimer(g.buttons)
    OBVIOUS
  <2>2. Typed(outcomes) /\ LongKnown(outcomes)
    BY <2>1, PageOKFields, TimerTypes, TimerLong
  <2>3. r \in ToButtons(g, outcomes)
    BY <1>2, <2>1 DEF PageLongTimer
  <2> QED BY <2>2, <2>3, ToButtonsOK
<1> QED BY <1>1, <1>2

LEMMA HoldingTimerOK ==
    ASSUME NEW kind \in Kinds, NEW g, PageOK(g, kind)
    PROVE  EventOK(g, PageHoldingTimer(g), kind)
<1>0. IsChoicePage(g) /\ g.holding \in MoverType /\ g.buttons \in ControllerType
  BY PageOKFields
<1>1. CASE Ignoring(g)
  <2>1. PICK f \in BOOLEAN : f = FALSE
    OBVIOUS
  <2>2. PICK v : v = [g.holding EXCEPT !.timer = f]
    OBVIOUS
  <2>3. v \in MoverType
    BY <1>0, <2>2 DEF MoverType
  <2>4. PICK h : h = With(g, g.buttons, v)
    OBVIOUS
  <2>5. PageOK(h, kind) /\ h.choices = g.choices
    BY <1>0, <2>3, <2>4, TimerLostOK
  <2>6. h = [g EXCEPT !.holding = v]
    BY <1>0, <2>4 DEF With, IsChoicePage
  <2>7. [g EXCEPT !.holding.timer = FALSE] = h
    BY <2>1, <2>2, <2>6, Zenon
  <2>8. PageHoldingTimer(g) = PageOutcome(h, NoChoice)
    BY <1>1, <2>7, Zenon DEF PageHoldingTimer
  <2> QED BY <2>5, <2>8, OutcomeOK
<1>2. CASE ~Ignoring(g)
  <2>1. PICK h : h = animation_event(g)
    OBVIOUS
  <2>2. /\ PageOK(h, kind) /\ h.choices = g.choices /\ h.holding = g.holding
        /\ h.buttons = g.buttons /\ ~is_moving(h.animation)
    BY <1>2, <2>1, AnimationEventOK
  <2>3. PICK v : v = mover_event(h.holding)
    OBVIOUS
  <2>4. v \in MoverType
    BY <1>0, <2>2, <2>3, MoverTypes DEF PhysicalButton
  <2>5. PICK n : n = With(h, h.buttons, v)
    OBVIOUS
  <2>6. PageOK(n, kind) /\ ~is_moving(n.animation) /\ n.choices = h.choices
    BY <1>0, <2>2, <2>4, <2>5, WithOK
  <2>7. IsChoicePage(h)
    BY <2>2, PageOKFields
  <2>8. n = [h EXCEPT !.holding = v]
    BY <2>5, <2>7 DEF With, IsChoicePage
  <2>9. [h EXCEPT !.holding = mover_event(@)] = n
    BY <2>3, <2>8
  <2>10. PICK m : m = Move(n, h.holding.dir)
    OBVIOUS
  <2>11. PageOK(m, kind) /\ m.choices = g.choices
    BY <2>2, <2>6, <2>10, MoveOK
  <2>12. PageHoldingTimer(g) = PageOutcome(m, NoChoice)
    BY <1>2, <2>1, <2>9, <2>10, Zenon DEF PageHoldingTimer
  <2> QED BY <2>11, <2>12, OutcomeOK
<1> QED BY <1>1, <1>2

\* One step of the animation.
LEMMA AnimationTimerOK ==
    ASSUME NEW kind \in Kinds, NEW g, PageOK(g, kind)
    PROVE  EventOK(g, PageAnimationTimer(g), kind)
<1>1. CASE g.steps = 0
  <2>1. PICK h : h = animation_event(g)
    OBVIOUS
  <2>2. PageOK(h, kind) /\ h.choices = g.choices
    BY <2>1, AnimationEventOK
  <2>3. PageAnimationTimer(g) = PageOutcome(h, NoChoice)
    BY <1>1, <2>1 DEF PageAnimationTimer
  <2> QED BY <2>2, <2>3, OutcomeOK
<1>2. CASE g.steps # 0
  <2>1. PICK n : n = count(g.choices)
    OBVIOUS
  <2>2. /\ IsChoicePage(g) /\ n \in Nat \ {0} /\ g.page \in 0 .. (n - 1) /\ g.steps \in Int
        /\ g.buttons \in ControllerType /\ g.animation \in MoverType /\ g.holding \in MoverType
        /\ g.choices \in Tables(kind) /\ g.is_carousel \in BOOLEAN
        /\ kind \in {"pin", "passphrase"} => g.is_carousel
        /\ Lands(g, kind)
    BY <2>1, PageOKFields
  <2>3. PICK v, k : /\ v = mover_event(g.animation)
                    /\ k = IF g.steps > 0 THEN g.steps - 1 ELSE g.steps + 1
    OBVIOUS
  <2>4. v \in MoverType /\ v.dir = g.animation.dir
    BY <2>2, <2>3, MoverTypes DEF PhysicalButton
  <2>5. PICK h : h = [g EXCEPT !.animation = v, !.steps = k]
    OBVIOUS
  <2>6. /\ IsChoicePage(h) /\ h.choices = g.choices /\ h.page = g.page
        /\ h.is_carousel = g.is_carousel /\ h.buttons = g.buttons /\ h.holding = g.holding
        /\ h.animation = v /\ h.steps = k
    BY <2>2, <2>5 DEF IsChoicePage
  <2>7. PICK m, b : m = Move(h, b) /\ b = g.animation.dir
    OBVIOUS
  <2>8. /\ Moved(m, h) /\ m.page \in 0 .. (n - 1)
        /\ h.is_carousel /\ b = "Left" => m.page = IF h.page > 0 THEN h.page - 1 ELSE n - 1
        /\ h.is_carousel /\ b # "Left" => m.page = IF h.page < n - 1 THEN h.page + 1 ELSE 0
    BY <2>1, <2>2, <2>6, <2>7, MoveIs
  <2>9. /\ IsChoicePage(m) /\ m.choices = g.choices /\ m.is_carousel = g.is_carousel
        /\ m.holding = g.holding /\ m.animation = v /\ m.steps = k
        /\ m.buttons \in ControllerType
    BY <2>6, <2>8 DEF Moved
  <2>10. Lands(m, kind)
    <3> SUFFICES ASSUME is_moving(m.animation) PROVE Lands(m, kind)
      BY DEF Lands
    <3>1. is_moving(g.animation)
      BY <2>4, <2>9 DEF is_moving
    <3>2. /\ g.is_carousel /\ kind \in {"pin", "passphrase"}
          /\ g.steps > 0 => b = "Right"
          /\ g.steps < 0 => b = "Left"
      BY <2>2, <2>7, <3>1 DEF Lands
    <3>3. PICK i \in Targets(g.choices) : Arrives(g.page, g.steps, n, i)
      BY <2>1, <2>2, <3>1 DEF Lands
    <3>4. i \in 0 .. (n - 1)
      BY <2>1, <2>2, <3>2, TargetsInside
    <3>5. CASE g.steps > 0
      <4>1. b = "Right" /\ k = g.steps - 1 /\ b # "Left"
        BY <2>3, <3>2, <3>5
      <4>2. m.page = IF g.page < n - 1 THEN g.page + 1 ELSE 0
        BY <2>6, <2>8, <3>2, <4>1
      <4>3. Arrives(m.page, g.steps - 1, n, i)
        BY <2>2, <3>3, <3>4, <3>5, <4>2, StepRight
      <4>4. m.steps >= 0 /\ m.animation.dir = "Right"
        BY <2>2, <2>4, <2>7, <2>9, <3>5, <4>1
      <4>5. Arrives(m.page, m.steps, n, i)
        BY <2>9, <4>1, <4>3
      <4> QED BY <2>1, <2>2, <2>9, <3>2, <4>1, <4>4, <4>5 DEF Lands
    <3>6. CASE g.steps < 0
      <4>1. b = "Left" /\ k = g.steps + 1
        BY <2>2, <2>3, <3>2, <3>6
      <4>2. m.page = IF g.page > 0 THEN g.page - 1 ELSE n - 1
        BY <2>6, <2>8, <3>2, <4>1
      <4>3. Arrives(m.page, g.steps + 1, n, i)
        BY <2>2, <3>3, <3>4, <3>6, <4>2, StepLeft
      <4>4. m.steps <= 0 /\ m.animation.dir = "Left"
        BY <2>2, <2>4, <2>7, <2>9, <3>6, <4>1
      <4>5. Arrives(m.page, m.steps, n, i)
        BY <2>9, <4>1, <4>3
      <4> QED BY <2>1, <2>2, <2>9, <3>2, <4>1, <4>4, <4>5 DEF Lands
    <3> QED BY <1>2, <2>2, <3>5, <3>6
  <2>11. k \in Int
    BY <2>2, <2>3
  <2>12. PageOK(m, kind)
    BY <2>1, <2>2, <2>4, <2>8, <2>9, <2>10, <2>11 DEF PageOK
  <2>13. PageAnimationTimer(g) = PageOutcome(m, NoChoice)
    <3>1. h = [g EXCEPT !.animation = mover_event(@),
                        !.steps = IF @ > 0 THEN @ - 1 ELSE @ + 1]
      BY <2>2, <2>3, <2>5 DEF IsChoicePage
    <3> QED BY <1>2, <2>7, <3>1, Zenon DEF PageAnimationTimer
  <2> QED BY <2>9, <2>12, <2>13, OutcomeOK
<1> QED BY <1>1, <1>2

----------------------------------------------------------------------------
(* The entries keep the contents of their page and of their text. *)

LEMMA SetCounterOK ==
    ASSUME NEW kind \in {"pin", "passphrase"}, NEW g, PageOK(g, kind),
           NEW i \in Targets(g.choices)
    PROVE  PageOK(set_page_counter(g, i), kind)
<1>1. PICK n : n = count(g.choices)
  OBVIOUS
<1>2. kind \in Kinds
  BY DEF Kinds
<1>3. /\ IsChoicePage(g) /\ n \in Nat \ {0} /\ g.page \in 0 .. (n - 1)
      /\ g.buttons \in ControllerType /\ g.animation \in MoverType /\ g.holding \in MoverType
      /\ g.choices \in Tables(kind) /\ g.is_carousel \in BOOLEAN /\ g.is_carousel
  BY <1>1, <1>2, PageOKFields
<1>4. i \in 0 .. (n - 1)
  BY <1>1, <1>3, TargetsInside
<1>5. PICK k : k = animated_steps(g, i)
  OBVIOUS
<1>6. k \in Int /\ Arrives(g.page, k, n, i)
  BY <1>1, <1>3, <1>4, <1>5, StepsTo
<1>7. PICK b : b = IF k > 0 THEN "Right" ELSE "Left"
  OBVIOUS
<1>8. PICK v : v = start_moving(b)
  OBVIOUS
<1>9. v \in MoverType /\ v.dir = b
  <2>1. b \in PhysicalButton
    BY <1>7 DEF PhysicalButton
  <2> QED BY <1>3, <1>8, <2>1, MoverTypes
<1>10. PICK h : h = [g EXCEPT !.steps = k, !.animation = v]
  OBVIOUS
<1>11. set_page_counter(g, i) = h
  BY <1>5, <1>7, <1>8, <1>10 DEF set_page_counter
<1>12. /\ IsChoicePage(h) /\ h.choices = g.choices /\ h.page = g.page
       /\ h.is_carousel = g.is_carousel /\ h.buttons = g.buttons /\ h.holding = g.holding
       /\ h.animation = v /\ h.steps = k
  BY <1>3, <1>10 DEF IsChoicePage
<1>13. /\ k > 0 => v.dir = "Right"
       /\ k < 0 => v.dir = "Left"
  BY <1>6, <1>7, <1>9
<1>14. Lands(h, kind)
  BY <1>1, <1>3, <1>6, <1>12, <1>13 DEF Lands
<1>15. PageOK(h, kind)
  BY <1>1, <1>3, <1>6, <1>9, <1>12, <1>14 DEF PageOK
<1> QED BY <1>11, <1>15

LEMMA ResetOK ==
    ASSUME NEW kind \in Kinds, NEW g, PageOK(g, kind), ~is_moving(g.animation),
           NEW ch \in Tables(kind), NEW i \in 0 .. (count(ch) - 1), NEW carousel \in BOOLEAN,
           kind \in {"pin", "passphrase"} => carousel
    PROVE  PageOK(reset(g, ch, i, carousel), kind) /\ reset(g, ch, i, carousel).choices = ch
<1>1. /\ IsChoicePage(g) /\ g.buttons \in ControllerType /\ g.animation \in MoverType
      /\ g.holding \in MoverType /\ g.steps \in Int
  BY PageOKFields
<1>2. PICK h : h = [g EXCEPT !.choices = ch, !.page = i, !.is_carousel = carousel]
  OBVIOUS
<1>3. /\ IsChoicePage(h) /\ h.choices = ch /\ h.page = i /\ h.is_carousel = carousel
      /\ h.buttons = g.buttons /\ h.holding = g.holding /\ h.animation = g.animation
      /\ h.steps = g.steps
  BY <1>1, <1>2 DEF IsChoicePage
<1>4. PICK u : u = update(h)
  OBVIOUS
<1>5. Moved(u, h) /\ u.page = i
  BY <1>1, <1>3, <1>4, UpdateIs
<1>6. /\ IsChoicePage(u) /\ u.choices = ch /\ u.is_carousel = carousel
      /\ u.holding = g.holding /\ u.animation = g.animation /\ u.steps = g.steps
      /\ u.buttons \in ControllerType
  BY <1>3, <1>5 DEF Moved
<1>7. Lands(u, kind)
  BY <1>6 DEF Lands
<1>8. PageOK(u, kind)
  BY <1>1, <1>5, <1>6, <1>7 DEF PageOK
<1> QED BY <1>2, <1>4, <1>6, <1>8 DEF reset

LEMMA NewPageOK ==
    ASSUME NEW kind \in Kinds, NEW ch \in Tables(kind), NEW i \in 0 .. (count(ch) - 1),
           NEW carousel \in BOOLEAN, kind \in {"pin", "passphrase"} => carousel
    PROVE  PageOK(new_page(ch, i, carousel), kind) /\ new_page(ch, i, carousel).choices = ch
<1>1. PICK t \in BOOLEAN : t = TRUE
  OBVIOUS
<1>2. PICK l, v, z : l = btn_layout(ch, i) /\ v = new_mover /\ z = 0
  OBVIOUS
<1>3. PICK c : c = new_controller(l, t)
  OBVIOUS
<1>4. c \in ControllerType
  BY <1>2, <1>3, LayoutType, NewControllerType
<1>5. PICK g : g = [choices |-> ch, page |-> i, is_carousel |-> carousel, buttons |-> c,
                    holding |-> v, animation |-> v, steps |-> z]
  OBVIOUS
<1>6. new_page(ch, i, carousel) = g
  BY <1>1, <1>2, <1>3, <1>5, Zenon DEF new_page
<1>7. /\ IsChoicePage(g) /\ g.choices = ch /\ g.page = i /\ g.is_carousel = carousel
      /\ g.buttons = c /\ g.holding = v /\ g.animation = v /\ g.steps = 0
  BY <1>2, <1>5 DEF IsChoicePage
<1>8. v \in MoverType /\ ~is_moving(v)
  BY <1>2 DEF new_mover, MoverType, is_moving
<1>9. Lands(g, kind)
  BY <1>7, <1>8 DEF Lands
<1>10. PageOK(g, kind)
  BY <1>4, <1>7, <1>8, <1>9 DEF PageOK
<1> QED BY <1>6, <1>7, <1>10

\* What an entry makes of a choice.
Answer(r, kind) ==
    PageOK(r.page, kind) /\ TextOK(r.text, r.page, kind, r.result) /\ r.result \in Results

LEMMA AnswerIs ==
    ASSUME NEW kind, NEW g, PageOK(g, kind), NEW t, NEW res \in Results,
           TextOK(t, g, kind, res), NEW r, r = [page |-> g, text |-> t, result |-> res]
    PROVE  Answer(r, kind)
  BY DEF Answer

LEMMA ShortText ==
    ASSUME NEW kind \in {"pin", "passphrase"}, NEW t \in Seq(Nat), Len(t) <= MAX_LENGTH,
           NEW g, NEW res, NEW long
    PROVE  /\ TextOK(t, g, kind, res) /\ TextOK(Delete(t, long), g, kind, res)
           /\ ~is_full(t) => TextOK(Append(t, 0), g, kind, res)
<1>1. TextOK(t, g, kind, res)
  BY DEF TextOK
<1>2. PICK u : u = Delete(t, long)
  OBVIOUS
<1>3. u \in Seq(Nat) /\ Len(u) <= Len(t)
  BY <1>2, DeleteIs
<1>4. Len(u) <= MAX_LENGTH
  BY <1>3, ScreensAssumption
<1>5. TextOK(u, g, kind, res)
  BY <1>3, <1>4 DEF TextOK
<1>6. ASSUME ~is_full(t) PROVE TextOK(Append(t, 0), g, kind, res)
  <2>1. Append(t, 0) \in Seq(Nat) /\ Len(Append(t, 0)) = Len(t) + 1
    OBVIOUS
  <2>2. Len(t) < MAX_LENGTH
    BY <1>6, ScreensAssumption DEF is_full
  <2> QED BY <2>1, <2>2, ScreensAssumption DEF TextOK
<1> QED BY <1>1, <1>2, <1>5, <1>6

LEMMA PinAnswer ==
    ASSUME NEW g, PageOK(g, "pin"), NEW t \in Seq(Nat), Len(t) <= MAX_LENGTH, NEW c,
           NEW r \in PinChosen(g, t, c)
    PROVE  Answer(r, "pin")
<1>0. PICK kind, none, done : /\ kind = "pin" /\ kind \in {"pin", "passphrase"}
                              /\ none = "None" /\ done = "Confirmed"
                              /\ none \in Results /\ done \in Results
  BY DEF Results
<1>1. \/ r = [page |-> g, text |-> Delete(t, c.long), result |-> none]
      \/ r = [page |-> g, text |-> t, result |-> done]
      \/ r = [page |-> g, text |-> t, result |-> none]
      \/ ~is_full(t) /\ \E i \in get_random_digit_position :
            r = [page |-> set_page_counter(g, i), text |-> Append(t, 0), result |-> none]
  BY <1>0 DEF PinChosen, Stay, Return
<1>2. CASE r = [page |-> g, text |-> Delete(t, c.long), result |-> none]
  <2>1. TextOK(Delete(t, c.long), g, kind, none)
    BY <1>0, ShortText
  <2> QED BY <1>0, <1>2, <2>1, AnswerIs
<1>3. CASE r = [page |-> g, text |-> t, result |-> done]
  BY <1>0, <1>3, ShortText, AnswerIs
<1>4. CASE r = [page |-> g, text |-> t, result |-> none]
  BY <1>0, <1>4, ShortText, AnswerIs
<1>5. ASSUME ~is_full(t), NEW i \in get_random_digit_position,
             r = [page |-> set_page_counter(g, i), text |-> Append(t, 0), result |-> none]
      PROVE  Answer(r, "pin")
  <2>1. g.choices.of = "pin"
    BY PageOKFields DEF Kinds
  <2>2. i \in Targets(g.choices)
    BY <2>1 DEF Targets
  <2>3. PICK h, u : h = set_page_counter(g, i) /\ u = Append(t, 0)
    OBVIOUS
  <2>4. PageOK(h, kind)
    BY <1>0, <2>2, <2>3, SetCounterOK
  <2>5. TextOK(u, h, kind, none)
    BY <1>0, <1>5, <2>3, ShortText
  <2> QED BY <1>0, <1>5, <2>3, <2>4, <2>5, AnswerIs
<1> QED BY <1>1, <1>2, <1>3, <1>4, <1>5

LEMMA ShowCategoryOK ==
    ASSUME NEW g, PageOK(g, "passphrase"), ~is_moving(g.animation),
           NEW t \in Seq(Nat), Len(t) <= MAX_LENGTH,
           NEW category \in Categories \cup {"Menu"}, NEW positions,
           positions \subseteq 0 .. ((IF category = "Menu" THEN 8 ELSE CHARS) - 1),
           NEW r \in ShowCategory(g, t, category, positions)
    PROVE  Answer(r, "passphrase")
<1>0. PICK kind, none, yes : /\ kind = "passphrase" /\ kind \in {"pin", "passphrase"}
                             /\ kind \in Kinds /\ none = "None" /\ none \in Results
                             /\ yes \in BOOLEAN /\ yes = TRUE
  BY DEF Results, Kinds
<1>1. PICK e \in BOOLEAN : e = (t = << >>)
  OBVIOUS
<1>2. PICK i \in positions : r = [page |-> reset(g, Passphrase(category, e), i, yes),
                                  text |-> t, result |-> none]
  <2>1. \E i \in positions : r \in Stay(reset(g, Passphrase(category, t = << >>), i, TRUE), t)
    BY Zenon DEF ShowCategory
  <2>2. \E i \in positions : r \in Stay(reset(g, Passphrase(category, e), i, yes), t)
    BY <1>0, <1>1, <2>1, Zenon
  <2> QED BY <1>0, <2>2, Zenon DEF Stay
<1>3. PICK ch : ch = Passphrase(category, e)
  OBVIOUS
<1>4. /\ ch \in Tables(kind)
      /\ category = "Menu" => count(ch) = 8
      /\ category # "Menu" => count(ch) = CHARS + 1
  BY <1>0, <1>1, <1>3, PassphraseTable
<1>5. i \in 0 .. (count(ch) - 1)
  BY <1>4, FactoryAssumption
<1>6. PICK q : q = reset(g, ch, i, yes)
  OBVIOUS
<1>7. PageOK(q, kind)
  <2>1. PageOK(g, kind) /\ (kind \in {"pin", "passphrase"} => yes)
    BY <1>0, Zenon
  <2> QED BY <1>0, <1>4, <1>5, <1>6, <2>1, ResetOK
<1>8. TextOK(t, q, kind, none)
  BY <1>0, ShortText
<1>9. r = [page |-> q, text |-> t, result |-> none]
  BY <1>2, <1>3, <1>6, Zenon
<1> QED BY <1>0, <1>7, <1>8, <1>9, AnswerIs

LEMMA MenuCategories ==
    ASSUME NEW ch \in Tables("passphrase"), NEW i \in 0 .. (count(ch) - 1),
           action(ch, i) = "Category"
    PROVE  Menu[i + 1] \in Categories
<1>1. /\ ch.of = "passphrase"
      /\ ch.category = "Menu" => count(ch) = 8
  BY PassphraseIs
<1>2. action(ch, i) = IF ch.category # "Menu"
                      THEN IF i = CHARS THEN "Menu" ELSE "Character"
                      ELSE IF Menu[i + 1] = "Space" THEN "Character"
                      ELSE IF Menu[i + 1] \in Categories THEN "Category"
                      ELSE Menu[i + 1]
  BY <1>1 DEF action
<1>3. ch.category = "Menu"
  BY <1>2
<1>4. i \in 0 .. 7
  BY <1>1, <1>3
<1>5. Menu[i + 1] # "Category"
  BY <1>4 DEF Menu
<1> QED BY <1>2, <1>3, <1>5

LEMMA PassphraseAnswer ==
    ASSUME NEW g, PageOK(g, "passphrase"), ~is_moving(g.animation),
           NEW t \in Seq(Nat), Len(t) <= MAX_LENGTH,
           NEW c, c.action = action(g.choices, g.page), NEW r \in PassphraseChosen(g, t, c)
    PROVE  Answer(r, "passphrase")
<1>0. PICK kind, none, done, no : /\ kind = "passphrase" /\ kind \in {"pin", "passphrase"}
                                  /\ none = "None" /\ done = "Confirmed" /\ no = "Cancelled"
                                  /\ none \in Results /\ done \in Results /\ no \in Results
  BY DEF Results
<1>1. /\ g.choices.of = "passphrase" /\ g.choices \in Tables("passphrase")
      /\ g.page \in 0 .. (count(g.choices) - 1)
  BY PageOKFields DEF Kinds
<1>2. PICK u : u = Delete(t, c.long)
  OBVIOUS
<1>3. u \in Seq(Nat) /\ Len(u) <= MAX_LENGTH
  <2>1. u \in Seq(Nat) /\ Len(u) <= Len(t)
    BY <1>2, DeleteIs
  <2> QED BY <2>1, ScreensAssumption
<1>4. PICK menu : menu = "Menu" /\ menu \in Categories \cup {"Menu"}
  OBVIOUS
<1>5. \/ r \in Return(g, t, no)
      \/ r \in ShowCategory(g, u, menu, random_menu_position)
      \/ r \in Stay(g, u)
      \/ r \in Return(g, t, done)
      \/ c.action = "Category" /\ r \in ShowCategory(g, t, Menu[g.page + 1],
                                          random_category_position(Menu[g.page + 1]))
      \/ r \in ShowCategory(g, t, menu, random_menu_position)
      \/ ~is_full(t) /\ \E i \in random_category_position(g.choices.category) :
            r \in Stay(set_page_counter(g, i), Append(t, 0))
      \/ r \in Stay(g, t)
  BY <1>0, <1>2, <1>4 DEF PassphraseChosen
<1>6. CASE r \in Return(g, t, no)
  <2>1. r = [page |-> g, text |-> t, result |-> no]
    BY <1>6 DEF Return
  <2> QED BY <1>0, <2>1, ShortText, AnswerIs
<1>7. CASE r \in Return(g, t, done)
  <2>1. r = [page |-> g, text |-> t, result |-> done]
    BY <1>7 DEF Return
  <2> QED BY <1>0, <2>1, ShortText, AnswerIs
<1>8. ASSUME NEW w \in Seq(Nat), Len(w) <= MAX_LENGTH, r \in Stay(g, w)
      PROVE  Answer(r, "passphrase")
  <2>1. r = [page |-> g, text |-> w, result |-> none]
    BY <1>0, <1>8 DEF Stay
  <2> QED BY <1>0, <1>8, <2>1, ShortText, AnswerIs
<1>9. ASSUME NEW w \in Seq(Nat), Len(w) <= MAX_LENGTH,
             r \in ShowCategory(g, w, menu, random_menu_position)
      PROVE  Answer(r, "passphrase")
  <2>1. PICK ps : ps = random_menu_position
    OBVIOUS
  <2>2. ps \subseteq 0 .. ((IF menu = "Menu" THEN 8 ELSE CHARS) - 1)
    BY <1>4, <2>1 DEF random_menu_position
  <2> QED BY <1>4, <1>9, <2>1, <2>2, ShowCategoryOK
<1>10. CASE c.action = "Category" /\ r \in ShowCategory(g, t, Menu[g.page + 1],
                                          random_category_position(Menu[g.page + 1]))
  <2>1. PICK category, ps : /\ category = Menu[g.page + 1]
                            /\ ps = random_category_position(category)
    OBVIOUS
  <2>2. category \in Categories
    BY <1>1, <1>10, <2>1, MenuCategories
  <2>3. category # "Menu"
    BY <2>2 DEF Categories
  <2>4. ps \subseteq 0 .. ((IF category = "Menu" THEN 8 ELSE CHARS) - 1)
    BY <2>1, <2>3 DEF random_category_position
  <2>5. r \in ShowCategory(g, t, category, ps)
    BY <1>10, <2>1
  <2> QED BY <2>2, <2>4, <2>5, ShowCategoryOK
<1>11. ASSUME ~is_full(t), NEW i \in random_category_position(g.choices.category),
              r \in Stay(set_page_counter(g, i), Append(t, 0))
       PROVE  Answer(r, "passphrase")
  <2>1. i \in Targets(g.choices)
    BY <1>1 DEF Targets
  <2>2. PICK h, w : h = set_page_counter(g, i) /\ w = Append(t, 0)
    OBVIOUS
  <2>3. PageOK(h, kind)
    BY <1>0, <2>1, <2>2, SetCounterOK
  <2>4. TextOK(w, h, kind, none)
    BY <1>0, <1>11, <2>2, ShortText
  <2>5. r = [page |-> h, text |-> w, result |-> none]
    BY <1>0, <1>11, <2>2 DEF Stay
  <2> QED BY <1>0, <2>3, <2>4, <2>5, AnswerIs
<1> QED BY <1>3, <1>5, <1>6, <1>7, <1>8, <1>9, <1>10, <1>11

LEMMA WordlistUpdateOK ==
    ASSUME NEW g, PageOK(g, "wordlist"), ~is_moving(g.animation), NEW t \in Prefixes,
           NEW r \in WordlistUpdate(g, t)
    PROVE  Answer(r, "wordlist")
<1>0. PICK kind, none : /\ kind = "wordlist" /\ kind \in Kinds /\ kind \notin {"pin", "passphrase"}
                        /\ none = "None" /\ none \in Results
  BY DEF Results, Kinds
<1>1. PICK carousel \in BOOLEAN : carousel = ~offer_words(t)
  OBVIOUS
<1>2. PICK ch \in WordlistChoices(t) : \E i \in get_new_page_counter(ch) :
         r \in Stay(reset(g, ch, i, ~offer_words(t)), t)
  <2>1. WordlistUpdate(g, t) =
           UNION {UNION {Stay(reset(g, ch, i, ~offer_words(t)), t) : i \in get_new_page_counter(ch)} :
                    ch \in WordlistChoices(t)}
    BY DEF WordlistUpdate
  <2>2. PICK ch \in WordlistChoices(t) :
           r \in UNION {Stay(reset(g, ch, i, ~offer_words(t)), t) : i \in get_new_page_counter(ch)}
    BY <2>1, Zenon
  <2> QED BY <2>2, Zenon
<1>3. PICK i \in get_new_page_counter(ch) : r \in Stay(reset(g, ch, i, ~offer_words(t)), t)
  BY <1>2
<1>4. ch \in Tables(kind) /\ ch.prefix = t /\ t \in Seq(Nat)
  BY <1>0, WordTable, PrefixIs
<1>5. i \in 0 .. (count(ch) - 1)
  BY CounterInside
<1>6. PICK q : q = reset(g, ch, i, carousel)
  OBVIOUS
<1>7. PageOK(q, kind) /\ q.choices = ch
  <2>1. PageOK(g, kind) /\ (kind \in {"pin", "passphrase"} => carousel)
    BY <1>0
  <2> QED BY <1>0, <1>4, <1>5, <1>6, <2>1, ResetOK
<1>8. r = [page |-> q, text |-> t, result |-> none]
  <2>1. r \in Stay(q, t)
    BY <1>1, <1>3, <1>6, Zenon
  <2> QED BY <1>0, <2>1 DEF Stay
<1>9. TextOK(t, q, kind, none)
  BY <1>0, <1>4, <1>7 DEF TextOK
<1> QED BY <1>0, <1>7, <1>8, <1>9, AnswerIs

LEMMA WordlistAnswer ==
    ASSUME NEW g, PageOK(g, "wordlist"), ~is_moving(g.animation), NEW t, t = g.choices.prefix,
           NEW c, c.action = action(g.choices, g.page), NEW r \in WordlistChosen(g, t, c)
    PROVE  Answer(r, "wordlist")
<1>0. PICK kind, none, prev, word :
         /\ kind = "wordlist" /\ kind \in Kinds /\ kind \notin {"pin", "passphrase"}
         /\ none = "None" /\ prev = "Previous" /\ word = "Word"
         /\ none \in Results /\ prev \in Results /\ word \in Results
         /\ prev # "None" /\ word # "None"
  BY DEF Results, Kinds
<1>1. PICK ch, i : ch = g.choices /\ i = g.page
  OBVIOUS
<1>2. ch \in Tables("wordlist") /\ i \in 0 .. (count(ch) - 1)
  BY <1>1, PageOKFields DEF Kinds
<1>3. t \in Prefixes /\ ch \in WordlistChoices(t) /\ t \in Seq(Nat)
  BY <1>1, <1>2, WordTableIs, PrefixIs
<1>4. /\ ch.of = "wordlist" /\ ch.prefix = t /\ ch.order \in WordOrders(t)
      /\ count(ch) \in Nat \ {0}
      /\ offer_words(t) => count(ch) = 1 + Cardinality(filter_prefix(t))
      /\ ~offer_words(t) => count(ch) = 1 + Cardinality(get_available_letters(t))
  BY <1>3, WordTable
<1>5. c.action = IF i = 0 THEN IF t = << >> THEN "Previous" ELSE "Delete"
                 ELSE IF offer_words(t) THEN "Word" ELSE "Letter"
  BY <1>1, <1>4 DEF action
<1>6. CASE c.action = "Previous"
  <2>1. r \in Stay(g, t) \/ r \in Return(g, t, prev)
    BY <1>0, <1>6 DEF WordlistChosen
  <2>2. r = [page |-> g, text |-> t, result |-> none] \/ r = [page |-> g, text |-> t, result |-> prev]
    BY <1>0, <2>1 DEF Stay, Return
  <2>3. TextOK(t, g, kind, none) /\ TextOK(t, g, kind, prev)
    BY <1>0, <1>3 DEF TextOK
  <2> QED BY <1>0, <2>2, <2>3, AnswerIs
<1>7. CASE c.action = "Delete"
  <2>1. PICK u : u = Delete(t, c.long)
    OBVIOUS
  <2>2. r \in WordlistUpdate(g, u)
    BY <1>7, <2>1 DEF WordlistChosen
  <2>3. u \in Prefixes
    BY <1>3, <2>1, DeletePrefix
  <2> QED BY <2>2, <2>3, WordlistUpdateOK
<1>8. CASE c.action = "Letter"
  <2>1. i # 0 /\ ~offer_words(t)
    BY <1>5, <1>8
  <2>2. PICK l, j : l = NthLetter(t, j) /\ j = i - 1
    OBVIOUS
  <2>3. Cardinality(get_available_letters(t)) \in Nat
    BY <1>3, FinitelyMany
  <2>4. j \in 0 .. (Cardinality(get_available_letters(t)) - 1)
    BY <1>2, <1>4, <2>1, <2>2, <2>3
  <2>5. l \in get_available_letters(t)
    BY <1>3, <2>2, <2>4, NthLetterIs
  <2>6. PICK u : u = Append(t, l)
    OBVIOUS
  <2>7. u \in Prefixes
    BY <1>3, <2>5, <2>6, AppendPrefix
  <2>8. r \in WordlistUpdate(g, u)
    BY <1>1, <1>8, <2>2, <2>6 DEF WordlistChosen
  <2> QED BY <2>7, <2>8, WordlistUpdateOK
<1>9. CASE c.action = "Word"
  <2>1. i # 0 /\ offer_words(t)
    BY <1>5, <1>9
  <2>2. PICK w : w = ch.order[i]
    OBVIOUS
  <2>3. r = [page |-> g, text |-> w, result |-> word]
    BY <1>0, <1>1, <1>9, <2>2 DEF WordlistChosen, Return
  <2>4. PICK words : words = filter_prefix(t)
    OBVIOUS
  <2>5. Cardinality(words) \in Nat
    BY <1>3, <2>4, FinitelyMany
  <2>6. ch.order \in [1 .. Cardinality(words) -> words]
    BY <1>4, <2>1, <2>4 DEF WordOrders
  <2>7. i \in 1 .. Cardinality(words)
    BY <1>2, <1>4, <2>1, <2>4, <2>5
  <2>8. w \in words
    BY <2>2, <2>6, <2>7
  <2>9. w \in Seq(Nat)
    BY <2>4, <2>8, FactoryAssumption DEF filter_prefix
  <2>10. TextOK(w, g, kind, word)
    BY <1>0, <2>9 DEF TextOK
  <2> QED BY <1>0, <2>3, <2>10, AnswerIs
<1> QED BY <1>5, <1>6, <1>7, <1>8, <1>9

----------------------------------------------------------------------------
(* The pages of text. *)

LEMMA PageLayoutType ==
    ASSUME NEW p, p.cancel \in ButtonType, p.confirm \in ButtonType
    PROVE  page_layout(p) \in [ButtonPos -> ButtonType]
<1>1. PICK a, b, c : /\ a = IF p.active_page = 0 THEN p.cancel ELSE "Button"
                     /\ b = "Nothing"
                     /\ c = IF p.active_page < p.page_count - 1 THEN "Button" ELSE p.confirm
  OBVIOUS
<1>2. a \in ButtonType /\ b \in ButtonType /\ c \in ButtonType
  BY <1>1 DEF ButtonType
<1>3. [Left |-> a, Middle |-> b, Right |-> c] \in [ButtonPos -> ButtonType]
  BY <1>2, LayoutTypes
<1> QED BY <1>1, <1>3, Zenon DEF page_layout

LEMMA ChangePageOK ==
    ASSUME NEW p, PagesOK(p), NEW i \in 0 .. (p.page_count - 1)
    PROVE  PagesOK(change_page(p, i))
<1>1. PICK q : q = [p EXCEPT !.active_page = i]
  OBVIOUS
<1>2. /\ IsButtonPage(q) /\ q.page_count = p.page_count /\ q.active_page = i
      /\ q.cancel = p.cancel /\ q.confirm = p.confirm /\ q.buttons = p.buttons
  BY <1>1 DEF PagesOK, IsButtonPage
<1>3. PICK l : l = page_layout(q)
  OBVIOUS
<1>4. l \in [ButtonPos -> ButtonType]
  BY <1>2, <1>3, PageLayoutType DEF PagesOK
<1>5. PICK e : e = set(q.buttons, l)
  OBVIOUS
<1>6. e \in ControllerType
  BY <1>2, <1>4, <1>5, SetType DEF PagesOK
<1>7. PICK u : u = [q EXCEPT !.buttons = e]
  OBVIOUS
<1>8. /\ IsButtonPage(u) /\ u.page_count = p.page_count /\ u.active_page = i
      /\ u.cancel = p.cancel /\ u.confirm = p.confirm /\ u.buttons = e
  BY <1>2, <1>7 DEF IsButtonPage
<1>9. PagesOK(u)
  BY <1>6, <1>8 DEF PagesOK
<1>10. change_page(p, i) = u
  BY <1>1, <1>3, <1>5, <1>7 DEF change_page
<1> QED BY <1>9, <1>10

LEMMA PageReactOK ==
    ASSUME NEW p, PagesOK(p), NEW o, o.buttons \in ControllerType
    PROVE  PagesOK(PageReact(p, o).page) /\ PageReact(p, o).result \in Results
<1>1. PICK q : q = [p EXCEPT !.buttons = o.buttons]
  OBVIOUS
<1>2. /\ IsButtonPage(q) /\ q.page_count = p.page_count /\ q.active_page = p.active_page
      /\ q.cancel = p.cancel /\ q.confirm = p.confirm /\ q.buttons = o.buttons
  BY <1>1 DEF PagesOK, IsButtonPage
<1>3. PagesOK(q)
  BY <1>2 DEF PagesOK
<1>4. PICK n, a : n = q.page_count /\ a = q.active_page
  OBVIOUS
<1>5. n \in Nat /\ a \in 0 .. (n - 1)
  BY <1>3, <1>4 DEF PagesOK
<1>6. PICK x, y : x = change_page(q, a - 1) /\ y = change_page(q, a + 1)
  OBVIOUS
<1>7. a > 0 => PagesOK(x)
  BY <1>3, <1>4, <1>5, <1>6, ChangePageOK
<1>8. a < n - 1 => PagesOK(y)
  BY <1>3, <1>4, <1>5, <1>6, ChangePageOK
<1>9. \/ a > 0 /\ PageReact(p, o) = [page |-> x, result |-> "None"]
      \/ a < n - 1 /\ PageReact(p, o) = [page |-> y, result |-> "None"]
      \/ \E res \in Results : PageReact(p, o) = [page |-> q, result |-> res]
  <2> DEFINE left == o.msg.of = "Triggered" /\ o.msg.pos = "Left"
             right == o.msg.of = "Triggered" /\ o.msg.pos = "Right"
  <2>1. ~(left /\ right)
    OBVIOUS
  <2>2. ~(a > 0 /\ a = 0) /\ ~(a < n - 1 /\ a = n - 1)
    BY <1>5
  <2>3. CASE left /\ a > 0
    BY <1>1, <1>4, <1>6, <2>1, <2>2, <2>3, Zenon DEF PageReact
  <2>4. CASE left /\ a = 0
    <3>1. PageReact(p, o) = [page |-> q, result |-> "Cancelled"]
      BY <1>1, <1>4, <2>1, <2>2, <2>4, Zenon DEF PageReact
    <3> QED BY <3>1 DEF Results
  <2>5. CASE right /\ a < n - 1
    BY <1>1, <1>4, <1>6, <2>1, <2>2, <2>5, Zenon DEF PageReact
  <2>6. CASE right /\ a = n - 1
    <3>1. PageReact(p, o) = [page |-> q, result |-> "Confirmed"]
      BY <1>1, <1>4, <2>1, <2>2, <2>6, Zenon DEF PageReact
    <3> QED BY <3>1 DEF Results
  <2>7. CASE ~left /\ ~right
    <3>1. PageReact(p, o) = [page |-> q, result |-> "None"]
      BY <1>1, <1>4, <2>7, Zenon DEF PageReact
    <3> QED BY <3>1 DEF Results
  <2>8. (a > 0 \/ a = 0) /\ (a < n - 1 \/ a = n - 1)
    BY <1>5
  <2> QED BY <2>3, <2>4, <2>5, <2>6, <2>7, <2>8
<1>10. "None" \in Results
  BY DEF Results
<1> QED BY <1>3, <1>7, <1>8, <1>9, <1>10

LEMMA NewPagesOK ==
    ASSUME NEW p \in ButtonPages
    PROVE  PagesOK(p)
<1>1. PICK n \in 1 .. MAX_PAGES, cancel \in {"Nothing", "Button"},
           confirm \in {"Nothing", "Button", "HoldToConfirm"} :
              p = new_button_page(n, cancel, confirm)
  BY DEF ButtonPages
<1>2. PICK f \in BOOLEAN : f = FALSE
  OBVIOUS
<1>3. PICK z, x, y : z = 0 /\ x = "Nothing" /\ y = IF n > 1 THEN "Button" ELSE confirm
  OBVIOUS
<1>4. PICK l : l = [Left |-> cancel, Middle |-> x, Right |-> y]
  OBVIOUS
<1>5. PICK c : c = new_controller(l, f)
  OBVIOUS
<1>6. p = [page_count |-> n, active_page |-> z, cancel |-> cancel, confirm |-> confirm,
           buttons |-> c]
  BY <1>1, <1>2, <1>3, <1>4, <1>5, Zenon DEF new_button_page
<1>7. cancel \in ButtonType /\ confirm \in ButtonType /\ x \in ButtonType /\ y \in ButtonType
  BY <1>3 DEF ButtonType
<1>8. l \in [ButtonPos -> ButtonType]
  BY <1>4, <1>7, LayoutTypes
<1>9. c \in ControllerType
  BY <1>5, <1>8, NewControllerType
<1>10. n \in Nat \ {0}
  BY ScreensAssumption
<1>11. /\ IsButtonPage(p) /\ p.page_count = n /\ p.active_page = z /\ p.cancel = cancel
       /\ p.confirm = confirm /\ p.buttons = c
  BY <1>6 DEF IsButtonPage
<1> QED BY <1>3, <1>7, <1>9, <1>10, <1>11 DEF PagesOK

----------------------------------------------------------------------------
(* The steps. *)

LEMMA NewScreenOK ==
    ASSUME NEW s \in SCREENS, NEW p \in InitialPages(s)
    PROVE  /\ s \in EntryScreens => PageOK(p, KindOf(s)) /\ TextOK(<< >>, p, KindOf(s), "None")
           /\ s = "pages" => PagesOK(p)
<1>0. PICK yes, no : yes = TRUE /\ yes \in BOOLEAN /\ no = FALSE /\ no \in BOOLEAN
  OBVIOUS
<1>1. \A kind : kind # "wordlist" => TextOK(<< >>, p, kind, "None")
  BY ScreensAssumption DEF TextOK
<1>2. CASE s = "pin"
  <2>1. PICK i \in get_random_digit_position : p = new_page(PIN, i, yes)
    BY <1>0, <1>2, Zenon DEF InitialPages
  <2>2. PICK kind : kind = "pin" /\ kind \in Kinds /\ PIN \in Tables(kind)
    BY PinTable DEF Kinds
  <2>3. i \in 0 .. (count(PIN) - 1)
    BY PinTable, FactoryAssumption DEF get_random_digit_position
  <2>4. PageOK(p, kind)
    BY <1>0, <2>1, <2>2, <2>3, NewPageOK
  <2> QED BY <1>1, <1>2, <2>2, <2>4 DEF KindOf
<1>3. CASE s = "passphrase"
  <2>1. PICK menu : menu = "Menu" /\ menu \in Categories \cup {"Menu"}
    OBVIOUS
  <2>2. PICK ch : ch = Passphrase(menu, yes)
    OBVIOUS
  <2>3. PICK i \in random_menu_position : p = new_page(ch, i, yes)
    BY <1>0, <1>3, <2>1, <2>2, Zenon DEF InitialPages
  <2>4. PICK kind : kind = "passphrase" /\ kind \in Kinds
    BY DEF Kinds
  <2>5. ch \in Tables(kind) /\ count(ch) = 8
    BY <1>0, <2>1, <2>2, <2>4, PassphraseTable
  <2>6. i \in 0 .. (count(ch) - 1)
    BY <2>5 DEF random_menu_position
  <2>7. PageOK(p, kind)
    BY <1>0, <2>3, <2>4, <2>5, <2>6, NewPageOK
  <2> QED BY <1>1, <1>3, <2>4, <2>7 DEF KindOf
<1>4. CASE s \in {"wordlist", "first_word"}
  <2>1. PICK ch \in WordlistChoices(<< >>) : \E i \in 1 .. (count(ch) - 1) : p = new_page(ch, i, yes)
    BY <1>0, <1>4, Zenon DEF InitialPages
  <2>2. PICK i \in 1 .. (count(ch) - 1) : p = new_page(ch, i, yes)
    BY <2>1
  <2>3. PICK kind : kind = "wordlist" /\ kind \in Kinds
    BY DEF Kinds
  <2>4. ch \in Tables(kind) /\ ch.prefix = << >> /\ count(ch) \in Nat
    BY <2>3, EmptyPrefix, WordTable
  <2>5. i \in 0 .. (count(ch) - 1)
    BY <2>4
  <2>6. PageOK(p, kind) /\ p.choices = ch
    BY <1>0, <2>2, <2>3, <2>4, <2>5, NewPageOK
  <2>7. TextOK(<< >>, p, kind, "None")
    BY <2>3, <2>4, <2>6 DEF TextOK
  <2> QED BY <1>4, <2>3, <2>6, <2>7 DEF KindOf
<1>5. CASE s = "number"
  <2>1. PICK i \in 0 .. (NUMBERS - 1) : p = new_page(Number, i, no)
    BY <1>0, <1>5, Zenon DEF InitialPages
  <2>2. PICK kind : /\ kind = "number" /\ kind \in Kinds /\ Number \in Tables(kind)
                    /\ kind \notin {"pin", "passphrase"}
    BY NumberTable DEF Kinds
  <2>3. i \in 0 .. (count(Number) - 1)
    BY NumberTable
  <2>4. PageOK(p, kind)
    BY <1>0, <2>1, <2>2, <2>3, NewPageOK
  <2> QED BY <1>1, <1>5, <2>2, <2>4 DEF KindOf
<1>6. CASE s = "pages"
  <2>1. p \in ButtonPages /\ s \notin EntryScreens
    BY <1>6 DEF InitialPages, EntryScreens
  <2> QED BY <2>1, NewPagesOK
<1> QED BY <1>2, <1>3, <1>4, <1>5, <1>6, ScreensAssumption DEF EntryScreens

LEMMA ChosenAnswer ==
    ASSUME screen \in EntryScreens, NEW g, PageOK(g, KindOf(screen)), ~is_moving(g.animation),
           NEW t, TextOK(t, g, KindOf(screen), "None"), NEW long, NEW c, c = Chosen(g, long),
           NEW r \in EntryChosen(g, t, c)
    PROVE  Answer(r, KindOf(screen))
<1>1. c.action = action(g.choices, g.page)
  BY DEF Chosen
<1>2. t \in Seq(Nat)
  BY DEF TextOK
<1>3. CASE screen = "pin"
  <2>1. KindOf(screen) = "pin" /\ r \in PinChosen(g, t, c)
    BY <1>3 DEF KindOf, EntryChosen
  <2>2. Len(t) <= MAX_LENGTH
    BY <2>1 DEF TextOK
  <2> QED BY <1>2, <2>1, <2>2, PinAnswer
<1>4. CASE screen = "passphrase"
  <2>1. KindOf(screen) = "passphrase" /\ r \in PassphraseChosen(g, t, c)
    BY <1>4 DEF KindOf, EntryChosen
  <2>2. Len(t) <= MAX_LENGTH
    BY <2>1 DEF TextOK
  <2> QED BY <1>1, <1>2, <2>1, <2>2, PassphraseAnswer
<1>5. CASE screen \in {"wordlist", "first_word"}
  <2>1. KindOf(screen) = "wordlist" /\ r \in WordlistChosen(g, t, c)
    BY <1>5 DEF KindOf, EntryChosen
  <2>2. t = g.choices.prefix
    BY <2>1 DEF TextOK
  <2> QED BY <1>1, <2>1, <2>2, WordlistAnswer
<1>6. CASE screen = "number"
  <2>1. PICK kind, res : /\ kind = "number" /\ res = "Number" /\ res \in Results
                         /\ kind # "wordlist" /\ kind \notin {"pin", "passphrase"}
    BY DEF Results
  <2>2. KindOf(screen) = kind /\ r \in Return(g, t, res)
    BY <1>6, <2>1 DEF KindOf, EntryChosen
  <2>3. r = [page |-> g, text |-> t, result |-> res]
    BY <2>2 DEF Return
  <2>4. TextOK(t, g, kind, res)
    BY <1>2, <2>1 DEF TextOK
  <2> QED BY <2>1, <2>2, <2>3, <2>4, AnswerIs
<1> QED BY <1>3, <1>4, <1>5, <1>6 DEF EntryScreens

LEMMA KindIs ==
    ASSUME screen \in EntryScreens
    PROVE  KindOf(screen) \in Kinds
  BY DEF KindOf, Kinds, EntryScreens

LEMMA EntryEventOK ==
    ASSUME TypeInv, IsEntry, NEW outcomes, EntryEvent(outcomes), down' \subseteq PhysicalButton,
           \A o \in outcomes : EventOK(page, o, KindOf(screen))
    PROVE  TypeInv'
<1>1. /\ screen \in EntryScreens /\ screen # "pages" /\ result = "None" /\ armed \in BOOLEAN
      /\ screen \in SCREENS /\ PageOK(page, KindOf(screen))
      /\ TextOK(text, page, KindOf(screen), "None") /\ "None" \in Results
  BY DEF TypeInv, IsEntry, EntryScreens, Results
<1>2. PICK k : k = KindOf(screen)
  OBVIOUS
<1>3. screen' = screen
  BY DEF EntryEvent
<1>4. PICK o \in outcomes :
          \/ /\ o.choice = NoChoice
             /\ page' = o.page
             /\ armed' = (armed \/ (o.page.buttons.state = BothDown /\ page.buttons.state # BothDown))
             /\ UNCHANGED << text, result >>
          \/ /\ o.choice # NoChoice
             /\ \E r \in EntryChosen(o.page, text, o.choice) :
                   page' = r.page /\ text' = r.text /\ result' = r.result
             /\ armed' = FALSE
  BY Zenon DEF EntryEvent
<1>5. /\ PageOK(o.page, k) /\ o.page.choices = page.choices
      /\ \/ o.choice = NoChoice
         \/ /\ ~is_moving(o.page.animation)
            /\ \E long \in BOOLEAN : o.choice = Chosen(o.page, long)
  BY <1>2 DEF EventOK
<1>6. TextOK(text, o.page, k, "None")
  BY <1>1, <1>2, <1>5 DEF TextOK
<1>7. /\ armed' \in BOOLEAN /\ PageOK(page', k) /\ TextOK(text', page', k, result')
      /\ result' \in Results
  <2>1. CASE /\ o.choice = NoChoice
             /\ page' = o.page
             /\ armed' = (armed \/ (o.page.buttons.state = BothDown /\ page.buttons.state # BothDown))
             /\ UNCHANGED << text, result >>
    <3>1. armed' \in BOOLEAN
      BY <1>1, <2>1
    <3>2. page' = o.page /\ text' = text /\ result' = "None"
      BY <1>1, <2>1
    <3> QED BY <1>1, <1>5, <1>6, <3>1, <3>2
  <2>2. CASE /\ o.choice # NoChoice
             /\ \E r \in EntryChosen(o.page, text, o.choice) :
                   page' = r.page /\ text' = r.text /\ result' = r.result
             /\ armed' = FALSE
    <3>1. armed' \in BOOLEAN
      BY <2>2
    <3>2. PICK long \in BOOLEAN : o.choice = Chosen(o.page, long)
      BY <1>5, <2>2
    <3>3. ~is_moving(o.page.animation)
      BY <1>5, <2>2
    <3>4. PICK r \in EntryChosen(o.page, text, o.choice) :
             page' = r.page /\ text' = r.text /\ result' = r.result
      BY <2>2
    <3>5. Answer(r, k)
      BY <1>1, <1>2, <1>5, <1>6, <3>2, <3>3, <3>4, ChosenAnswer
    <3> QED BY <3>1, <3>4, <3>5 DEF Answer
  <2> QED BY <1>4, <2>1, <2>2
<1>8. KindOf(screen') = k /\ screen' \in SCREENS /\ screen' # "pages"
  BY <1>1, <1>2, <1>3
<1> QED BY <1>7, <1>8 DEF TypeInv

LEMMA EntryStepsOK ==
    ASSUME TypeInv, IsEntry, Next
    PROVE  TypeInv'
<1>1. /\ screen \in EntryScreens /\ result = "None" /\ PageOK(page, KindOf(screen))
      /\ KindOf(screen) \in Kinds /\ down \subseteq PhysicalButton /\ ~IsPages
  BY KindIs DEF TypeInv, IsEntry, IsPages, EntryScreens
<1>2. ASSUME NEW b \in PhysicalButton, Press(b) PROVE TypeInv'
  <2>1. down' = down \cup {b} /\ EntryEvent(PagePress(page, b))
    BY <1>1, <1>2 DEF Press
  <2>2. \A o \in PagePress(page, b) : EventOK(page, o, KindOf(screen))
    BY <1>1, PressOK
  <2> QED BY <1>1, <2>1, <2>2, EntryEventOK
<1>3. ASSUME NEW b \in PhysicalButton, Release(b) PROVE TypeInv'
  <2>1. down' = down \ {b} /\ EntryEvent(PageRelease(page, b))
    BY <1>1, <1>3 DEF Release
  <2>2. \A o \in PageRelease(page, b) : EventOK(page, o, KindOf(screen))
    BY <1>1, ReleaseOK
  <2> QED BY <1>1, <2>1, <2>2, EntryEventOK
<1>4. CASE ClickTimerFires
  <2>1. PICK b : EntryEvent(PageClickTimer(page, b))
    BY <1>4 DEF ClickTimerFires
  <2>2. down' = down
    BY <1>4 DEF ClickTimerFires
  <2>3. \A o \in PageClickTimer(page, b) : EventOK(page, o, KindOf(screen))
    BY <1>1, ClickTimerOK
  <2> QED BY <1>1, <2>1, <2>2, <2>3, EntryEventOK
<1>5. CASE LongTimerFires
  <2>1. EntryEvent(PageLongTimer(page)) /\ down' = down
    BY <1>5 DEF LongTimerFires
  <2>2. \A o \in PageLongTimer(page) : EventOK(page, o, KindOf(screen))
    BY <1>1, LongTimerOK
  <2> QED BY <1>1, <2>1, <2>2, EntryEventOK
<1>6. CASE HoldingTimerFires
  <2>1. EntryEvent({PageHoldingTimer(page)}) /\ down' = down
    BY <1>6 DEF HoldingTimerFires
  <2>2. \A o \in {PageHoldingTimer(page)} : EventOK(page, o, KindOf(screen))
    BY <1>1, HoldingTimerOK
  <2> QED BY <1>1, <2>1, <2>2, EntryEventOK
<1>7. CASE AnimationTimerFires
  <2>1. EntryEvent({PageAnimationTimer(page)}) /\ down' = down
    BY <1>7 DEF AnimationTimerFires
  <2>2. \A o \in {PageAnimationTimer(page)} : EventOK(page, o, KindOf(screen))
    BY <1>1, AnimationTimerOK
  <2> QED BY <1>1, <2>1, <2>2, EntryEventOK
<1>8. ~FrameTimerFires /\ ~NextScreen
  BY <1>1 DEF FrameTimerFires, NextScreen
<1> QED BY <1>2, <1>3, <1>4, <1>5, <1>6, <1>7, <1>8 DEF Next

LEMMA PagesEventOK ==
    ASSUME TypeInv, IsPages, NEW outcomes, PagesEvent(outcomes), Typed(outcomes),
           down' \subseteq PhysicalButton
    PROVE  TypeInv'
<1>1. /\ screen = "pages" /\ screen \notin EntryScreens /\ PagesOK(page)
      /\ text \in Seq(Nat) /\ screen \in SCREENS /\ armed \in BOOLEAN
  BY DEF TypeInv, IsPages, EntryScreens
<1>2. PICK o \in outcomes : page' = PageReact(page, o).page /\ result' = PageReact(page, o).result
  BY Zenon DEF PagesEvent
<1>3. PagesOK(page') /\ result' \in Results
  BY <1>1, <1>2, PageReactOK DEF Typed
<1>4. screen' = screen /\ text' = text /\ armed' = armed
  BY DEF PagesEvent
<1> QED BY <1>1, <1>3, <1>4 DEF TypeInv

LEMMA PagesStepsOK ==
    ASSUME TypeInv, IsPages, Next
    PROVE  TypeInv'
<1>1. /\ screen = "pages" /\ result = "None" /\ page.buttons \in ControllerType
      /\ down \subseteq PhysicalButton /\ ~IsEntry
  BY DEF TypeInv, PagesOK, IsEntry, IsPages, EntryScreens
<1>2. ASSUME NEW b \in PhysicalButton, Press(b) PROVE TypeInv'
  <2>1. down' = down \cup {b} /\ PagesEvent(ButtonPressed(page.buttons, b))
    BY <1>1, <1>2 DEF Press
  <2> QED BY <1>1, <2>1, PressType, PagesEventOK
<1>3. ASSUME NEW b \in PhysicalButton, Release(b) PROVE TypeInv'
  <2>1. down' = down \ {b} /\ PagesEvent(ButtonReleased(page.buttons, b))
    BY <1>1, <1>3 DEF Release
  <2> QED BY <1>1, <2>1, ReleaseType, PagesEventOK
<1>4. CASE FrameTimerFires
  <2>1. PagesEvent(FrameTimer(page.buttons)) /\ down' = down
    BY <1>4 DEF FrameTimerFires
  <2> QED BY <1>1, <2>1, FrameType, PagesEventOK
<1>5. /\ ~ClickTimerFires /\ ~LongTimerFires /\ ~HoldingTimerFires /\ ~AnimationTimerFires
      /\ ~NextScreen
  BY <1>1 DEF ClickTimerFires, LongTimerFires, HoldingTimerFires, AnimationTimerFires, NextScreen
<1> QED BY <1>2, <1>3, <1>4, <1>5 DEF Next

LEMMA TypeInit == Init => TypeInv
<1> SUFFICES ASSUME Init PROVE TypeInv
  OBVIOUS
<1>1. /\ screen \in SCREENS /\ down = {} /\ page \in InitialPages(screen) /\ text = << >>
      /\ result = "None" /\ armed \in BOOLEAN
  BY DEF Init
<1>2. /\ screen \in EntryScreens =>
            PageOK(page, KindOf(screen)) /\ TextOK(<< >>, page, KindOf(screen), "None")
      /\ screen = "pages" => PagesOK(page)
  BY <1>1, NewScreenOK
<1> QED BY <1>1, <1>2 DEF TypeInv, Results

LEMMA TypeStep == TypeInv /\ [Next]_vars => TypeInv'
<1> SUFFICES ASSUME TypeInv, [Next]_vars PROVE TypeInv'
  OBVIOUS
<1>1. CASE UNCHANGED vars
  BY <1>1 DEF TypeInv, vars
<1>2. CASE Next /\ IsEntry
  BY <1>2, EntryStepsOK
<1>3. CASE Next /\ IsPages
  BY <1>3, PagesStepsOK
<1>4. CASE Next /\ result # "None"
  <2>1. PICK s \in SCREENS : Show(s)
    BY <1>4, NoEventAfterResult DEF NextScreen
  <2>2. down' = down
    BY <1>4, NoEventAfterResult DEF NextScreen
  <2>3. /\ screen' = s /\ page' \in InitialPages(s) /\ armed' \in BOOLEAN /\ text' = << >>
        /\ result' = "None"
    BY <2>1 DEF Show
  <2>4. /\ s \in EntryScreens => PageOK(page', KindOf(s)) /\ TextOK(<< >>, page', KindOf(s), "None")
        /\ s = "pages" => PagesOK(page')
    BY <2>3, NewScreenOK
  <2> QED BY <2>2, <2>3, <2>4 DEF TypeInv, Results
<1>5. CASE Next /\ result = "None"
  <2>1. IsEntry \/ IsPages
    BY <1>5, ScreensAssumption DEF TypeInv, IsEntry, IsPages
  <2> QED BY <1>2, <1>3, <1>5, <2>1
<1> QED BY <1>1, <1>4, <1>5

LEMMA TypeInvariant == Spec => []TypeInv
  BY TypeInit, TypeStep, PTL DEF Spec

AllTables ==
    {PIN, Number} \cup
    {Passphrase(category, e) : category \in Categories \cup {"Menu"}, e \in BOOLEAN} \cup
    UNION {WordlistChoices(p) : p \in Prefixes}

LEMMA TablesOfPages ==
    ASSUME NEW kind \in Kinds, NEW ch \in Tables(kind)
    PROVE  ch \in AllTables
  BY DEF Tables, AllTables

LEMMA TypeFollows == TypeInv => TypeOK
<1> SUFFICES ASSUME TypeInv PROVE TypeOK
  OBVIOUS
<1>1. CASE screen \in EntryScreens
  <2>1. PICK k, ch : k = KindOf(screen) /\ ch = page.choices
    OBVIOUS
  <2>2. /\ k \in Kinds /\ PageOK(page, k) /\ TextOK(text, page, k, result)
        /\ screen # "pages"
    BY <1>1, <2>1, KindIs DEF TypeInv, EntryScreens
  <2>3. /\ IsChoicePage(page) /\ ch \in Tables(k) /\ count(ch) \in Nat \ {0}
        /\ page.page \in 0 .. (count(ch) - 1) /\ page.is_carousel \in BOOLEAN
        /\ page.buttons \in ControllerType /\ page.holding \in MoverType
        /\ page.animation \in MoverType /\ page.steps \in Int
    BY <2>1, <2>2, PageOKFields
  <2>4. ch \in AllTables
    BY <2>2, <2>3, TablesOfPages
  <2>5. page.page \in Nat /\ page.page < count(ch)
    BY <2>3
  <2>6. page \in ChoicePageType
    BY <2>1, <2>3, <2>4, <2>5 DEF IsChoicePage, ChoicePageType, AllTables
  <2>7. text \in Seq(Nat) /\ (screen \in {"pin", "passphrase"} => Len(text) <= MAX_LENGTH)
    BY <2>1, <2>2 DEF TextOK, KindOf
  <2> QED BY <1>1, <2>1, <2>2, <2>5, <2>6, <2>7 DEF TypeInv, TypeOK, Results
<1>2. CASE screen = "pages"
  BY <1>2 DEF TypeInv, TypeOK, Results, PagesOK, EntryScreens
<1> QED BY <1>1, <1>2, ScreensAssumption DEF TypeInv

(* Every variable has its type, and the page counter is the index of a choice,  *)
(* or of a page, for every word list, number of digits, characters, numbers and *)
(* pages: the tables are indexed with it without a check, and reset() puts      *)
(* other choices under it.  In a word entry it is also the index of the letter  *)
(* or word that is taken, and a text is never longer than its buffer.           *)
THEOREM TypeCorrect == Spec => []TypeOK
  BY TypeInvariant, TypeFollows, PTL

LEMMA LandsAt == TypeInv => AnimationLands
<1> SUFFICES ASSUME TypeInv, Animating
             PROVE  (page.page + page.steps) % count(page.choices) \in
                       IF screen = "pin" THEN get_random_digit_position
                       ELSE random_category_position(page.choices.category)
  BY DEF AnimationLands
<1>1. PICK k, n : k = KindOf(screen) /\ n = count(page.choices)
  OBVIOUS
<1>2. screen \in EntryScreens /\ is_moving(page.animation) /\ k \in Kinds /\ PageOK(page, k)
  BY <1>1, KindIs DEF Animating, TypeInv
<1>3. /\ page.choices \in Tables(k) /\ page.choices.of = k /\ n \in Nat \ {0}
      /\ page.page \in 0 .. (n - 1) /\ page.steps \in Int /\ Lands(page, k)
  BY <1>1, <1>2, PageOKFields
<1>4. PICK i \in Targets(page.choices) : Arrives(page.page, page.steps, n, i)
  BY <1>1, <1>2, <1>3 DEF Lands
<1>5. k \in {"pin", "passphrase"}
  BY <1>2, <1>3 DEF Lands
<1>6. i \in 0 .. (n - 1)
  BY <1>1, <1>3, <1>5, TargetsInside
<1>7. (page.page + page.steps) % n = i
  <2>1. page.page \in Int
    BY <1>3
  <2> QED BY <1>3, <1>4, <1>6, <2>1, ArrivesAt
<1>8. Targets(page.choices) = IF screen = "pin" THEN get_random_digit_position
                              ELSE random_category_position(page.choices.category)
  BY <1>1, <1>3, <1>5 DEF Targets, KindOf
<1> QED BY <1>1, <1>4, <1>7, <1>8

(* Whichever way round the carousel set_page_counter() goes, and wherever the    *)
(* animation is by now, it ends at the random position that was chosen: a digit  *)
(* in a PIN entry; in a category of a passphrase a character and not the way     *)
(* back to the menu.                                                             *)
THEOREM LandingCorrect == Spec => []AnimationLands
  BY TypeInvariant, LandsAt, PTL

=============================================================================
