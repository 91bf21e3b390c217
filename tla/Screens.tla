------------------------------ MODULE Screens ------------------------------
(***************************************************************************)
(* The screens of the Model R on which the user decides something with the  *)
(* two buttons: the entries built on a choice page (pin.rs, passphrase.rs,  *)
(* wordlist.rs, number_input.rs of                                          *)
(* core/embed/rust/src/ui/model_tr/component/input_methods/) and the pages  *)
(* of text with a confirm and a cancel button (page.rs).                    *)
(*                                                                          *)
(* One screen is shown at a time.  When it returns a result the workflow    *)
(* shows another one, and the buttons may still be held down at that        *)
(* moment.  Every press, release and timer reaches the shown screen.        *)
(***************************************************************************)
EXTENDS ChoicePage

CONSTANTS
    SCREENS,      \* the kinds of screen that are shown
    MAX_LENGTH,   \* MAX_PIN_LENGTH, MAX_PASSPHRASE_LENGTH
    MAX_PAGES     \* bound on the page count of a ButtonPage

EntryScreens == {"pin", "passphrase", "wordlist", "first_word", "number"}

ASSUME ScreensAssumption ==
    /\ SCREENS \subseteq EntryScreens \cup {"pages"}
    /\ MAX_LENGTH \in Nat \ {0} /\ MAX_PAGES \in Nat \ {0}

VARIABLES
    down,      \* the physical buttons that are held down
    screen,    \* the kind of the screen that is shown
    page,      \* its ChoicePage or ButtonPage
    text,      \* its TextBox; characters of PINs and passphrases are 0
    result,    \* what event() returned to the workflow, or "None"
    armed      \* history: both buttons went down and nothing was chosen since

vars == << down, screen, page, text, result, armed >>

----------------------------------------------------------------------------
(* ButtonPage *)

\* get_button_layout; cancel and confirm are the types of the left button of the
\* first page and of the right button of the last page.
page_layout(p) ==
    [Left |-> IF p.active_page = 0 THEN p.cancel ELSE "Button",
     Middle |-> "Nothing",
     Right |-> IF p.active_page < p.page_count - 1 THEN "Button" ELSE p.confirm]

\* ButtonPage::new and place
new_button_page(n, cancel, confirm) ==
    LET controls == [Left |-> cancel, Middle |-> "Nothing",
                     Right |-> IF n > 1 THEN "Button" ELSE confirm]
    IN  [page_count |-> n, active_page |-> 0, cancel |-> cancel, confirm |-> confirm,
         buttons |-> new_controller(controls, FALSE)]

\* With the buttons of content_in_button_page.
ButtonPages ==
    {new_button_page(n, cancel, confirm) :
       n \in 1 .. MAX_PAGES, cancel \in {"Nothing", "Button"},
       confirm \in {"Nothing", "Button", "HoldToConfirm"}}

change_page(p, active) ==
    LET q == [p EXCEPT !.active_page = active]
    IN  [q EXCEPT !.buttons = set(@, page_layout(q))]

\* ButtonPage::event after the outcome o of buttons.event().
PageReact(p, o) ==
    LET q == [p EXCEPT !.buttons = o.buttons]
        Is(pos) == o.msg.of = "Triggered" /\ o.msg.pos = pos
    IN  CASE Is("Left") /\ q.active_page > 0 ->
                [page |-> change_page(q, q.active_page - 1), result |-> "None"]
          [] Is("Left") /\ q.active_page = 0 -> [page |-> q, result |-> "Cancelled"]
          [] Is("Right") /\ q.active_page < q.page_count - 1 ->
                [page |-> change_page(q, q.active_page + 1), result |-> "None"]
          [] Is("Right") /\ q.active_page = q.page_count - 1 ->
                [page |-> q, result |-> "Confirmed"]
          [] OTHER -> [page |-> q, result |-> "None"]

----------------------------------------------------------------------------
(* The entries: event() after choice_page.event() has returned a choice.  The  *)
(* page g, the text t and the choice c give the new page, text and result.     *)

Stay(g, t) == {[page |-> g, text |-> t, result |-> "None"]}
Return(g, t, r) == {[page |-> g, text |-> t, result |-> r]}

\* TextBox::clear or delete_last
Delete(t, long) == IF long \/ t = << >> THEN << >> ELSE SubSeq(t, 1, Len(t) - 1)

is_full(t) == Len(t) >= MAX_LENGTH

PinChosen(g, t, c) ==
    CASE c.action = "Delete" -> Stay(g, Delete(t, c.long))
      [] c.action = "Enter" /\ t # << >> -> Return(g, t, "Confirmed")
      [] c.action = "Digit" /\ ~is_full(t) ->
            UNION {Stay(set_page_counter(g, i), Append(t, 0)) : i \in get_random_digit_position}
      [] OTHER -> Stay(g, t)

\* show_menu_page and show_category_page
ShowCategory(g, t, category, positions) ==
    UNION {Stay(reset(g, Passphrase(category, t = << >>), i, TRUE), t) : i \in positions}

PassphraseChosen(g, t, c) ==
    CASE c.action = "CancelOrDelete" /\ t = << >> -> Return(g, t, "Cancelled")
      [] c.action = "CancelOrDelete" /\ t # << >> ->
            LET u == Delete(t, c.long)
            IN  IF u = << >> THEN ShowCategory(g, u, "Menu", random_menu_position)
                ELSE Stay(g, u)
      [] c.action = "Enter" -> Return(g, t, "Confirmed")
      [] c.action = "Category" ->
            LET category == Menu[g.page + 1]
            IN  ShowCategory(g, t, category, random_category_position(category))
      [] c.action = "Menu" -> ShowCategory(g, t, "Menu", random_menu_position)
      [] c.action = "Character" /\ ~is_full(t) ->
            UNION {Stay(set_page_counter(g, i), Append(t, 0)) :
                      i \in random_category_position(g.choices.category)}
      [] OTHER -> Stay(g, t)

\* WordlistEntry::update
WordlistUpdate(g, t) ==
    UNION {UNION {Stay(reset(g, ch, i, ~offer_words(t)), t) : i \in get_new_page_counter(ch)} :
              ch \in WordlistChoices(t)}

WordlistChosen(g, t, c) ==
    CASE c.action = "Previous" ->
            IF screen = "first_word" THEN Stay(g, t) ELSE Return(g, t, "Previous")
      [] c.action = "Delete" -> WordlistUpdate(g, Delete(t, c.long))
      [] c.action = "Letter" -> WordlistUpdate(g, Append(t, NthLetter(t, g.page - 1)))
      [] c.action = "Word" -> Return(g, g.choices.order[g.page], "Word")

EntryChosen(g, t, c) ==
    CASE screen = "pin" -> PinChosen(g, t, c)
      [] screen = "passphrase" -> PassphraseChosen(g, t, c)
      [] screen \in {"wordlist", "first_word"} -> WordlistChosen(g, t, c)
      [] screen = "number" -> Return(g, t, "Number")

\* PinEntry::new, PassphraseEntry::new, WordlistEntry::new and NumberInput::new
InitialPages(s) ==
    CASE s = "pin" -> {new_page(PIN, i, TRUE) : i \in get_random_digit_position}
      [] s = "passphrase" ->
            {new_page(Passphrase("Menu", TRUE), i, TRUE) : i \in random_menu_position}
      [] s \in {"wordlist", "first_word"} ->
            UNION {{new_page(ch, i, TRUE) : i \in 1 .. (count(ch) - 1)} :
                      ch \in WordlistChoices(<< >>)}
      [] s = "number" -> {new_page(Number, i, FALSE) : i \in 0 .. (NUMBERS - 1)}
      [] s = "pages" -> ButtonPages

----------------------------------------------------------------------------
Show(s) ==
    /\ screen' = s
    /\ page' \in InitialPages(s)
    /\ text' = << >>
    /\ result' = "None"
    /\ armed' = FALSE

Init ==
    /\ down = {}
    /\ screen \in SCREENS
    /\ page \in InitialPages(screen)
    /\ text = << >>
    /\ result = "None"
    /\ armed = FALSE

\* The workflow takes the result and shows another screen.
NextScreen ==
    /\ result # "None"
    /\ \E s \in SCREENS : Show(s)
    /\ UNCHANGED down

IsEntry == screen \in EntryScreens /\ result = "None"
IsPages == screen = "pages" /\ result = "None"

\* An event of an entry, with the outcomes of its choice page.
EntryEvent(outcomes) ==
    /\ \E o \in outcomes :
          \/ /\ o.choice = NoChoice
             /\ page' = o.page
             /\ armed' = (armed \/ (o.page.buttons.state = BothDown /\ page.buttons.state # BothDown))
             /\ UNCHANGED << text, result >>
          \/ /\ o.choice # NoChoice
             /\ \E r \in EntryChosen(o.page, text, o.choice) :
                   page' = r.page /\ text' = r.text /\ result' = r.result
             /\ armed' = FALSE
    /\ UNCHANGED screen

PagesEvent(outcomes) ==
    /\ \E o \in outcomes : LET r == PageReact(page, o)
                           IN  page' = r.page /\ result' = r.result
    /\ UNCHANGED << screen, text, armed >>

Press(b) ==
    /\ b \notin down
    /\ down' = down \cup {b}
    /\ \/ IsEntry /\ EntryEvent(PagePress(page, b))
       \/ IsPages /\ PagesEvent(ButtonPressed(page.buttons, b))

Release(b) ==
    /\ b \in down
    /\ down' = down \ {b}
    /\ \/ IsEntry /\ EntryEvent(PageRelease(page, b))
       \/ IsPages /\ PagesEvent(ButtonReleased(page.buttons, b))

ClickTimerFires ==
    /\ IsEntry
    /\ \E b \in page.buttons.clickTimer : EntryEvent(PageClickTimer(page, b))
    /\ UNCHANGED down

LongTimerFires ==
    /\ IsEntry /\ page.buttons.longTimer # "None"
    /\ EntryEvent(PageLongTimer(page))
    /\ UNCHANGED down

HoldingTimerFires ==
    /\ IsEntry /\ page.holding.timer
    /\ EntryEvent({PageHoldingTimer(page)})
    /\ UNCHANGED down

AnimationTimerFires ==
    /\ IsEntry /\ page.animation.timer
    /\ EntryEvent({PageAnimationTimer(page)})
    /\ UNCHANGED down

FrameTimerFires ==
    /\ IsPages /\ page.buttons.frame
    /\ PagesEvent(FrameTimer(page.buttons))
    /\ UNCHANGED down

Next ==
    \/ \E b \in PhysicalButton : Press(b) \/ Release(b)
    \/ ClickTimerFires
    \/ LongTimerFires
    \/ HoldingTimerFires
    \/ AnimationTimerFires
    \/ FrameTimerFires
    \/ NextScreen

\* A timer that was requested fires.  Nothing is assumed of the user.
Spec == Init /\ [][Next]_vars /\ WF_vars(AnimationTimerFires)

----------------------------------------------------------------------------
(* Properties *)

Prefixes == UNION {{SubSeq(w, 1, n) : n \in 0 .. Len(w)} : w \in WORDLIST}

ChoicePageType ==
    [choices : {PIN, Number} \cup
               {Passphrase(category, e) : category \in Categories \cup {"Menu"}, e \in BOOLEAN} \cup
               UNION {WordlistChoices(p) : p \in Prefixes},
     page : Nat, is_carousel : BOOLEAN, buttons : ControllerType,
     holding : MoverType, animation : MoverType, steps : Int]

(* Every variable has its type, and the page counter is the index of a choice   *)
(* (or of a page): the tables of choices are indexed with it without a check,   *)
(* after reset() has put other choices under it too.                            *)
TypeOK ==
    /\ down \subseteq PhysicalButton
    /\ screen \in SCREENS
    /\ text \in Seq(Nat) /\ (screen \in {"pin", "passphrase"} => Len(text) <= MAX_LENGTH)
    /\ armed \in BOOLEAN
    /\ result \in {"None", "Confirmed", "Cancelled", "Previous", "Word", "Number"}
    /\ screen \in EntryScreens =>
          page \in ChoicePageType /\ page.page < count(page.choices)
    /\ screen = "pages" =>
          page.buttons \in ControllerType /\ page.active_page \in 0 .. (page.page_count - 1)

(* ButtonController: it never takes a button for held that is up, so no release *)
(* that an animation or another screen swallowed leaves it stuck.  (It may miss *)
(* that a button is down.)                                                      *)
HeldMeansDown ==
    result = "None" =>
        LET s == page.buttons.state
        IN  /\ s.at \in {"OneDown", "HTCNeedsRelease"} => s.which \in down
            /\ s.at = "BothDown" => down = PhysicalButton
            /\ s.at = "OneReleased" => down = PhysicalButton \ {s.which}

Animating == screen \in EntryScreens /\ is_moving(page.animation)

(* ChoicePage: while an animation makes the page ignore every event, no button  *)
(* is half-way through a press and no timer of the buttons or of the holding    *)
(* mover is pending that would be lost.                                         *)
QuietWhileAnimating ==
    Animating =>
        /\ page.buttons.state = Nothing
        /\ page.buttons.clickTimer = {} /\ page.buttons.longTimer = "None"
        /\ ~is_moving(page.holding)

(* set_page_counter: whichever way round it goes, the animation ends at the     *)
(* random position that was chosen, which is a digit in a PIN entry and a       *)
(* character, not the way back to the menu, in a category of a passphrase.      *)
AnimationLands ==
    Animating =>
        (page.page + page.steps) % count(page.choices) \in
            IF screen = "pin" THEN get_random_digit_position
            ELSE random_category_position(page.choices.category)

(* An entry takes at most one choice for every time both buttons were pressed   *)
(* together: a long press of DELETE that acts before the release does not act   *)
(* once more at the release.                                                    *)
OneSelectPerPress ==
    [][(IsEntry /\ (text' # text \/ result' # "None")) => armed]_vars

(* The page moves by itself only while the button of that direction is held     *)
(* down, and not while both are: the choice that is highlighted when both are   *)
(* pressed is the one that is selected.                                         *)
MovesOnlyWhileHeld ==
    [][(HoldingTimerFires /\ page'.page # page.page) =>
          /\ page.holding.dir \in down
          /\ page.buttons.state = OneDown(page.holding.dir)]_vars

(* The page does not ignore the user for ever.                                  *)
AnimationEnds == Animating ~> ~Animating

(* ButtonController: "Only final button events are returned in                  *)
(* ButtonControllerMsg::Triggered, based upon the buttons being long-press or   *)
(* not": a page whose confirm button is hold-to-confirm is confirmed only when  *)
(* that button was held until its loader was full.                              *)
ConfirmNeedsHold ==
    [][(IsPages /\ result' = "Confirmed" /\ page.confirm = "HoldToConfirm")
          => FrameTimerFires]_vars
=============================================================================
