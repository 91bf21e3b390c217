----------------------------- MODULE SwipeFlow -----------------------------
(* A flow of screens on the touch-screen model: SwipeFlow (ui/flow), its   *)
(* swipe detector and the components its screens are made of.  A step is   *)
(* one event (a touch, an animation frame, another timer) handled to the   *)
(* end, or the passing of the time an animation takes.                     *)
EXTENDS Flows, Integers, FiniteSets

CONSTANTS
  FLOWS,      \* the flows to show, by name
  MAX_PAGES,  \* bound on the pages of a screen with pages
  MAX_STUCK   \* bound on the buttons that earlier touches left pressed

ASSUME SwipeFlowAssumption ==
  /\ \A name \in DOMAIN FLOWS : IsFlow(FLOWS[name])
  /\ "ShowShareWords" \in DOMAIN FLOWS =>
       FLOWS["ShowShareWords"] = ShowShareWords
  /\ MAX_PAGES \in Nat \ {0} /\ MAX_STUCK \in Nat

VARIABLES
  flow,     \* the name of the flow shown
  pages,    \* how many pages each screen with pages has
  self,     \* the SwipeFlow
  store,    \* the state of its components
  frame,    \* an animation frame has been requested
  finger,   \* a finger is on the screen
  result    \* what the flow returned

vars == <<flow, pages, self, store, frame, finger, result>>

Screens == FLOWS[flow].screens
Screen == Screens[self.state]
Paged == {s \in DOMAIN Screens : Screens[s].axis # "none"}

-----------------------------------------------------------------------------
(* SwipeDetect.  The animation that ends a swipe goes "forth" to the next  *)
(* screen or "back"; "elapsed" says that its time is over.                 *)
SwipeDetect ==
  [origin |-> FALSE, locked |-> "none", final_animation |-> "none",
   elapsed |-> FALSE]

Animating(swipe) == swipe.final_animation # "none"

(* SwipeDetect::trigger.                                                   *)
trigger(swipe, dir) ==
  [swipe EXCEPT !.locked = dir, !.final_animation = "forth",
                !.elapsed = FALSE]

(* What the detector makes of an event: a message, and its new state.      *)
Detected(msg, dir, swipe, requests) ==
  [msg |-> msg, dir |-> dir, swipe |-> swipe, frame |-> requests]
Undetected(swipe) == Detected("None", "none", swipe, FALSE)

(* A plausible bug: the last frame of the animation requests no other.     *)
eval_anim_frame_requests_no_frame(swipe) ==
  IF ~Animating(swipe) THEN Undetected(swipe)
  ELSE IF ~swipe.elapsed THEN Detected("Move", swipe.locked, swipe, TRUE)
  ELSE Detected(IF swipe.final_animation = "forth" THEN "Trigger" ELSE "Move",
                swipe.locked,
                [SwipeDetect EXCEPT !.origin = swipe.origin],
                FALSE)

(* The end of an animation requests one more frame: the frames before it   *)
(* were not seen by the component.                                         *)
eval_anim_frame(swipe) ==
  IF ~Animating(swipe) THEN Undetected(swipe)
  ELSE IF ~swipe.elapsed THEN Detected("Move", swipe.locked, swipe, TRUE)
  ELSE Detected(IF swipe.final_animation = "forth" THEN "Trigger" ELSE "Move",
                swipe.locked,
                [SwipeDetect EXCEPT !.origin = swipe.origin],
                TRUE)

(* A move of the finger locks the first allowed direction in which it went *)
(* far enough: any of them, or none yet.                                   *)
Lock(swipe, allowed) ==
  {Undetected(swipe)} \cup
  {Detected("Start", dir, [swipe EXCEPT !.locked = dir], FALSE) :
     dir \in allowed}

(* The finger is lifted: a locked swipe goes on if it came far enough and  *)
(* back otherwise.                                                         *)
Lift(swipe, allowed) ==
  LET lifted == [swipe EXCEPT !.origin = FALSE]
      To(animation) == [lifted EXCEPT !.final_animation = animation,
                                      !.elapsed = FALSE]
  IN IF swipe.locked = "none" THEN {Undetected(lifted)}
     ELSE {Detected("None", "none", To(animation), TRUE) :
             animation \in {"back"} \cup
               (IF swipe.locked \in allowed THEN {"forth"} ELSE {})}

swipe_event(e, swipe, allowed) ==
  CASE e.type = "AnimFrame" -> {eval_anim_frame(swipe)}
    [] e.type = "TouchStart" ->
         {IF Animating(swipe) THEN eval_anim_frame(swipe)
          ELSE Undetected([swipe EXCEPT !.origin = TRUE])}
    [] e.type \in {"TouchMove", "TouchEnd"} /\ swipe.origin ->
         IF Animating(swipe) THEN {eval_anim_frame(swipe)}
         ELSE IF e.type = "TouchEnd" THEN Lift(swipe, allowed)
         ELSE IF swipe.locked = "none" THEN Lock(swipe, allowed)
         ELSE {Detected("Move", swipe.locked, swipe, FALSE)}
    [] OTHER -> {Undetected(swipe)}

-----------------------------------------------------------------------------
(* The components.  shown is the page a screen with pages is on, pressed   *)
(* the buttons of a screen in the Pressed state, prompt the animation of a *)
(* tap or hold prompt, attach the attach animation of the current screen.  *)
IsTouch(e) == e.type \in {"TouchStart", "TouchMove", "TouchEnd", "TouchAbort"}

Buttons(screen) ==
  (IF screen.button = NoMessage THEN {} ELSE {"button"}) \cup screen.items
    \cup (IF screen.content \in {"tap", "hold"} THEN {"prompt"} ELSE {})

(* SwipeContent and VerticalMenu keep touches from their content while the *)
(* attach animation is active; the header button still gets them.          *)
Blocked(e, screen) == screen.blocked /\ IsTouch(e) /\ store.attach = "active"
Reached(e, screen) ==
  IF Blocked(e, screen) THEN Buttons(screen) \cap {"button"}
  ELSE Buttons(screen)

(* Button::event.                                                          *)
PressedAfter(e, screen, pressed) ==
  CASE e.type = "TouchStart" -> pressed \cup ({e.at} \cap Reached(e, screen))
    [] e.type = "TouchMove" -> pressed \ (Reached(e, screen) \ {e.at})
    [] e.type \in {"TouchEnd", "TouchAbort"} -> pressed \ Reached(e, screen)
    [] e.type = "LongTimer" -> pressed \ {"prompt"}
    [] OTHER -> pressed
Clicked(e, screen, pressed) ==
  IF e.type = "TouchEnd" THEN {e.at} \cap pressed \cap Reached(e, screen)
  ELSE {}

(* What a component answers to an event.                                   *)
Answer(prompt, msg, swiping, requests) ==
  [prompt |-> prompt, msg |-> msg, swiping |-> swiping, frame |-> requests]

(* TapToConfirm::event: a click starts the animation, and the first event  *)
(* after its end confirms.  Nothing stops the animation.                   *)
tap_event(e, screen, prompt, pressed) ==
  LET clicked == "prompt" \in Clicked(e, screen, pressed)
  IN CASE clicked -> Answer("running", NoMessage, "same", TRUE)
       [] ~clicked /\ prompt = "over" /\ ~Blocked(e, screen) ->
            Answer(prompt, screen.says, "enable", FALSE)
       [] OTHER -> Answer(prompt, NoMessage, "same",
                          e.type = "AnimFrame" /\ prompt = "running")

(* HoldToConfirm::event: holding disables swipes, letting go before the    *)
(* animation is locked enables them, and the end of the animation or the   *)
(* long press confirms.                                                    *)
hold_event(e, screen, prompt, pressed) ==
  LET locked == prompt \in {"locked", "over"}
      held == "prompt" \in pressed
      holds == "prompt" \in PressedAfter(e, screen, pressed)
  IN CASE ~held /\ holds /\ ~locked ->
            Answer("running", NoMessage, "disable", TRUE)
       [] held /\ ~holds /\ e.type = "LongTimer" ->
            Answer(prompt, screen.says, "same", FALSE)
       [] held /\ ~holds /\ e.type # "LongTimer" /\ ~locked ->
            Answer("stopped", NoMessage, "enable", TRUE)
       [] e.type = "AnimFrame" /\ prompt = "over" ->
            Answer(prompt, screen.says, "same", FALSE)
       [] OTHER -> Answer(prompt, NoMessage, "same",
                          e.type = "AnimFrame" /\ prompt \in {"running", "locked"})

(* The content of a Frame.                                                 *)
content_event(e, screen, prompt, pressed) ==
  CASE screen.content = "tap" -> tap_event(e, screen, prompt, pressed)
    [] screen.content = "hold" -> hold_event(e, screen, prompt, pressed)
    [] screen.content = "timeout" /\ e.type = "Timeout" ->
         Answer(prompt, screen.says, "same", FALSE)
    [] screen.content = "number" /\ e.type = "SwipeEnd" /\ e.at = "Up" ->
         Answer(prompt, screen.says, "same", FALSE)
    [] OTHER ->
         LET chosen == Clicked(e, screen, pressed) \cap screen.items
         IN Answer(prompt,
                   IF chosen = {} THEN NoMessage ELSE CHOOSE c \in chosen : TRUE,
                   "same", FALSE)

(* SwipePage, ShareWords and AddressDetails turn the page at the end of a  *)
(* swipe and stay within their pages.                                      *)
Forth(axis) == IF axis = "vertical" THEN "Up" ELSE "Left"
Back(axis) == IF axis = "vertical" THEN "Down" ELSE "Right"
turn(e, s, page) ==
  LET axis == Screens[s].axis
  IN CASE axis # "none" /\ e.type = "SwipeEnd" /\ e.at = Forth(axis) ->
            IF page + 1 < pages[s] THEN page + 1 ELSE page
       [] axis # "none" /\ e.type = "SwipeEnd" /\ e.at = Back(axis) ->
            IF page > 0 THEN page - 1 ELSE 0
       [] OTHER -> page

Attached(attach, e) ==
  IF e.type = "AnimFrame" /\ attach = "due" THEN "active" ELSE attach

(* The buttons that do not see an event another one has answered: those    *)
(* further down the menu, and the header button.                           *)
Unasked(msg) ==
  {"button"} \cup {Choices[i] : i \in {k \in DOMAIN Choices :
                      \E j \in 1 .. k - 1 : Choices[j] = msg}}

(* FlowStore::event for screen s, a Frame.                                 *)
store_event(e, s) ==
  LET screen == Screens[s]
      pressed == store.pressed[s]
      content == content_event(e, screen, store.prompt[s], pressed)
      after == PressedAfter(e, screen, pressed)
      answered == content.msg # NoMessage
  IN [store |->
        [shown |-> [store.shown EXCEPT ![s] = turn(e, s, @)],
         pressed |-> [store.pressed EXCEPT
                        ![s] = IF answered
                               THEN after \cup (@ \cap Unasked(content.msg))
                               ELSE after],
         prompt |-> [store.prompt EXCEPT ![s] = content.prompt],
         attach |-> Attached(store.attach, e)],
      msg |-> IF ~answered /\ "button" \in Clicked(e, screen, pressed)
              THEN screen.button ELSE content.msg,
      swiping |-> content.swiping,
      frame |-> content.frame \/ (e.type = "AnimFrame" /\ store.attach # "idle")]

(* Event::Attach: the attach animation is started by the next frame.       *)
attach_event(st, s) ==
  [st EXCEPT !.attach = IF Screens[s].blocked THEN "due" ELSE "idle"]

(* get_swipe_config: AddressDetails allows the swipe back on its first     *)
(* page only.                                                              *)
get_swipe_config(st, s) ==
  IF Screens[s].content = "details" /\ st.shown[s] > 0 THEN {}
  ELSE Screens[s].allowed

-----------------------------------------------------------------------------
(* SwipeFlow.                                                              *)

(* The directions that turn an internal page, by the flow's own count.     *)
Turning ==
  LET axis == Screen.axis
  IN IF axis = "none" THEN {}
     ELSE (IF self.internal_state > 0 THEN {Back(axis)} ELSE {}) \cup
          (IF self.internal_state < pages[self.state] - 1 THEN {Forth(axis)}
           ELSE {})

(* How many pages the Frame of screen s counts once it is attached.  A     *)
(* Frame without pages takes over the count its predecessor left in the    *)
(* event context.                                                          *)
get_internal_page_count(s) ==
  IF s \in Paged THEN pages[s]
  ELSE IF self.state \in Paged THEN pages[self.state] ELSE 1

(* A plausible bug: a screen that is swiped back to starts at page 0.      *)
goto_first_page(me, s, dir) ==
  [me EXCEPT !.state = s, !.swipe = SwipeDetect, !.allow_swipe = TRUE,
             !.internal_state = IF dir \in {"Up", "Down"} THEN 0 ELSE @]

goto(me, s, dir) ==
  [me EXCEPT !.state = s, !.swipe = SwipeDetect, !.allow_swipe = TRUE,
             !.internal_state = CASE dir = "Up" -> 0
                                  [] dir = "Down" -> get_internal_page_count(s) - 1
                                  [] OTHER -> @]

(* Goto, Return or stay.  pending: a frame is queued or was requested.     *)
Decide(decision, me, st, pending) ==
  CASE decision.type = "Goto" ->
         /\ self' = goto(me, decision.to, decision.dir)
         /\ store' = attach_event(st, decision.to)
         /\ frame' = (pending \/ Screens[decision.to].blocked
                      \/ Screens[decision.to].content = "timeout")
         /\ result' = result
    [] decision.type = "Return" ->
         /\ self' = [me EXCEPT !.swipe = SwipeDetect, !.allow_swipe = TRUE]
         /\ store' = st /\ frame' = pending /\ result' = decision.msg
    [] OTHER -> self' = me /\ store' = st /\ frame' = pending /\ result' = result

(* A plausible bug: the request to enable swiping is not served.           *)
Requested_disable_only(me, swiping) ==
  IF swiping = "disable"
  THEN [me EXCEPT !.swipe = SwipeDetect, !.allow_swipe = FALSE]
  ELSE me

(* The component has handled the event: its requests to disable or enable  *)
(* swiping, then its message.  A Goto whose direction is allowed becomes a *)
(* swipe with an override.                                                 *)
Requested(me, swiping) ==
  IF swiping = "same" THEN me
  ELSE [me EXCEPT !.swipe = SwipeDetect, !.allow_swipe = (swiping = "enable")]
Animate(decision, me, st) ==
  Decide(Nothing, [me EXCEPT !.swipe = trigger(@, decision.dir),
                             !.decision_override = decision,
                             !.allow_swipe = TRUE],
         st, TRUE)
Consult(decision, me, st, pending) ==
  IF /\ decision.type = "Goto"
     /\ decision.dir \in get_swipe_config(st, self.state)
  THEN Animate(decision, me, st)
  ELSE Decide(decision, me, st, pending)

(* The decision the end of a swipe stands for.                             *)
TakeDecision(dir) ==
  IF self.decision_override # Nothing THEN self.decision_override
  ELSE handle_swipe(FLOWS[flow], self.state, dir)
Turns(det) == det.msg = "Trigger" /\ det.dir \in Turning
Swiped(det) ==
  [self EXCEPT !.swipe = det.swipe,
               !.decision_override = IF det.msg = "Trigger" THEN Nothing ELSE @,
               !.internal_state = IF ~Turns(det) THEN @
                                  ELSE IF det.dir = Forth(Screen.axis) THEN @ + 1
                                  ELSE @ - 1]

(* What the component is sent for an event.                                *)
Sent(e, det) ==
  CASE det.msg = "Trigger" -> [type |-> "SwipeEnd", at |-> det.dir]
    [] det.msg = "Move" -> [type |-> "SwipeMove", at |-> det.dir]
    [] det.msg = "Start" -> [type |-> "TouchAbort", at |-> "none"]
    [] OTHER -> e

(* SwipeFlow::event.  The detector comes first; the component is asked     *)
(* unless the end of a swipe is decided by the flow, and its message is    *)
(* put to handle_event.                                                    *)
Detect(e) ==
  IF self.allow_swipe
  THEN swipe_event(e, self.swipe, get_swipe_config(store, self.state) \cup Turning)
  ELSE {Undetected(self.swipe)}
SwipeDecision(det) ==
  IF det.msg = "Trigger" /\ ~Turns(det) THEN TakeDecision(det.dir) ELSE Nothing

event(e, queued) ==
  \E det \in Detect(e) :
    \E decision \in {SwipeDecision(det)} :
      \E child \in {store_event(IF decision = Nothing THEN Sent(e, det) ELSE e,
                                self.state)} :
        LET pending == queued \/ det.frame \/ child.frame
            st == IF Turns(det) THEN attach_event(child.store, self.state)
                  ELSE child.store
        IN IF decision = Nothing
           THEN Consult(handle_event(FLOWS[flow], self.state, child.msg),
                        Requested(Swiped(det), child.swiping), st, pending)
           ELSE Decide(decision, Swiped(det), st, pending)

-----------------------------------------------------------------------------
(* The screens with pages have as many pages each, but for AddressDetails  *)
(* of an output: it holds no public keys and has one page.                 *)
PageCounts(name) ==
  LET screens == FLOWS[name].screens
      paged == {s \in DOMAIN screens : screens[s].axis # "none"}
  IN {[s \in paged |-> IF <<name, s>> = <<"ConfirmOutput", "AccountInfo">>
                       THEN 1 ELSE n] : n \in 1 .. MAX_PAGES}

Init ==
  /\ flow \in DOMAIN FLOWS
  /\ pages \in PageCounts(flow)
  /\ self = [state |-> FLOWS[flow].init, swipe |-> SwipeDetect,
             allow_swipe |-> TRUE, internal_state |-> 0,
             decision_override |-> Nothing]
  /\ store = [shown |-> [s \in Paged |-> 0],
              pressed |-> [s \in DOMAIN Screens |-> {}],
              prompt |-> [s \in DOMAIN Screens |-> "stopped"],
              attach |-> IF Screen.blocked THEN "due" ELSE "idle"]
  /\ frame = TRUE
  /\ finger = FALSE
  /\ result = NoMessage

Shown == result = NoMessage
Touch(type, at) == event([type |-> type, at |-> at], frame)

(* A touch during an attach animation can leave a button in the Pressed    *)
(* state, also on a screen that is left then.                              *)
Stuck == UNION {{s} \X store.pressed[s] : s \in DOMAIN Screens}

TouchStart ==
  /\ Shown /\ ~finger /\ Cardinality(Stuck) <= MAX_STUCK
  /\ \E at \in Buttons(Screen) \cup {"elsewhere"} : Touch("TouchStart", at)
  /\ finger' = TRUE /\ UNCHANGED <<flow, pages>>

(* A finger that moves or is lifted over a button that is not pressed does *)
(* what it does elsewhere.                                                 *)
TouchMove ==
  /\ Shown /\ finger
  /\ \E at \in store.pressed[self.state] \cup {"elsewhere"} : Touch("TouchMove", at)
  /\ UNCHANGED <<flow, pages, finger>>

TouchEnd ==
  /\ Shown /\ finger
  /\ \E at \in store.pressed[self.state] \cup {"elsewhere"} : Touch("TouchEnd", at)
  /\ finger' = FALSE /\ UNCHANGED <<flow, pages>>

(* A frame timer fires; another one, of a touch in between, may be queued. *)
AnimFrame ==
  /\ Shown /\ frame
  /\ \E queued \in BOOLEAN : event([type |-> "AnimFrame", at |-> "none"], queued)
  /\ UNCHANGED <<flow, pages, finger>>

(* The long press of the hold prompt lasts as long as its animation.       *)
LongTimerFires ==
  /\ Shown /\ Screen.content = "hold"
  /\ store.prompt[self.state] = "over" /\ "prompt" \in store.pressed[self.state]
  /\ event([type |-> "LongTimer", at |-> "none"], frame)
  /\ UNCHANGED <<flow, pages, finger>>

TimeoutFires ==
  /\ Shown /\ Screen.content = "timeout"
  /\ event([type |-> "Timeout", at |-> "none"], frame)
  /\ UNCHANGED <<flow, pages, finger>>

(* Time passes.                                                            *)
SwipeElapses ==
  /\ Shown /\ Animating(self.swipe) /\ ~self.swipe.elapsed
  /\ self' = [self EXCEPT !.swipe.elapsed = TRUE]
  /\ UNCHANGED <<flow, pages, store, frame, finger, result>>

PromptElapses ==
  /\ Shown
  /\ \E s \in DOMAIN Screens :
       /\ store.prompt[s] \in {"running", "locked"}
       /\ store' = [store EXCEPT
                      !.prompt[s] = IF Screens[s].content = "hold" /\ @ = "running"
                                    THEN "locked" ELSE "over"]
  /\ UNCHANGED <<flow, pages, self, frame, finger, result>>

AttachElapses ==
  /\ Shown /\ store.attach = "active"
  /\ store' = [store EXCEPT !.attach = "idle"]
  /\ UNCHANGED <<flow, pages, self, frame, finger, result>>

Next ==
  \/ TouchStart \/ TouchMove \/ TouchEnd \/ AnimFrame
  \/ LongTimerFires \/ TimeoutFires
  \/ SwipeElapses \/ PromptElapses \/ AttachElapses

Spec == Init /\ [][Next]_vars

-----------------------------------------------------------------------------
(* Properties.                                                             *)

(* Every word of a share is shown before the user can confirm the backup.  *)
(* SwipeFlow counts the pages of a screen itself and ShareWords counts its *)
(* words; they agree on the words, whatever way the user came to them, and *)
(* the confirmation is only reached from the last word.                    *)
WordsAllShown ==
  flow = "ShowShareWords" =>
    /\ self.state = "Words" => self.internal_state = store.shown["Words"]
    /\ self.state \in {"Confirm", "CheckBackupIntro"} \/ result # NoMessage =>
         store.shown["Words"] = pages["Words"] - 1

(* Swiping is only switched off while a hold prompt is being held or has   *)
(* locked and is about to confirm: whatever ends the hold (the finger      *)
(* leaves, is lifted or the touch is aborted), swipes work again.          *)
SwipingComesBack ==
  ~self.allow_swipe /\ Shown =>
    /\ Screen.content = "hold"
    /\ "prompt" \in store.pressed[self.state]
         \/ store.prompt[self.state] \in {"locked", "over"}

(* Nothing on the screen freezes: while a swipe animates, an attach        *)
(* animation is due or active, or a prompt that was tapped or is held      *)
(* waits for its time to be over, a frame is queued.  The animations have  *)
(* no timer of their own; a touch or a swipe that takes the event of one   *)
(* component must leave a frame for the others.  Prompts that are not in   *)
(* a SwipeContent request no frame when they are shown again.              *)
FramesKeepComing ==
  Shown /\ (\/ Animating(self.swipe) \/ store.attach # "idle"
            \/ Screen.blocked /\ store.prompt[self.state] # "stopped")
    => frame

(* "If a swipe is detected: currently active component is asked to handle  *)
(* the event, if it can't then FlowState::handle_swipe is consulted": a    *)
(* swipe of the user's leaves a screen with pages only when the screen     *)
(* itself cannot turn its page in that direction.                          *)
ComponentAskedFirst ==
  [][LET s == self.state
         left == self'.state # s \/ result' # result
     IN s \in Paged /\ left /\ self.decision_override = Nothing =>
          turn([type |-> "SwipeEnd", at |-> self.swipe.locked], s,
               store.shown[s]) = store.shown[s]]_vars
=============================================================================
