-------------------------- MODULE SwipeFlowProofs --------------------------
(* Theorems about SwipeFlow, for every number of pages and every flow that *)
(* is well formed (IsFlow); the one about the words of a backup is about   *)
(* the table of its flow, ShowShareWords.                                  *)
EXTENDS SwipeFlow, TLAPS

SwipeType ==
  [origin : BOOLEAN, locked : Directions \cup {"none"},
   final_animation : {"none", "forth", "back"}, elapsed : BOOLEAN]
Gotos == [type : {"Goto"}, to : DOMAIN Screens, dir : Directions]
SelfType ==
  [state : DOMAIN Screens, swipe : SwipeType, allow_swipe : BOOLEAN,
   internal_state : Int, decision_override : {Nothing} \cup Gotos]

Prompts == {"stopped", "running", "locked", "over"}
Touchables == {"button", "prompt"} \cup Messages
StoreType ==
  [shown : [Paged -> Nat], pressed : [DOMAIN Screens -> SUBSET Touchables],
   prompt : [DOMAIN Screens -> Prompts], attach : {"idle", "due", "active"}]

(* A prompt to tap is never locked, and what is no prompt has none.        *)
PromptFits(screen, prompt) ==
  /\ prompt \in Prompts
  /\ screen.content = "tap" => prompt # "locked"
  /\ screen.content \notin {"tap", "hold"} => prompt = "stopped"
PromptsFit(st) == \A s \in DOMAIN Screens : PromptFits(Screens[s], st.prompt[s])

(* The inductive invariant: types, and that a swipe only animates while    *)
(* swiping is allowed, so that its end is seen.                            *)
FlowOK ==
  /\ flow \in DOMAIN FLOWS
  /\ pages \in [Paged -> Nat \ {0}]
  /\ frame \in BOOLEAN
SelfOK == self \in SelfType /\ (Animating(self.swipe) => self.allow_swipe)
StoreOK == store \in StoreType /\ PromptsFit(store)
FlowInv ==
  FlowOK /\ SelfOK /\ StoreOK /\ SwipingComesBack /\ FramesKeepComing

-----------------------------------------------------------------------------
(* The tables.                                                             *)

LEMMA ScreensAreFrames ==
  ASSUME FlowOK
  PROVE  /\ IsFlow(FLOWS[flow])
         /\ \A s \in DOMAIN Screens : Screens[s] \in FrameType
BY SwipeFlowAssumption DEF FlowOK, IsFlow, Screens

(* What a table holds is a decision that leads to a screen of the flow.    *)
LEMMA DecisionsLead ==
  ASSUME FlowOK, NEW s, NEW x
  PROVE  /\ handle_swipe(FLOWS[flow], s, x) \in {Nothing} \cup Decisions(Screens)
         /\ handle_event(FLOWS[flow], s, x) \in {Nothing} \cup Decisions(Screens)
<1>1. /\ Entry(FLOWS[flow].swipes, s, x) \in {Nothing} \cup Decisions(Screens)
      /\ Entry(FLOWS[flow].events, s, x) \in {Nothing} \cup Decisions(Screens)
      /\ Entry(FLOWS[flow].events, "Any", x) \in {Nothing} \cup Decisions(Screens)
  BY ScreensAreFrames DEF Entry, IsFlow, Screens
<1> QED BY <1>1 DEF handle_swipe, handle_event

(* No table has an entry for no message.                                   *)
LEMMA NoMessageIgnored ==
  ASSUME FlowOK, NEW s
  PROVE  handle_event(FLOWS[flow], s, NoMessage) = Nothing
BY ScreensAreFrames DEF handle_event, Entry, IsFlow

LEMMA PromptsAnswered ==
  ASSUME FlowOK, NEW s \in DOMAIN Screens, Screens[s].content \in {"tap", "hold"}
  PROVE  handle_event(FLOWS[flow], s, Screens[s].says) # Nothing
BY ScreensAreFrames DEF IsFlow, Screens

LEMMA MessagesAreMessages == NoMessage \notin Messages
<1>1. \A i \in 1 .. 3 : Choices[i] \in {"Choice0", "Choice1", "Choice2"}
  BY DEF Choices
<1> QED BY <1>1 DEF NoMessage, Messages, VerticalMenu

LEMMA NothingIsNoDecision ==
  /\ Nothing.type = "Nothing"
  /\ \A d \in Decisions(Screens) :
       /\ d # Nothing /\ d.type \in {"Goto", "Return"}
       /\ d.type = "Goto" => d \in Gotos
       /\ d.type = "Return" => d.msg \in Messages
  /\ \A d \in Gotos : d \in Decisions(Screens)
BY DEF Nothing, Decisions, Gotos

-----------------------------------------------------------------------------
(* The detector.                                                           *)

LEMMA SwipeDetectOK == SwipeDetect \in SwipeType /\ ~Animating(SwipeDetect)
BY DEF SwipeDetect, SwipeType, Animating

LEMMA TriggerOK ==
  ASSUME NEW swipe \in SwipeType, NEW dir \in Directions
  PROVE  trigger(swipe, dir) \in SwipeType
BY DEF trigger, SwipeType

(* What the frames rely on.                                                *)
Frames(det, swipe, e) ==
  /\ Animating(det.swipe) => Animating(swipe) \/ det.frame = TRUE
  /\ Animating(swipe) /\ e.type = "AnimFrame" => det.frame = TRUE
  /\ det.msg = "Trigger" => det.frame = TRUE
  /\ ~Animating(swipe) /\ e.type = "AnimFrame" => det.msg = "None"
DetType ==
  [msg : {"None", "Trigger", "Move", "Start"},
   dir : Directions \cup {"none"}, swipe : SwipeType, frame : BOOLEAN]

LEMMA UndetectedOK ==
  ASSUME NEW swipe \in SwipeType, NEW e, ~Animating(swipe) \/ e.type # "AnimFrame"
  PROVE  Undetected(swipe) \in DetType /\ Frames(Undetected(swipe), swipe, e)
BY DEF Undetected, Detected, DetType, Frames

LEMMA AnimFrameOK ==
  ASSUME NEW swipe \in SwipeType, NEW e
  PROVE  /\ eval_anim_frame(swipe) \in DetType
         /\ Frames(eval_anim_frame(swipe), swipe, e)
<1>1. CASE ~Animating(swipe)
  <2>1. eval_anim_frame(swipe) = Undetected(swipe)
    BY <1>1 DEF eval_anim_frame
  <2> QED BY <1>1, <2>1, UndetectedOK
<1>2. CASE Animating(swipe) /\ ~swipe.elapsed
  <2>1. eval_anim_frame(swipe) = Detected("Move", swipe.locked, swipe, TRUE)
    BY <1>2 DEF eval_anim_frame
  <2> QED BY <1>2, <2>1 DEF Detected, DetType, Frames, SwipeType
<1>3. CASE Animating(swipe) /\ swipe.elapsed
  <2>1. PICK msg : msg = (IF swipe.final_animation = "forth" THEN "Trigger" ELSE "Move")
    OBVIOUS
  <2>2. PICK reset : reset = [SwipeDetect EXCEPT !.origin = swipe.origin]
    OBVIOUS
  <2>3. eval_anim_frame(swipe) = Detected(msg, swipe.locked, reset, TRUE)
    BY <1>3, <2>1, <2>2 DEF eval_anim_frame
  <2>4. reset \in SwipeType
    BY <2>2, SwipeDetectOK DEF SwipeType
  <2>5. msg \in {"Trigger", "Move"}
    BY <2>1
  <2> QED BY <1>3, <2>3, <2>4, <2>5 DEF Detected, DetType, Frames, SwipeType
<1> QED BY <1>1, <1>2, <1>3

LEMMA LockOK ==
  ASSUME NEW swipe \in SwipeType, ~Animating(swipe), NEW allowed \in SUBSET Directions,
         NEW det \in Lock(swipe, allowed), NEW e, e.type # "AnimFrame"
  PROVE  det \in DetType /\ Frames(det, swipe, e)
<1>1. CASE det = Undetected(swipe)
  BY <1>1, UndetectedOK
<1>2. ASSUME NEW dir \in allowed,
             det = Detected("Start", dir, [swipe EXCEPT !.locked = dir], FALSE)
      PROVE  det \in DetType /\ Frames(det, swipe, e)
  BY <1>2 DEF Detected, DetType, Frames, SwipeType, Animating
<1> QED BY <1>1, <1>2 DEF Lock

LEMMA LiftOK ==
  ASSUME NEW swipe \in SwipeType, ~Animating(swipe), NEW allowed,
         NEW det \in Lift(swipe, allowed), NEW e, e.type # "AnimFrame"
  PROVE  det \in DetType /\ Frames(det, swipe, e)
<1>1. PICK lifted : lifted = [swipe EXCEPT !.origin = FALSE]
  OBVIOUS
<1>2. lifted \in SwipeType /\ ~Animating(lifted)
  BY <1>1 DEF SwipeType, Animating
<1>3. CASE det = Undetected(lifted)
  BY <1>2, <1>3 DEF Undetected, Detected, DetType, Frames
<1>4. ASSUME NEW animation \in {"back", "forth"},
             det = Detected("None", "none",
                            [lifted EXCEPT !.final_animation = animation,
                                           !.elapsed = FALSE], TRUE)
      PROVE  det \in DetType /\ Frames(det, swipe, e)
  BY <1>2, <1>4 DEF Detected, DetType, Frames, SwipeType
<1> QED BY <1>1, <1>3, <1>4 DEF Lift

LEMMA SwipeEventOK ==
  ASSUME NEW swipe \in SwipeType, NEW allowed \in SUBSET Directions, NEW e,
         NEW det \in swipe_event(e, swipe, allowed)
  PROVE  det \in DetType /\ Frames(det, swipe, e)
<1>1. CASE e.type = "AnimFrame"
  <2>1. det = eval_anim_frame(swipe)
    BY <1>1, Zenon DEF swipe_event
  <2> QED BY <2>1, AnimFrameOK
<1>2. CASE e.type = "TouchStart"
  <2>1. PICK touched : touched = [swipe EXCEPT !.origin = TRUE]
    OBVIOUS
  <2>2. touched \in SwipeType /\ (~Animating(swipe) => ~Animating(touched))
    BY <2>1 DEF SwipeType, Animating
  <2>3. det = IF Animating(swipe) THEN eval_anim_frame(swipe)
              ELSE Undetected(touched)
    <3>1. e.type # "AnimFrame" /\ e.type \notin {"TouchMove", "TouchEnd"}
      BY <1>2
    <3> QED BY <1>2, <2>1, <3>1, Zenon DEF swipe_event
  <2>4. CASE Animating(swipe)
    BY <2>3, <2>4, AnimFrameOK
  <2>5. CASE ~Animating(swipe)
    BY <1>2, <2>2, <2>3, <2>5 DEF Undetected, Detected, DetType, Frames
  <2> QED BY <2>4, <2>5
<1>3. CASE e.type \in {"TouchMove", "TouchEnd"} /\ swipe.origin
  <2>1. det \in IF Animating(swipe) THEN {eval_anim_frame(swipe)}
                ELSE IF e.type = "TouchEnd" THEN Lift(swipe, allowed)
                ELSE IF swipe.locked = "none" THEN Lock(swipe, allowed)
                ELSE {Detected("Move", swipe.locked, swipe, FALSE)}
    <3>1. e.type # "AnimFrame" /\ e.type # "TouchStart"
      BY <1>3
    <3> QED BY <1>3, <3>1, Zenon DEF swipe_event
  <2>2. CASE Animating(swipe)
    BY <2>1, <2>2, AnimFrameOK
  <2>3. CASE ~Animating(swipe) /\ det \in Lift(swipe, allowed)
    BY <1>3, <2>3, LiftOK
  <2>4. CASE ~Animating(swipe) /\ det \in Lock(swipe, allowed)
    BY <1>3, <2>4, LockOK
  <2>5. CASE ~Animating(swipe) /\ det = Detected("Move", swipe.locked, swipe, FALSE)
    BY <1>3, <2>5 DEF Detected, DetType, Frames, SwipeType
  <2> QED BY <2>1, <2>2, <2>3, <2>4, <2>5
<1>4. CASE /\ e.type # "AnimFrame" /\ e.type # "TouchStart"
           /\ ~(e.type \in {"TouchMove", "TouchEnd"} /\ swipe.origin)
  <2>1. det = Undetected(swipe)
    BY <1>4, Zenon DEF swipe_event
  <2> QED BY <1>4, <2>1, UndetectedOK
<1> QED BY <1>1, <1>2, <1>3, <1>4

(* The directions that are allowed.                                        *)
LEMMA AllowedOK ==
  ASSUME FlowInv
  PROVE  get_swipe_config(store, self.state) \cup Turning \in SUBSET Directions
<1>1. self.state \in DOMAIN Screens /\ Screen \in FrameType
  BY ScreensAreFrames DEF FlowInv, SelfOK, SelfType, Screen
<1>2. get_swipe_config(store, self.state) \in SUBSET Directions
  BY <1>1 DEF get_swipe_config, FrameType, Screen
<1>3. Turning \in SUBSET Directions
  BY DEF Turning, Forth, Back, Directions
<1> QED BY <1>2, <1>3

LEMMA DetectOK ==
  ASSUME FlowInv, NEW e, NEW det \in Detect(e)
  PROVE  /\ det \in DetType /\ Frames(det, self.swipe, e)
         /\ ~self.allow_swipe => det = Undetected(self.swipe)
<1>1. self.swipe \in SwipeType /\ (Animating(self.swipe) => self.allow_swipe)
  BY DEF FlowInv, SelfOK, SelfType
<1>2. CASE self.allow_swipe
  BY <1>1, <1>2, AllowedOK, SwipeEventOK DEF Detect
<1>3. CASE ~self.allow_swipe
  BY <1>1, <1>3, UndetectedOK DEF Detect
<1> QED BY <1>2, <1>3

-----------------------------------------------------------------------------
(* The components.                                                         *)

Holding(prompt, pressed) ==
  "prompt" \in pressed \/ prompt \in {"locked", "over"}
AnswerType(screen) ==
  [prompt : {p \in Prompts : PromptFits(screen, p)}, msg : Messages \cup {NoMessage},
   swiping : {"same", "enable", "disable"}, frame : BOOLEAN]

(* What the properties rely on: a prompt that changes requests a frame, at *)
(* a frame a prompt that is not stopped requests another or says that it   *)
(* is done, and swiping is disabled only by a hold that lasts.             *)
Answers(c, e, screen, prompt, pressed) ==
  /\ c.prompt # prompt => c.frame = TRUE
  /\ e.type = "AnimFrame" /\ prompt # "stopped" =>
       c.frame = TRUE \/ c.msg = screen.says
  /\ c.swiping = "disable" =>
       screen.content = "hold" /\ "prompt" \in PressedAfter(e, screen, pressed)
  /\ /\ c.swiping = "same" /\ screen.content = "hold" /\ Holding(prompt, pressed)
     /\ e.type = "LongTimer" => prompt = "over"
     => Holding(c.prompt, PressedAfter(e, screen, pressed))

(* A frame leaves the buttons as they are.                                 *)
LEMMA FramesPressNothing ==
  ASSUME NEW e, e.type = "AnimFrame", NEW screen, NEW pressed
  PROVE  /\ PressedAfter(e, screen, pressed) = pressed
         /\ Clicked(e, screen, pressed) = {}
         /\ ~Blocked(e, screen)
<1>1. /\ e.type # "TouchStart" /\ e.type # "TouchMove" /\ e.type # "LongTimer"
      /\ e.type \notin {"TouchEnd", "TouchAbort"}
  OBVIOUS
<1>2. PressedAfter(e, screen, pressed) = pressed
  BY <1>1, Zenon DEF PressedAfter
<1> QED BY <1>1, <1>2 DEF Clicked, Blocked, IsTouch

LEMMA TapOK ==
  ASSUME NEW screen \in FrameType, screen.content = "tap", NEW prompt,
         PromptFits(screen, prompt), NEW e, NEW pressed, NEW c,
         c = tap_event(e, screen, prompt, pressed)
  PROVE  c \in AnswerType(screen) /\ Answers(c, e, screen, prompt, pressed)
<1>1. PICK clicked : clicked = ("prompt" \in Clicked(e, screen, pressed))
  OBVIOUS
<1>2. CASE clicked
  <2>1. c = Answer("running", NoMessage, "same", TRUE)
    BY <1>1, <1>2, Zenon DEF tap_event
  <2> QED BY <2>1 DEF Answer, AnswerType, Answers, PromptFits, Prompts
<1>3. CASE ~clicked /\ prompt = "over" /\ ~Blocked(e, screen)
  <2>1. c = Answer(prompt, screen.says, "enable", FALSE)
    BY <1>1, <1>3, Zenon DEF tap_event
  <2> QED BY <2>1 DEF Answer, AnswerType, Answers, PromptFits, FrameType
<1>4. CASE ~clicked /\ ~(prompt = "over" /\ ~Blocked(e, screen))
  <2>1. PICK f : f = (e.type = "AnimFrame" /\ prompt = "running")
    OBVIOUS
  <2>2. f \in BOOLEAN
    BY <2>1
  <2>3. c = Answer(prompt, NoMessage, "same", f)
    BY <1>1, <1>4, <2>1, Zenon DEF tap_event
  <2>4. e.type = "AnimFrame" /\ prompt # "stopped" => f = TRUE
    BY <1>4, <2>1, FramesPressNothing DEF PromptFits, Prompts
  <2> QED BY <2>2, <2>3, <2>4 DEF Answer, AnswerType, Answers, PromptFits
<1> QED BY <1>1, <1>2, <1>3, <1>4

LEMMA HoldOK ==
  ASSUME NEW screen \in FrameType, screen.content = "hold", NEW prompt,
         PromptFits(screen, prompt), NEW e, NEW pressed, NEW c,
         c = hold_event(e, screen, prompt, pressed)
  PROVE  c \in AnswerType(screen) /\ Answers(c, e, screen, prompt, pressed)
<1>1. PICK locked : locked = (prompt \in {"locked", "over"})
  OBVIOUS
<1>2. PICK held : held = ("prompt" \in pressed)
  OBVIOUS
<1>3. PICK holds : holds = ("prompt" \in PressedAfter(e, screen, pressed))
  OBVIOUS
<1>4. e.type = "AnimFrame" => held = holds
  BY <1>2, <1>3, FramesPressNothing
<1>5. CASE ~held /\ holds /\ ~locked
  <2>1. c = Answer("running", NoMessage, "disable", TRUE)
    <3>1. ~(e.type = "AnimFrame" /\ prompt = "over")
      BY <1>1, <1>5
    <3> QED BY <1>1, <1>2, <1>3, <1>5, <3>1, Zenon DEF hold_event
  <2>2. "prompt" \in PressedAfter(e, screen, pressed)
    BY <1>3, <1>5
  <2> QED BY <2>1, <2>2 DEF Answer, AnswerType, Answers, PromptFits, Prompts
<1>6. CASE held /\ ~holds /\ e.type = "LongTimer"
  <2>1. c = Answer(prompt, screen.says, "same", FALSE)
    <3>1. ~(e.type = "AnimFrame" /\ prompt = "over")
      BY <1>6
    <3> QED BY <1>1, <1>2, <1>3, <1>6, <3>1, Zenon DEF hold_event
  <2> QED BY <1>6, <2>1
          DEF Answer, AnswerType, Answers, PromptFits, FrameType, Holding
<1>7. CASE held /\ ~holds /\ e.type # "LongTimer" /\ ~locked
  <2>1. c = Answer("stopped", NoMessage, "enable", TRUE)
    <3>1. ~(e.type = "AnimFrame" /\ prompt = "over")
      BY <1>1, <1>7
    <3> QED BY <1>1, <1>2, <1>3, <1>7, <3>1, Zenon DEF hold_event
  <2> QED BY <2>1 DEF Answer, AnswerType, Answers, PromptFits, Prompts
<1>8. CASE e.type = "AnimFrame" /\ prompt = "over"
  <2>1. c = Answer(prompt, screen.says, "same", FALSE)
    <3>1. /\ ~(~held /\ holds /\ ~locked)
          /\ ~(held /\ ~holds /\ e.type = "LongTimer")
          /\ ~(held /\ ~holds /\ e.type # "LongTimer" /\ ~locked)
      BY <1>1, <1>4, <1>8
    <3> QED BY <1>1, <1>2, <1>3, <1>8, <3>1, Zenon DEF hold_event
  <2>2. Holding(prompt, PressedAfter(e, screen, pressed))
    BY <1>8 DEF Holding
  <2> QED BY <2>1, <2>2 DEF Answer, AnswerType, Answers, PromptFits, FrameType
<1>9. CASE /\ ~(~held /\ holds /\ ~locked)
           /\ ~(held /\ ~holds /\ e.type = "LongTimer")
           /\ ~(held /\ ~holds /\ e.type # "LongTimer" /\ ~locked)
           /\ ~(e.type = "AnimFrame" /\ prompt = "over")
  <2>1. PICK f : f = (e.type = "AnimFrame" /\ prompt \in {"running", "locked"})
    OBVIOUS
  <2>2. f \in BOOLEAN
    BY <2>1
  <2>3. c = Answer(prompt, NoMessage, "same", f)
    BY <1>1, <1>2, <1>3, <1>9, <2>1, Zenon DEF hold_event
  <2>4. e.type = "AnimFrame" /\ prompt # "stopped" => f = TRUE
    BY <1>9, <2>1 DEF PromptFits, Prompts
  <2>5. Holding(prompt, pressed) =>
          Holding(prompt, PressedAfter(e, screen, pressed))
    BY <1>1, <1>2, <1>3, <1>9 DEF Holding
  <2> QED BY <2>2, <2>3, <2>4, <2>5 DEF Answer, AnswerType, Answers, PromptFits
<1> QED BY <1>5, <1>6, <1>7, <1>8, <1>9

LEMMA ContentOK ==
  ASSUME NEW screen \in FrameType, NEW prompt, PromptFits(screen, prompt),
         NEW e, NEW pressed, NEW c,
         c = content_event(e, screen, prompt, pressed)
  PROVE  c \in AnswerType(screen) /\ Answers(c, e, screen, prompt, pressed)
<1>1. CASE screen.content = "tap"
  <2>1. c = tap_event(e, screen, prompt, pressed)
    <3>1. screen.content # "hold" /\ screen.content # "timeout" /\ screen.content # "number"
      BY <1>1
    <3> QED BY <1>1, <3>1, Zenon DEF content_event
  <2> QED BY <1>1, <2>1, TapOK
<1>2. CASE screen.content = "hold"
  <2>1. c = hold_event(e, screen, prompt, pressed)
    <3>1. screen.content # "tap" /\ screen.content # "timeout" /\ screen.content # "number"
      BY <1>2
    <3> QED BY <1>2, <3>1, Zenon DEF content_event
  <2> QED BY <1>2, <2>1, HoldOK
<1>3. CASE screen.content \notin {"tap", "hold"}
  <2>1. prompt = "stopped" /\ screen.says \in Messages /\ screen.items \subseteq Messages
    BY <1>3 DEF PromptFits, FrameType
  <2>2. \E msg \in Messages \cup {NoMessage} : c = Answer(prompt, msg, "same", FALSE)
    <3>1. screen.content # "tap" /\ screen.content # "hold"
      BY <1>3
    <3>2. CASE screen.content = "timeout" /\ e.type = "Timeout"
      <4>1. screen.content # "number"
        BY <3>2
      <4>2. c = Answer(prompt, screen.says, "same", FALSE)
        BY <3>1, <3>2, <4>1, Zenon DEF content_event
      <4> QED BY <2>1, <4>2
    <3>3. CASE screen.content = "number" /\ e.type = "SwipeEnd" /\ e.at = "Up"
      <4>1. screen.content # "timeout"
        BY <3>3
      <4>2. c = Answer(prompt, screen.says, "same", FALSE)
        BY <3>1, <3>3, <4>1, Zenon DEF content_event
      <4> QED BY <2>1, <4>2
    <3>4. CASE /\ ~(screen.content = "timeout" /\ e.type = "Timeout")
               /\ ~(screen.content = "number" /\ e.type = "SwipeEnd" /\ e.at = "Up")
      <4>1. PICK chosen : chosen = Clicked(e, screen, pressed) \cap screen.items
        OBVIOUS
      <4>2. PICK msg : msg = IF chosen = {} THEN NoMessage ELSE CHOOSE x \in chosen : TRUE
        OBVIOUS
      <4>3. msg \in Messages \cup {NoMessage}
        BY <2>1, <4>1, <4>2
      <4>4. c = Answer(prompt, msg, "same", FALSE)
        BY <3>1, <3>4, <4>1, <4>2, Zenon DEF content_event
      <4> QED BY <4>3, <4>4
    <3> QED BY <3>2, <3>3, <3>4
  <2>3. PICK msg \in Messages \cup {NoMessage} : c = Answer(prompt, msg, "same", FALSE)
    BY <2>2
  <2>4. c \in AnswerType(screen)
    BY <2>3 DEF Answer, AnswerType, PromptFits
  <2>5. c.prompt = prompt /\ c.swiping = "same"
    BY <2>3 DEF Answer
  <2> QED BY <1>3, <2>1, <2>4, <2>5 DEF Answers
<1> QED BY <1>1, <1>2, <1>3

LEMMA PressedOK ==
  ASSUME NEW screen \in FrameType, NEW e, NEW pressed \in SUBSET Touchables
  PROVE  PressedAfter(e, screen, pressed) \in SUBSET Touchables
<1>1. Reached(e, screen) \in SUBSET Touchables
  BY DEF Reached, Buttons, FrameType, Touchables
<1>2. PressedAfter(e, screen, pressed) \subseteq pressed \cup Reached(e, screen)
  <2>1. CASE e.type = "TouchStart"
    <3>1. /\ e.type # "TouchMove" /\ e.type # "LongTimer"
          /\ e.type \notin {"TouchEnd", "TouchAbort"}
      BY <2>1
    <3>2. PressedAfter(e, screen, pressed) = pressed \cup ({e.at} \cap Reached(e, screen))
      BY <2>1, <3>1, Zenon DEF PressedAfter
    <3> QED BY <3>2
  <2>2. CASE e.type = "TouchMove"
    <3>1. /\ e.type # "TouchStart" /\ e.type # "LongTimer"
          /\ e.type \notin {"TouchEnd", "TouchAbort"}
      BY <2>2
    <3>2. PressedAfter(e, screen, pressed) = pressed \ (Reached(e, screen) \ {e.at})
      BY <2>2, <3>1, Zenon DEF PressedAfter
    <3> QED BY <3>2
  <2>3. CASE e.type \in {"TouchEnd", "TouchAbort"}
    <3>1. e.type # "TouchStart" /\ e.type # "TouchMove" /\ e.type # "LongTimer"
      BY <2>3
    <3>2. PressedAfter(e, screen, pressed) = pressed \ Reached(e, screen)
      BY <2>3, <3>1, Zenon DEF PressedAfter
    <3> QED BY <3>2
  <2>4. CASE e.type = "LongTimer"
    <3>1. /\ e.type # "TouchStart" /\ e.type # "TouchMove"
          /\ e.type \notin {"TouchEnd", "TouchAbort"}
      BY <2>4
    <3>2. PressedAfter(e, screen, pressed) = pressed \ {"prompt"}
      BY <2>4, <3>1, Zenon DEF PressedAfter
    <3> QED BY <3>2
  <2>5. CASE /\ e.type # "TouchStart" /\ e.type # "TouchMove" /\ e.type # "LongTimer"
             /\ e.type \notin {"TouchEnd", "TouchAbort"}
    <3>1. PressedAfter(e, screen, pressed) = pressed
      BY <2>5, Zenon DEF PressedAfter
    <3> QED BY <3>1
  <2> QED BY <2>1, <2>2, <2>3, <2>4, <2>5
<1> QED BY <1>1, <1>2

LEMMA TurnOK ==
  ASSUME NEW e, NEW s, NEW page \in Nat
  PROVE  turn(e, s, page) \in Nat
<1>1. PICK axis : axis = Screens[s].axis
  OBVIOUS
<1>2. PICK forth : forth = (axis # "none" /\ e.type = "SwipeEnd" /\ e.at = Forth(axis))
  OBVIOUS
<1>3. PICK back : back = (axis # "none" /\ e.type = "SwipeEnd" /\ e.at = Back(axis))
  OBVIOUS
<1>4. ~(forth /\ back)
  BY <1>2, <1>3 DEF Forth, Back
<1>5. \/ turn(e, s, page) = IF page + 1 < pages[s] THEN page + 1 ELSE page
      \/ turn(e, s, page) = IF page > 0 THEN page - 1 ELSE 0
      \/ turn(e, s, page) = page
  <2>1. CASE forth
    BY <1>1, <1>2, <1>3, <1>4, <2>1, Zenon DEF turn
  <2>2. CASE back
    BY <1>1, <1>2, <1>3, <1>4, <2>2, Zenon DEF turn
  <2>3. CASE ~forth /\ ~back
    BY <1>1, <1>2, <1>3, <2>3, Zenon DEF turn
  <2> QED BY <2>1, <2>2, <2>3
<1> QED BY <1>5

(* FlowStore::event.                                                       *)
ChildType ==
  [store : StoreType, msg : Messages \cup {NoMessage},
   swiping : {"same", "enable", "disable"}, frame : BOOLEAN]
Serves(child, e) ==
  LET s == self.state
  IN /\ PromptsFit(child.store)
     /\ child.store.prompt[s] # store.prompt[s] => child.frame = TRUE
     /\ e.type = "AnimFrame" /\ store.prompt[s] # "stopped" =>
          child.frame = TRUE \/ child.msg = Screen.says
     /\ e.type = "AnimFrame" /\ store.attach # "idle" => child.frame = TRUE
     /\ child.store.attach # "idle" => store.attach # "idle"
     /\ child.swiping = "disable" =>
          Screen.content = "hold" /\ "prompt" \in child.store.pressed[s]
     /\ /\ child.swiping = "same" /\ Screen.content = "hold"
        /\ Holding(store.prompt[s], store.pressed[s])
        /\ e.type = "LongTimer" => store.prompt[s] = "over"
        => Holding(child.store.prompt[s], child.store.pressed[s])

LEMMA StoreEventOK ==
  ASSUME FlowInv, NEW e, NEW child, child = store_event(e, self.state)
  PROVE  child \in ChildType /\ Serves(child, e)
<1> DEFINE s == self.state
<1>1. s \in DOMAIN Screens /\ Screens[s] \in FrameType /\ Screen = Screens[s]
  BY ScreensAreFrames DEF FlowInv, SelfOK, SelfType, Screen
<1>2. /\ store \in StoreType /\ PromptsFit(store) /\ store.pressed[s] \in SUBSET Touchables
      /\ PromptFits(Screens[s], store.prompt[s])
  BY <1>1 DEF FlowInv, StoreOK, StoreType, PromptsFit
<1>3. PICK c : c = content_event(e, Screens[s], store.prompt[s], store.pressed[s])
  OBVIOUS
<1>4. c \in AnswerType(Screens[s]) /\ Answers(c, e, Screens[s], store.prompt[s], store.pressed[s])
  BY <1>1, <1>2, <1>3, ContentOK
<1>5. PICK after : after = PressedAfter(e, Screens[s], store.pressed[s])
  OBVIOUS
<1>6. after \in SUBSET Touchables
  BY <1>1, <1>2, <1>5, PressedOK
<1>7. PICK pressed : pressed = IF c.msg # NoMessage
                               THEN after \cup (store.pressed[s] \cap Unasked(c.msg))
                               ELSE after
  OBVIOUS
<1>8. pressed \in SUBSET Touchables /\ after \subseteq pressed
  BY <1>2, <1>6, <1>7
<1>9. PICK shown : shown = [store.shown EXCEPT ![s] = turn(e, s, @)]
  OBVIOUS
<1>10. shown \in [Paged -> Nat]
  <2>1. store.shown \in [Paged -> Nat]
    BY <1>2 DEF StoreType
  <2>2. s \in Paged => turn(e, s, store.shown[s]) \in Nat
    BY <2>1, TurnOK
  <2> QED BY <1>9, <2>1, <2>2
<1>11. PICK msg : msg = IF ~(c.msg # NoMessage)
                           /\ "button" \in Clicked(e, Screens[s], store.pressed[s])
                        THEN Screens[s].button ELSE c.msg
  OBVIOUS
<1>12. msg \in Messages \cup {NoMessage} /\ (c.msg # NoMessage => msg = c.msg)
  BY <1>1, <1>4, <1>11 DEF FrameType, AnswerType
<1>13. PICK st : st = [shown |-> shown,
                       pressed |-> [store.pressed EXCEPT ![s] = pressed],
                       prompt |-> [store.prompt EXCEPT ![s] = c.prompt],
                       attach |-> Attached(store.attach, e)]
  OBVIOUS
<1>14. PICK f : f = (c.frame \/ (e.type = "AnimFrame" /\ store.attach # "idle"))
  OBVIOUS
<1>15. child = [store |-> st, msg |-> msg, swiping |-> c.swiping, frame |-> f]
  BY <1>3, <1>5, <1>7, <1>9, <1>11, <1>13, <1>14 DEF store_event
<1>16. /\ Attached(store.attach, e) \in {"idle", "due", "active"}
       /\ Attached(store.attach, e) # "idle" => store.attach # "idle"
  BY <1>2 DEF Attached, StoreType
<1>17. c.prompt \in Prompts /\ PromptFits(Screens[s], c.prompt)
  BY <1>4 DEF AnswerType
<1>18. st \in StoreType
  <2>1. [store.pressed EXCEPT ![s] = pressed] \in [DOMAIN Screens -> SUBSET Touchables]
    BY <1>2, <1>8 DEF StoreType
  <2>2. [store.prompt EXCEPT ![s] = c.prompt] \in [DOMAIN Screens -> Prompts]
    BY <1>2, <1>17 DEF StoreType
  <2> QED BY <1>10, <1>13, <1>16, <2>1, <2>2 DEF StoreType
<1>19. st.prompt[s] = c.prompt /\ st.pressed[s] = pressed
  BY <1>1, <1>2, <1>13 DEF StoreType
<1>20. PromptsFit(st)
  <2>1. \A t \in DOMAIN Screens : t # s => st.prompt[t] = store.prompt[t]
    BY <1>2, <1>13 DEF StoreType
  <2> QED BY <1>2, <1>17, <1>19, <2>1 DEF PromptsFit
<1>21. f \in BOOLEAN /\ (c.frame = TRUE => f = TRUE)
       /\ (e.type = "AnimFrame" /\ store.attach # "idle" => f = TRUE)
  BY <1>4, <1>14 DEF AnswerType
<1>22. child \in ChildType
  BY <1>4, <1>12, <1>15, <1>18, <1>21 DEF ChildType, AnswerType
<1>23. /\ child.store = st /\ child.msg = msg /\ child.swiping = c.swiping
       /\ child.frame = f
  BY <1>15
<1>24. st.attach # "idle" => store.attach # "idle"
  BY <1>13, <1>16
<1>25. e.type = "AnimFrame" /\ store.prompt[s] # "stopped" =>
         f = TRUE \/ msg = Screens[s].says
  BY <1>1, <1>4, <1>12, <1>21, MessagesAreMessages DEF Answers, FrameType
<1>26. /\ st.prompt[s] # store.prompt[s] => f = TRUE
       /\ c.swiping = "disable" => Screens[s].content = "hold" /\ "prompt" \in st.pressed[s]
  BY <1>4, <1>5, <1>8, <1>19, <1>21 DEF Answers
<1>27. /\ c.swiping = "same" /\ Screens[s].content = "hold"
       /\ Holding(store.prompt[s], store.pressed[s])
       /\ e.type = "LongTimer" => store.prompt[s] = "over"
       => Holding(st.prompt[s], st.pressed[s])
  BY <1>4, <1>5, <1>8, <1>19 DEF Answers, Holding
<1> QED BY <1>1, <1>20, <1>21, <1>22, <1>23, <1>24, <1>25, <1>26, <1>27 DEF Serves

-----------------------------------------------------------------------------
(* The flow.                                                               *)

(* The new state is good when it shows the same screen of the same flow    *)
(* and the two properties hold of it.                                      *)
LEMMA SameTypes ==
  ASSUME UNCHANGED <<flow, pages>>
  PROVE  /\ Screens' = Screens /\ Paged' = Paged
         /\ SelfType' = SelfType /\ StoreType' = StoreType /\ Gotos' = Gotos
         /\ \A st : PromptsFit(st) = (\A s \in DOMAIN Screens' :
                                        PromptFits(Screens'[s], st.prompt[s]))
<1>1. Screens' = Screens
  BY DEF Screens
<1> QED BY <1>1 DEF Paged, SelfType, StoreType, Gotos, PromptsFit

(* What a step that goes on on the same screen must leave behind.          *)
Kept(me, st, pending) ==
  LET s == me.state
  IN /\ \/ Animating(me.swipe) \/ st.attach # "idle"
        \/ Screens[s].blocked /\ st.prompt[s] # "stopped"
        => pending
     /\ ~me.allow_swipe =>
          Screens[s].content = "hold" /\ Holding(st.prompt[s], st.pressed[s])

Good(me, st) ==
  /\ me \in SelfType /\ (Animating(me.swipe) => me.allow_swipe)
  /\ st \in StoreType /\ PromptsFit(st)

LEMMA GoodStep ==
  ASSUME FlowOK, UNCHANGED <<flow, pages>>, Good(self', store'), frame' \in BOOLEAN,
         result' = NoMessage => Kept(self', store', frame')
  PROVE  FlowInv'
<1>1. FlowOK'
  BY SameTypes DEF FlowOK
<1>2. SelfOK'
  BY SameTypes DEF SelfOK, Good
<1>3. StoreOK'
  BY SameTypes DEF StoreOK, Good, PromptsFit
<1>4. (Shown)' = (result' = NoMessage) /\ (Screen)' = Screens[self'.state]
  BY SameTypes DEF Shown, Screen
<1>5. SwipingComesBack'
  BY <1>4 DEF SwipingComesBack, Kept, Holding
<1>6. FramesKeepComing'
  BY <1>4 DEF FramesKeepComing, Kept
<1> QED BY <1>1, <1>2, <1>3, <1>5, <1>6 DEF FlowInv

LEMMA PageCountOK ==
  ASSUME FlowOK, NEW s
  PROVE  get_internal_page_count(s) \in Nat \ {0}
BY DEF FlowOK, get_internal_page_count

LEMMA GotoOK ==
  ASSUME FlowOK, NEW me \in SelfType, NEW s \in DOMAIN Screens, NEW dir
  PROVE  /\ goto(me, s, dir) \in SelfType
         /\ ~Animating(goto(me, s, dir).swipe) /\ goto(me, s, dir).allow_swipe
         /\ goto(me, s, dir).state = s
<1>1. PICK n : n = CASE dir = "Up" -> 0
                     [] dir = "Down" -> get_internal_page_count(s) - 1
                     [] OTHER -> me.internal_state
  OBVIOUS
<1>2. n \in Int
  <2>1. get_internal_page_count(s) - 1 \in Int /\ me.internal_state \in Int
    BY PageCountOK DEF SelfType
  <2>2. CASE dir = "Up"
    <3>1. dir # "Down"
      BY <2>2
    <3>2. n = 0
      BY <1>1, <2>2, <3>1, Zenon
    <3> QED BY <3>2
  <2>3. CASE dir = "Down"
    <3>1. dir # "Up"
      BY <2>3
    <3>2. n = get_internal_page_count(s) - 1
      BY <1>1, <2>3, <3>1, Zenon
    <3> QED BY <2>1, <3>2
  <2>4. CASE dir # "Up" /\ dir # "Down"
    <3>1. n = me.internal_state
      BY <1>1, <2>4, Zenon
    <3> QED BY <2>1, <3>1
  <2> QED BY <2>2, <2>3, <2>4
<1>3. PICK nobody : nobody = SwipeDetect
  OBVIOUS
<1>4. goto(me, s, dir) = [me EXCEPT !.state = s, !.swipe = nobody,
                                    !.allow_swipe = TRUE, !.internal_state = n]
  BY <1>1, <1>3 DEF goto
<1> QED BY <1>2, <1>3, <1>4, SwipeDetectOK DEF SelfType

LEMMA AttachOK ==
  ASSUME FlowOK, NEW st \in StoreType, PromptsFit(st), NEW s \in DOMAIN Screens
  PROVE  /\ attach_event(st, s) \in StoreType /\ PromptsFit(attach_event(st, s))
         /\ attach_event(st, s).shown = st.shown
         /\ attach_event(st, s).pressed = st.pressed
         /\ attach_event(st, s).prompt = st.prompt
         /\ ~Screens[s].blocked => attach_event(st, s).attach = "idle"
<1>1. PICK a : a = IF Screens[s].blocked THEN "due" ELSE "idle"
  OBVIOUS
<1>2. attach_event(st, s) = [st EXCEPT !.attach = a]
  BY <1>1 DEF attach_event
<1>3. /\ attach_event(st, s) \in StoreType
      /\ attach_event(st, s).shown = st.shown
      /\ attach_event(st, s).pressed = st.pressed
      /\ attach_event(st, s).prompt = st.prompt
      /\ ~Screens[s].blocked => attach_event(st, s).attach = "idle"
  BY <1>1, <1>2 DEF StoreType
<1> QED BY <1>3 DEF PromptsFit

LEMMA DecideOK ==
  ASSUME FlowOK, UNCHANGED <<flow, pages>>, Shown,
         NEW decision \in {Nothing} \cup Decisions(Screens),
         NEW me, NEW st, Good(me, st), NEW pending \in BOOLEAN,
         decision = Nothing => Kept(me, st, pending),
         Decide(decision, me, st, pending)
  PROVE  FlowInv'
<1>1. CASE decision.type = "Goto"
  <2>1. decision.to \in DOMAIN Screens
    BY <1>1, NothingIsNoDecision DEF Gotos
  <2>2. decision.type # "Return"
    BY <1>1
  <2>3. /\ self' = goto(me, decision.to, decision.dir)
        /\ store' = attach_event(st, decision.to)
        /\ frame' = (pending \/ Screens[decision.to].blocked
                     \/ Screens[decision.to].content = "timeout")
    BY <1>1, <2>2, Zenon DEF Decide
  <2>4. /\ Screens[decision.to].blocked => frame' = TRUE
        /\ frame' \in BOOLEAN
    BY <2>1, <2>3, ScreensAreFrames DEF FrameType
  <2>5. Good(self', store')
    BY <2>1, <2>3, GotoOK, AttachOK DEF Good
  <2>6. Kept(self', store', frame')
    BY <2>1, <2>3, <2>4, GotoOK, AttachOK DEF Good, Kept
  <2> QED BY <2>4, <2>5, <2>6, GoodStep
<1>2. CASE decision.type = "Return"
  <2>1. decision.type # "Goto"
    BY <1>2
  <2>2. /\ self' = [me EXCEPT !.swipe = SwipeDetect, !.allow_swipe = TRUE]
        /\ store' = st /\ frame' = pending /\ result' = decision.msg
    BY <1>2, <2>1, Zenon DEF Decide
  <2>3. result' # NoMessage
    BY <1>2, <2>2, NothingIsNoDecision, MessagesAreMessages
  <2>4. PICK nobody : nobody = SwipeDetect
    OBVIOUS
  <2>5. self' = [me EXCEPT !.swipe = nobody, !.allow_swipe = TRUE]
    BY <2>2, <2>4
  <2>6. Good(self', store')
    BY <2>2, <2>4, <2>5, SwipeDetectOK DEF Good, SelfType
  <2> QED BY <2>2, <2>3, <2>6, GoodStep
<1>3. CASE decision.type # "Goto" /\ decision.type # "Return"
  <2>1. self' = me /\ store' = st /\ frame' = pending /\ result' = result
    BY <1>3, Zenon DEF Decide
  <2>2. decision = Nothing
    BY <1>3, NothingIsNoDecision
  <2> QED BY <2>1, <2>2, GoodStep
<1> QED BY <1>1, <1>2, <1>3

LEMMA AnimateOK ==
  ASSUME FlowOK, UNCHANGED <<flow, pages>>, Shown, NEW decision \in Gotos,
         NEW me, NEW st, Good(me, st), Animate(decision, me, st)
  PROVE  FlowInv'
<1>1. PICK swipe : swipe = trigger(me.swipe, decision.dir)
  OBVIOUS
<1>2. PICK on : on = [me EXCEPT !.swipe = swipe, !.decision_override = decision,
                                !.allow_swipe = TRUE]
  OBVIOUS
<1>3. swipe \in SwipeType
  BY <1>1, TriggerOK DEF Good, SelfType, Gotos
<1>4. Good(on, st) /\ on.allow_swipe
  BY <1>2, <1>3 DEF Good, SelfType
<1>5. Decide(Nothing, on, st, TRUE)
  BY <1>1, <1>2 DEF Animate
<1>6. Kept(on, st, TRUE)
  BY <1>4 DEF Kept
<1> QED BY <1>4, <1>5, <1>6, DecideOK

LEMMA ConsultOK ==
  ASSUME FlowOK, UNCHANGED <<flow, pages>>, Shown,
         NEW decision \in {Nothing} \cup Decisions(Screens),
         NEW me, NEW st, Good(me, st), NEW pending \in BOOLEAN,
         decision = Nothing => Kept(me, st, pending),
         Consult(decision, me, st, pending)
  PROVE  FlowInv'
<1>1. CASE /\ decision.type = "Goto"
           /\ decision.dir \in get_swipe_config(st, self.state)
  <2>1. decision \in Gotos
    BY <1>1, NothingIsNoDecision
  <2> QED BY <1>1, <2>1, AnimateOK DEF Consult
<1>2. CASE ~(/\ decision.type = "Goto"
             /\ decision.dir \in get_swipe_config(st, self.state))
  BY <1>2, DecideOK DEF Consult
<1> QED BY <1>1, <1>2

LEMMA SwipedOK ==
  ASSUME FlowInv, NEW e, NEW det \in Detect(e)
  PROVE  /\ Swiped(det) \in SelfType
         /\ Swiped(det).swipe = det.swipe /\ Swiped(det).state = self.state
         /\ Swiped(det).allow_swipe = self.allow_swipe
         /\ Swiped(det).decision_override
              = IF det.msg = "Trigger" THEN Nothing ELSE self.decision_override
         /\ Swiped(det).internal_state
              = IF ~Turns(det) THEN self.internal_state
                ELSE IF det.dir = Forth(Screen.axis) THEN self.internal_state + 1
                ELSE self.internal_state - 1
         /\ Animating(det.swipe) => self.allow_swipe
<1>1. self \in SelfType /\ (Animating(self.swipe) => self.allow_swipe)
  BY DEF FlowInv, SelfOK
<1>2. PICK over : over = IF det.msg = "Trigger" THEN Nothing ELSE self.decision_override
  OBVIOUS
<1>3. PICK n : n = IF ~Turns(det) THEN self.internal_state
                   ELSE IF det.dir = Forth(Screen.axis) THEN self.internal_state + 1
                   ELSE self.internal_state - 1
  OBVIOUS
<1>4. Swiped(det) = [self EXCEPT !.swipe = det.swipe, !.decision_override = over,
                                 !.internal_state = n]
  BY <1>2, <1>3 DEF Swiped
<1>5. det.swipe \in SwipeType
  BY DetectOK DEF DetType
<1>6. over \in {Nothing} \cup Gotos /\ n \in Int
  BY <1>1, <1>2, <1>3 DEF SelfType
<1>7. Animating(det.swipe) => self.allow_swipe
  BY <1>1, DetectOK DEF Undetected, Detected
<1> QED BY <1>1, <1>2, <1>3, <1>4, <1>5, <1>6, <1>7 DEF SelfType

LEMMA RequestedOK ==
  ASSUME NEW me \in SelfType, Animating(me.swipe) => me.allow_swipe,
         NEW swiping \in {"same", "enable", "disable"}
  PROVE  /\ Requested(me, swiping) \in SelfType
         /\ Animating(Requested(me, swiping).swipe) =>
              Requested(me, swiping).allow_swipe /\ swiping = "same"
         /\ Requested(me, swiping).state = me.state
         /\ Requested(me, swiping).internal_state = me.internal_state
         /\ Requested(me, swiping).decision_override = me.decision_override
         /\ swiping = "same" => Requested(me, swiping) = me
         /\ swiping = "enable" => Requested(me, swiping).allow_swipe
<1>1. CASE swiping = "same"
  BY <1>1 DEF Requested
<1>2. CASE swiping # "same"
  <2>1. PICK nobody : nobody = SwipeDetect
    OBVIOUS
  <2>2. PICK on : on = (swiping = "enable")
    OBVIOUS
  <2>3. Requested(me, swiping) = [me EXCEPT !.swipe = nobody, !.allow_swipe = on]
    BY <1>2, <2>1, <2>2 DEF Requested
  <2>4. on \in BOOLEAN /\ (swiping = "enable" => on = TRUE)
    BY <2>2
  <2> QED BY <1>2, <2>1, <2>3, <2>4, SwipeDetectOK DEF SelfType
<1> QED BY <1>1, <1>2

LEMMA SentOK ==
  ASSUME NEW e, NEW det \in DetType
  PROVE  /\ det.msg = "None" => Sent(e, det) = e
         /\ det.msg = "Trigger" => Sent(e, det) = [type |-> "SwipeEnd", at |-> det.dir]
         /\ det.msg \notin {"None", "Trigger"} =>
              Sent(e, det).type \in {"SwipeMove", "TouchAbort"}
<1>1. det.msg \in {"None", "Trigger", "Move", "Start"}
  BY DEF DetType
<1>2. CASE det.msg = "None"
  <2>1. det.msg # "Trigger" /\ det.msg # "Move" /\ det.msg # "Start"
    BY <1>2
  <2>2. Sent(e, det) = e
    BY <2>1, Zenon DEF Sent
  <2> QED BY <1>2, <2>2
<1>3. CASE det.msg = "Trigger"
  <2>1. det.msg # "Move" /\ det.msg # "Start"
    BY <1>3
  <2>2. Sent(e, det) = [type |-> "SwipeEnd", at |-> det.dir]
    BY <1>3, <2>1, Zenon DEF Sent
  <2> QED BY <1>3, <2>2
<1>4. CASE det.msg = "Move"
  <2>1. det.msg # "Trigger" /\ det.msg # "Start"
    BY <1>4
  <2>2. Sent(e, det) = [type |-> "SwipeMove", at |-> det.dir]
    BY <1>4, <2>1, Zenon DEF Sent
  <2> QED BY <1>4, <2>2
<1>5. CASE det.msg = "Start"
  <2>1. det.msg # "Trigger" /\ det.msg # "Move"
    BY <1>5
  <2>2. Sent(e, det) = [type |-> "TouchAbort", at |-> "none"]
    BY <1>5, <2>1, Zenon DEF Sent
  <2> QED BY <1>5, <2>2
<1> QED BY <1>1, <1>2, <1>3, <1>4, <1>5

(* Going on on the same screen: the frames and the hold.                   *)
LEMMA StaysGood ==
  ASSUME FlowInv, Shown, NEW e, NEW queued \in BOOLEAN,
         e.type # "AnimFrame" => queued = frame,
         e.type = "LongTimer" => store.prompt[self.state] = "over",
         NEW det \in Detect(e), NEW child, child = store_event(Sent(e, det), self.state),
         NEW pending, pending = (queued \/ det.frame \/ child.frame),
         NEW st, st = IF Turns(det) THEN attach_event(child.store, self.state)
                      ELSE child.store,
         handle_event(FLOWS[flow], self.state, child.msg) = Nothing
  PROVE  Kept(Requested(Swiped(det), child.swiping), st, pending)
<1> DEFINE s == self.state
           me == Requested(Swiped(det), child.swiping)
<1>1. det \in DetType /\ Frames(det, self.swipe, e)
  BY DetectOK
<1>2. child \in ChildType /\ Serves(child, Sent(e, det))
  BY StoreEventOK
<1>3. s \in DOMAIN Screens /\ FlowOK /\ frame \in BOOLEAN
  BY DEF FlowInv, SelfOK, SelfType, FlowOK
<1>4. /\ st.prompt = child.store.prompt /\ st.pressed = child.store.pressed
      /\ ~Turns(det) => st = child.store
  <2>1. child.store \in StoreType /\ PromptsFit(child.store)
    BY <1>2 DEF ChildType, Serves
  <2> QED BY <1>3, <2>1, AttachOK
<1>5. /\ me.state = s
      /\ Animating(me.swipe) => Animating(det.swipe)
      /\ ~me.allow_swipe => \/ child.swiping = "disable"
                            \/ child.swiping = "same" /\ ~self.allow_swipe
  <2>1. child.swiping \in {"same", "enable", "disable"}
    BY <1>2 DEF ChildType
  <2>2. PICK on : on = Swiped(det)
    OBVIOUS
  <2>3. /\ on \in SelfType /\ (Animating(on.swipe) => on.allow_swipe)
        /\ on.state = s /\ on.swipe = det.swipe
        /\ on.allow_swipe = self.allow_swipe
    BY <2>2, SwipedOK
  <2>4. me = Requested(on, child.swiping)
    BY <2>2
  <2> QED BY <2>1, <2>3, <2>4, RequestedOK
<1>6. Sent(e, det).type = "AnimFrame" => e.type = "AnimFrame"
  BY <1>1, SentOK
<1>7. /\ Animating(self.swipe) => frame
      /\ store.attach # "idle" => frame
      /\ Screens[s].blocked /\ store.prompt[s] # "stopped" => frame
  BY DEF FlowInv, FramesKeepComing, Screen
<1>8. /\ queued = TRUE => pending = TRUE
      /\ det.frame = TRUE => pending = TRUE
      /\ child.frame = TRUE => pending = TRUE
  OBVIOUS
<1>9. ASSUME \/ Animating(me.swipe) \/ st.attach # "idle"
             \/ Screens[s].blocked /\ st.prompt[s] # "stopped"
      PROVE  pending
  <2>1. CASE det.frame = TRUE \/ child.frame = TRUE
    BY <1>8, <2>1
  <2>2. CASE det.frame # TRUE /\ child.frame # TRUE
    <3>1. ~Turns(det) /\ st = child.store
      BY <1>1, <1>4, <2>2 DEF Turns, Frames
    <3>2. /\ Animating(me.swipe) => Animating(self.swipe)
          /\ st.attach # "idle" => store.attach # "idle"
          /\ st.prompt[s] = store.prompt[s]
      BY <1>1, <1>2, <1>5, <2>2, <3>1 DEF Frames, Serves
    <3>3. CASE e.type # "AnimFrame"
      <4>1. frame
        BY <1>7, <1>9, <3>2
      <4> QED BY <1>3, <1>8, <3>3, <4>1
    <3>4. CASE e.type = "AnimFrame"
      <4>1. ~Animating(self.swipe) /\ det.msg = "None" /\ Sent(e, det) = e
        BY <1>1, <2>2, <3>4, SentOK DEF Frames
      <4>2. store.attach = "idle"
        BY <1>2, <2>2, <3>4, <4>1 DEF Serves
      <4>3. store.prompt[s] # "stopped" /\ child.msg = Screens[s].says
        BY <1>2, <1>9, <2>2, <3>2, <3>4, <4>1, <4>2 DEF Serves, Screen
      <4>4. Screens[s].content \in {"tap", "hold"}
        BY <1>3, <4>3 DEF FlowInv, StoreOK, PromptsFit, PromptFits
      <4> QED BY <1>3, <4>3, <4>4, PromptsAnswered
    <3> QED BY <3>3, <3>4
  <2> QED BY <2>1, <2>2
<1>10. ASSUME ~me.allow_swipe
       PROVE  Screens[s].content = "hold" /\ Holding(st.prompt[s], st.pressed[s])
  <2>1. CASE child.swiping = "disable"
    BY <1>2, <1>4, <2>1 DEF Serves, Screen, Holding
  <2>2. CASE child.swiping = "same" /\ ~self.allow_swipe
    <3>1. Screens[s].content = "hold" /\ Holding(store.prompt[s], store.pressed[s])
      BY <2>2 DEF FlowInv, SwipingComesBack, Screen, Holding
    <3>2. det = Undetected(self.swipe)
      BY <2>2, DetectOK
    <3>3. Sent(e, det) = e
      BY <1>1, <3>2, SentOK DEF Undetected, Detected
    <3> QED BY <1>2, <1>4, <2>2, <3>1, <3>3 DEF Serves, Screen
  <2> QED BY <1>5, <1>10, <2>1, <2>2
<1> QED BY <1>5, <1>9, <1>10 DEF Kept

LEMMA EventOK ==
  ASSUME FlowInv, UNCHANGED <<flow, pages>>, Shown, NEW e, NEW queued \in BOOLEAN,
         e.type # "AnimFrame" => queued = frame,
         e.type = "LongTimer" => store.prompt[self.state] = "over",
         event(e, queued)
  PROVE  FlowInv'
<1>1. PICK det \in Detect(e) :
        \E decision \in {SwipeDecision(det)} :
          \E child \in {store_event(IF decision = Nothing THEN Sent(e, det) ELSE e,
                                    self.state)} :
            LET pending == queued \/ det.frame \/ child.frame
                st == IF Turns(det) THEN attach_event(child.store, self.state)
                      ELSE child.store
            IN IF decision = Nothing
               THEN Consult(handle_event(FLOWS[flow], self.state, child.msg),
                            Requested(Swiped(det), child.swiping), st, pending)
               ELSE Decide(decision, Swiped(det), st, pending)
  BY DEF event
<1>2. PICK decision : decision = SwipeDecision(det)
  OBVIOUS
<1>3. PICK x : x = IF decision = Nothing THEN Sent(e, det) ELSE e
  OBVIOUS
<1>4. PICK child : child = store_event(x, self.state)
  OBVIOUS
<1>5. PICK pending : pending = (queued \/ det.frame \/ child.frame)
  OBVIOUS
<1>6. PICK st : st = IF Turns(det) THEN attach_event(child.store, self.state)
                     ELSE child.store
  OBVIOUS
<1>7. IF decision = Nothing
      THEN Consult(handle_event(FLOWS[flow], self.state, child.msg),
                   Requested(Swiped(det), child.swiping), st, pending)
      ELSE Decide(decision, Swiped(det), st, pending)
  BY <1>1, <1>2, <1>3, <1>4, <1>5, <1>6
<1>8. FlowOK /\ self.state \in DOMAIN Screens
  BY DEF FlowInv, SelfOK, SelfType
<1>9. child \in ChildType /\ PromptsFit(child.store)
  BY <1>4, StoreEventOK DEF Serves
<1>10. st \in StoreType /\ PromptsFit(st)
  BY <1>6, <1>8, <1>9, AttachOK DEF ChildType
<1>11. pending \in BOOLEAN
  BY <1>5
<1>12. /\ Swiped(det) \in SelfType
       /\ Animating(Swiped(det).swipe) => Swiped(det).allow_swipe
  BY SwipedOK
<1>13. decision \in {Nothing} \cup Decisions(Screens)
  <2>1. TakeDecision(det.dir) \in {Nothing} \cup Decisions(Screens)
    BY <1>8, DecisionsLead, NothingIsNoDecision DEF TakeDecision, FlowInv, SelfOK, SelfType
  <2> QED BY <1>2, <2>1 DEF SwipeDecision
<1>14. CASE decision # Nothing
  BY <1>7, <1>8, <1>10, <1>11, <1>12, <1>13, <1>14, DecideOK DEF Good
<1>15. CASE decision = Nothing
  <2>1. child.swiping \in {"same", "enable", "disable"}
    BY <1>9 DEF ChildType
  <2>2. PICK me : me = Requested(Swiped(det), child.swiping)
    OBVIOUS
  <2>3. Good(me, st)
    BY <1>10, <1>12, <2>1, <2>2, RequestedOK DEF Good
  <2>4. PICK d : d = handle_event(FLOWS[flow], self.state, child.msg)
    OBVIOUS
  <2>5. d \in {Nothing} \cup Decisions(Screens)
    BY <1>8, <2>4, DecisionsLead
  <2>6. child = store_event(Sent(e, det), self.state)
    BY <1>3, <1>4, <1>15
  <2>7. d = Nothing => Kept(me, st, pending)
    BY <1>5, <1>6, <2>2, <2>4, <2>6, StaysGood
  <2>8. Consult(d, me, st, pending)
    BY <1>7, <1>15, <2>2, <2>4
  <2> QED BY <1>8, <1>11, <2>3, <2>5, <2>7, <2>8, ConsultOK
<1> QED BY <1>14, <1>15

-----------------------------------------------------------------------------
(* The invariant holds initially and every step keeps it.                  *)

LEMMA InitFlowInv ==
  ASSUME Init
  PROVE  FlowInv
<1>1. FlowOK
  <2>1. PICK n \in 1 .. MAX_PAGES :
          pages = [s \in {t \in DOMAIN FLOWS[flow].screens :
                            FLOWS[flow].screens[t].axis # "none"} |->
                     IF <<flow, s>> = <<"ConfirmOutput", "AccountInfo">> THEN 1 ELSE n]
    BY DEF Init, PageCounts
  <2>2. n \in Nat \ {0}
    BY SwipeFlowAssumption
  <2> QED BY <2>1, <2>2 DEF Init, FlowOK, Paged, Screens
<1>2. FLOWS[flow].init \in DOMAIN Screens
  BY <1>1, ScreensAreFrames DEF IsFlow, Screens
<1>3. PICK swipe : swipe = SwipeDetect
  OBVIOUS
<1>4. self = [state |-> FLOWS[flow].init, swipe |-> swipe, allow_swipe |-> TRUE,
              internal_state |-> 0, decision_override |-> Nothing]
  BY <1>3 DEF Init
<1>5. self \in SelfType /\ ~Animating(self.swipe) /\ self.allow_swipe
  BY <1>2, <1>3, <1>4, SwipeDetectOK DEF SelfType
<1>6. PICK a : a = IF Screen.blocked THEN "due" ELSE "idle"
  OBVIOUS
<1>7. store = [shown |-> [s \in Paged |-> 0], pressed |-> [s \in DOMAIN Screens |-> {}],
               prompt |-> [s \in DOMAIN Screens |-> "stopped"], attach |-> a]
  BY <1>6 DEF Init
<1>8. store \in StoreType
  BY <1>6, <1>7 DEF StoreType, Prompts
<1>9. PromptsFit(store)
  BY <1>7 DEF PromptsFit, PromptFits, Prompts
<1>10. SwipingComesBack
  BY <1>5 DEF SwipingComesBack
<1>11. FramesKeepComing
  BY DEF FramesKeepComing, Init
<1> QED BY <1>1, <1>5, <1>8, <1>9, <1>10, <1>11 DEF FlowInv, SelfOK, StoreOK

LEMMA SwipeElapsesOK ==
  ASSUME FlowInv, SwipeElapses
  PROVE  FlowInv'
<1>1. PICK swipe : swipe = [self.swipe EXCEPT !.elapsed = TRUE]
  OBVIOUS
<1>2. self' = [self EXCEPT !.swipe = swipe]
  BY <1>1 DEF SwipeElapses
<1>3. /\ self \in SelfType /\ self.swipe \in SwipeType
      /\ Animating(self.swipe) /\ self.allow_swipe
  BY DEF FlowInv, SelfOK, SelfType, SwipeElapses
<1>4. swipe \in SwipeType
  BY <1>1, <1>3 DEF SwipeType
<1>5. self' \in SelfType /\ self'.allow_swipe /\ self'.state = self.state
  BY <1>2, <1>3, <1>4 DEF SelfType
<1>6. frame = TRUE
  BY <1>3 DEF FlowInv, FramesKeepComing, SwipeElapses, FlowOK
<1>7. Good(self', store') /\ Kept(self', store', frame')
  BY <1>5, <1>6 DEF Good, Kept, FlowInv, StoreOK, SwipeElapses
<1> QED BY <1>6, <1>7, GoodStep DEF SwipeElapses, FlowInv

LEMMA PromptElapsesOK ==
  ASSUME FlowInv, PromptElapses
  PROVE  FlowInv'
<1>1. PICK s \in DOMAIN Screens :
        /\ store.prompt[s] \in {"running", "locked"}
        /\ store' = [store EXCEPT
                       !.prompt[s] = IF Screens[s].content = "hold" /\ @ = "running"
                                     THEN "locked" ELSE "over"]
  BY DEF PromptElapses
<1>2. PICK p : p = IF Screens[s].content = "hold" /\ store.prompt[s] = "running"
                   THEN "locked" ELSE "over"
  OBVIOUS
<1>3. store \in StoreType /\ PromptsFit(store)
  BY DEF FlowInv, StoreOK
<1>4. PICK prompt : prompt = [store.prompt EXCEPT ![s] = p]
  OBVIOUS
<1>5. store' = [store EXCEPT !.prompt = prompt]
  BY <1>1, <1>2, <1>4
<1>6. p \in {"locked", "over"} /\ PromptFits(Screens[s], p)
  BY <1>1, <1>2, <1>3 DEF PromptsFit, PromptFits, Prompts
<1>7. prompt \in [DOMAIN Screens -> Prompts]
  BY <1>3, <1>4, <1>6 DEF StoreType, Prompts
<1>8. /\ store' \in StoreType /\ store'.prompt = prompt
      /\ store'.pressed = store.pressed /\ store'.attach = store.attach
  BY <1>3, <1>5, <1>7 DEF StoreType
<1>9. /\ prompt[s] = p
      /\ \A t \in DOMAIN Screens : t # s => prompt[t] = store.prompt[t]
  BY <1>3, <1>4 DEF StoreType
<1>10. PromptsFit(store')
  BY <1>3, <1>6, <1>8, <1>9 DEF PromptsFit
<1>11. /\ self' = self /\ self.state \in DOMAIN Screens /\ frame' = frame
       /\ Shown /\ Screen = Screens[self.state]
  BY DEF FlowInv, SelfOK, SelfType, PromptElapses, Screen
<1>12. Good(self', store')
  BY <1>8, <1>10, <1>11 DEF Good, FlowInv, SelfOK
<1>13. store.prompt[s] # "stopped" /\ store'.prompt[s] \in {"locked", "over"}
  BY <1>1, <1>6, <1>8, <1>9
<1>14. Kept(self', store', frame')
  <2>1. store'.prompt[self.state] # "stopped" => store.prompt[self.state] # "stopped"
    BY <1>8, <1>9, <1>11, <1>13
  <2>2. Holding(store.prompt[self.state], store.pressed[self.state]) =>
          Holding(store'.prompt[self.state], store'.pressed[self.state])
    BY <1>8, <1>9, <1>11, <1>13 DEF Holding
  <2>3. /\ \/ Animating(self.swipe) \/ store.attach # "idle"
           \/ Screens[self.state].blocked /\ store.prompt[self.state] # "stopped"
           => frame
        /\ ~self.allow_swipe =>
             /\ Screens[self.state].content = "hold"
             /\ Holding(store.prompt[self.state], store.pressed[self.state])
    BY <1>11 DEF FlowInv, FramesKeepComing, SwipingComesBack, Holding
  <2> QED BY <1>8, <1>11, <2>1, <2>2, <2>3 DEF Kept
<1> QED BY <1>11, <1>12, <1>14, GoodStep DEF FlowInv, FlowOK, PromptElapses

LEMMA AttachElapsesOK ==
  ASSUME FlowInv, AttachElapses
  PROVE  FlowInv'
<1>1. store \in StoreType /\ PromptsFit(store) /\ store' = [store EXCEPT !.attach = "idle"]
  BY DEF FlowInv, StoreOK, AttachElapses
<1>2. /\ store' \in StoreType /\ store'.prompt = store.prompt
      /\ store'.pressed = store.pressed
  BY <1>1 DEF StoreType
<1>3. PromptsFit(store')
  BY <1>1, <1>2 DEF PromptsFit
<1>4. frame = TRUE /\ frame' = TRUE /\ self' = self
  BY DEF FlowInv, FramesKeepComing, AttachElapses, FlowOK
<1>5. Good(self', store')
  BY <1>2, <1>3, <1>4 DEF Good, FlowInv, SelfOK
<1>6. Kept(self', store', frame')
  BY <1>2, <1>4 DEF Kept, FlowInv, SwipingComesBack, Holding, AttachElapses, Screen
<1> QED BY <1>4, <1>5, <1>6, GoodStep DEF FlowInv, AttachElapses

LEMMA TouchOK ==
  ASSUME FlowInv, UNCHANGED <<flow, pages>>, Shown, NEW type, NEW at,
         type \in {"TouchStart", "TouchMove", "TouchEnd"}, Touch(type, at)
  PROVE  FlowInv'
<1>1. PICK e : e = [type |-> type, at |-> at]
  OBVIOUS
<1>2. e.type # "AnimFrame" /\ e.type # "LongTimer"
  BY <1>1
<1>3. event(e, frame)
  BY <1>1 DEF Touch
<1> QED BY <1>2, <1>3, EventOK DEF FlowInv, FlowOK

LEMMA NextFlowInv ==
  ASSUME FlowInv, [Next]_vars
  PROVE  FlowInv'
<1>1. CASE TouchStart
  BY <1>1, TouchOK DEF TouchStart
<1>2. CASE TouchMove
  BY <1>2, TouchOK DEF TouchMove
<1>3. CASE TouchEnd
  BY <1>3, TouchOK DEF TouchEnd
<1>4. CASE AnimFrame
  <2>1. PICK e : e = [type |-> "AnimFrame", at |-> "none"]
    OBVIOUS
  <2>2. PICK queued \in BOOLEAN : event(e, queued)
    BY <1>4, <2>1 DEF AnimFrame
  <2>3. e.type = "AnimFrame"
    BY <2>1
  <2> QED BY <1>4, <2>2, <2>3, EventOK DEF AnimFrame
<1>5. CASE LongTimerFires
  <2>1. PICK e : e = [type |-> "LongTimer", at |-> "none"]
    OBVIOUS
  <2>2. e.type = "LongTimer" /\ event(e, frame)
    BY <1>5, <2>1 DEF LongTimerFires
  <2> QED BY <1>5, <2>2, EventOK DEF LongTimerFires, FlowInv, FlowOK
<1>6. CASE TimeoutFires
  <2>1. PICK e : e = [type |-> "Timeout", at |-> "none"]
    OBVIOUS
  <2>2. e.type = "Timeout" /\ event(e, frame)
    BY <1>6, <2>1 DEF TimeoutFires
  <2> QED BY <1>6, <2>2, EventOK DEF TimeoutFires, FlowInv, FlowOK
<1>7. CASE SwipeElapses
  BY <1>7, SwipeElapsesOK
<1>8. CASE PromptElapses
  BY <1>8, PromptElapsesOK
<1>9. CASE AttachElapses
  BY <1>9, AttachElapsesOK
<1>10. CASE UNCHANGED vars
  <2>1. /\ UNCHANGED <<flow, pages>> /\ self' = self /\ store' = store
        /\ frame' = frame /\ result' = result
    BY <1>10 DEF vars
  <2>2. Good(self', store') /\ (result' = NoMessage => Kept(self', store', frame'))
    BY <2>1 DEF FlowInv, SelfOK, StoreOK, Good, Kept, SwipingComesBack,
                FramesKeepComing, Holding, Shown, Screen
  <2> QED BY <2>1, <2>2, GoodStep DEF FlowInv, FlowOK
<1> QED BY <1>1, <1>2, <1>3, <1>4, <1>5, <1>6, <1>7, <1>8, <1>9, <1>10 DEF Next

LEMMA FlowInvHolds == Spec => []FlowInv
BY InitFlowInv, NextFlowInv, PTL DEF Spec

(* However a hold ends (the finger leaves the button, is lifted, a swipe   *)
(* aborts the touch), swipes work again: swiping is off only while the     *)
(* prompt is held or has locked (HoldToConfirm, SwipeFlow::event).  For    *)
(* every well-formed flow.                                                 *)
THEOREM SwipingCorrect == Spec => []SwipingComesBack
BY FlowInvHolds, PTL DEF FlowInv

(* A frame is always queued while something on the screen animates or      *)
(* waits for its time to be over, whichever component took the last event  *)
(* (request_anim_frame in SwipeFlow, SwipeDetect and the components).      *)
THEOREM FramesCorrect == Spec => []FramesKeepComing
BY FlowInvHolds, PTL DEF FlowInv

-----------------------------------------------------------------------------
(* The words of a backup.  The screen with the words is entered at the     *)
(* page it was left at: at the first from the instruction, at the last     *)
(* from the confirmation.  No transition of this flow is animated by an    *)
(* override.                                                               *)
WordsInv ==
  flow = "ShowShareWords" =>
    /\ self.decision_override = Nothing
    /\ store.shown["Words"] < pages["Words"]
    /\ self.state = "Words" => self.internal_state = store.shown["Words"]
    /\ self.state = "Instruction" => store.shown["Words"] = 0
    /\ self.state \in {"Confirm", "CheckBackupIntro"} \/ result # NoMessage =>
         store.shown["Words"] = pages["Words"] - 1

LEMMA ShareScreens ==
  ASSUME FlowOK, flow = "ShowShareWords"
  PROVE  /\ Screens = ShowShareWords_screens
         /\ DOMAIN Screens = {"Instruction", "Words", "Confirm", "CheckBackupIntro"}
         /\ Screens["Words"].axis = "vertical"
         /\ \A s \in DOMAIN Screens :
              /\ Screens[s].items = {} /\ Screens[s].button = NoMessage
              /\ Screens[s].says = "Confirmed"
              /\ Screens[s].content = IF s = "Confirm" THEN "hold" ELSE "text"
              /\ s # "Words" => Screens[s].axis = "none"
         /\ Screens["Confirm"].allowed = {"Down"}
<1>1. FLOWS[flow] = ShowShareWords
  BY SwipeFlowAssumption DEF FlowOK
<1>2. Screens = ShowShareWords_screens
  BY <1>1 DEF Screens, ShowShareWords, Flow
<1>3. DOMAIN Screens = {"Instruction", "Words", "Confirm", "CheckBackupIntro"}
  BY <1>2 DEF ShowShareWords_screens
<1>4. PICK words : words = VerticalPages(Frame({"Up", "Down"}, NoMessage, "text"))
  OBVIOUS
<1>5. /\ words.axis = "vertical" /\ words.items = {} /\ words.button = NoMessage
      /\ words.says = "Confirmed" /\ words.content = "text"
  BY <1>4 DEF VerticalPages, Frame
<1>6. /\ Screens["Words"] = words
      /\ Screens["Instruction"] = Frame({"Up"}, NoMessage, "text")
      /\ Screens["Confirm"] = Frame({"Down"}, NoMessage, "hold")
      /\ Screens["CheckBackupIntro"] = Frame({"Up"}, NoMessage, "text")
  BY <1>2, <1>4 DEF ShowShareWords_screens
<1> QED BY <1>2, <1>3, <1>5, <1>6 DEF Frame

LEMMA ShareWordsPaged ==
  ASSUME FlowOK, flow = "ShowShareWords"
  PROVE  Paged = {"Words"} /\ pages["Words"] \in Nat \ {0}
<1>1. Paged = {"Words"}
  BY ShareScreens DEF Paged
<1> QED BY <1>1 DEF FlowOK

LEMMA ShareSwipes ==
  ASSUME FlowOK, flow = "ShowShareWords", NEW s, NEW dir, NEW d,
         d = handle_swipe(FLOWS[flow], s, dir), d # Nothing
  PROVE  \/ s = "Instruction" /\ dir = "Up" /\ d = Goto("Words", "Up")
         \/ s = "Confirm" /\ dir = "Down" /\ d = Goto("Words", "Down")
         \/ s = "Words" /\ dir = "Up" /\ d = Goto("Confirm", "Up")
         \/ s = "Words" /\ dir = "Down" /\ d = Goto("Instruction", "Down")
         \/ s = "CheckBackupIntro" /\ dir = "Up" /\ d = Return("Confirmed")
<1>1. FLOWS[flow] = ShowShareWords
  BY SwipeFlowAssumption DEF FlowOK
<1>2. FLOWS[flow].swipes =
        [Instruction |-> [Up |-> Goto("Words", "Up")],
         Confirm |-> [Down |-> Goto("Words", "Down")],
         Words |-> [Up |-> Goto("Confirm", "Up"),
                    Down |-> Goto("Instruction", "Down")],
         CheckBackupIntro |-> [Up |-> Return("Confirmed")]]
  BY <1>1 DEF ShowShareWords, Flow
<1> QED BY <1>2 DEF handle_swipe, Entry

LEMMA WordsSwipes ==
  ASSUME FlowOK, flow = "ShowShareWords", NEW dir \in {"Up", "Down"}
  PROVE  handle_swipe(FLOWS[flow], "Words", dir) # Nothing
<1>1. FLOWS[flow] = ShowShareWords
  BY SwipeFlowAssumption DEF FlowOK
<1>2. FLOWS[flow].swipes =
        [Instruction |-> [Up |-> Goto("Words", "Up")],
         Confirm |-> [Down |-> Goto("Words", "Down")],
         Words |-> [Up |-> Goto("Confirm", "Up"),
                    Down |-> Goto("Instruction", "Down")],
         CheckBackupIntro |-> [Up |-> Return("Confirmed")]]
  BY <1>1 DEF ShowShareWords, Flow
<1> QED BY <1>2 DEF handle_swipe, Entry, Goto, Nothing

LEMMA ConfirmSays ==
  ASSUME FlowOK, flow = "ShowShareWords"
  PROVE  handle_event(FLOWS[flow], "Confirm", "Confirmed") = Goto("CheckBackupIntro", "Up")
<1>1. FLOWS[flow] = ShowShareWords
  BY SwipeFlowAssumption DEF FlowOK
<1>2. FLOWS[flow].events =
        [Words |-> [Cancelled |-> Goto("Instruction", "Down"),
                    Confirmed |-> Goto("Confirm", "Up")],
         Confirm |-> [Confirmed |-> Goto("CheckBackupIntro", "Up")]]
  BY <1>1 DEF ShowShareWords, Flow
<1> QED BY <1>2 DEF handle_event, Entry, Goto, Nothing

(* The only message of this flow is that of the hold prompt.               *)
LEMMA HoldSays ==
  ASSUME NEW screen, NEW prompt, NEW e, NEW pressed, NEW c,
         c = hold_event(e, screen, prompt, pressed)
  PROVE  c.msg \in {NoMessage, screen.says}
<1>1. PICK locked : locked = (prompt \in {"locked", "over"})
  OBVIOUS
<1>2. PICK held : held = ("prompt" \in pressed)
  OBVIOUS
<1>3. PICK holds : holds = ("prompt" \in PressedAfter(e, screen, pressed))
  OBVIOUS
<1>4. e.type = "AnimFrame" => held = holds
  BY <1>2, <1>3, FramesPressNothing
<1>5. prompt = "over" => locked
  BY <1>1
<1>6. PICK f : f = (e.type = "AnimFrame" /\ prompt \in {"running", "locked"})
  OBVIOUS
<1>7. \/ c = Answer("running", NoMessage, "disable", TRUE)
      \/ c = Answer(prompt, screen.says, "same", FALSE)
      \/ c = Answer("stopped", NoMessage, "enable", TRUE)
      \/ c = Answer(prompt, NoMessage, "same", f)
  <2>1. CASE ~held /\ holds /\ ~locked
    <3>1. ~(e.type = "AnimFrame" /\ prompt = "over")
      BY <1>5, <2>1
    <3> QED BY <1>1, <1>2, <1>3, <2>1, <3>1, Zenon DEF hold_event
  <2>2. CASE held /\ ~holds /\ e.type = "LongTimer"
    <3>1. ~(e.type = "AnimFrame" /\ prompt = "over")
      BY <2>2
    <3> QED BY <1>1, <1>2, <1>3, <2>2, <3>1, Zenon DEF hold_event
  <2>3. CASE held /\ ~holds /\ e.type # "LongTimer" /\ ~locked
    <3>1. ~(e.type = "AnimFrame" /\ prompt = "over")
      BY <1>5, <2>3
    <3> QED BY <1>1, <1>2, <1>3, <2>3, <3>1, Zenon DEF hold_event
  <2>4. CASE e.type = "AnimFrame" /\ prompt = "over"
    <3>1. /\ ~(~held /\ holds /\ ~locked)
          /\ ~(held /\ ~holds /\ e.type = "LongTimer")
          /\ ~(held /\ ~holds /\ e.type # "LongTimer" /\ ~locked)
      BY <1>4, <1>5, <2>4
    <3> QED BY <1>1, <1>2, <1>3, <2>4, <3>1, Zenon DEF hold_event
  <2>5. CASE /\ ~(~held /\ holds /\ ~locked)
             /\ ~(held /\ ~holds /\ e.type = "LongTimer")
             /\ ~(held /\ ~holds /\ e.type # "LongTimer" /\ ~locked)
             /\ ~(e.type = "AnimFrame" /\ prompt = "over")
    BY <1>1, <1>2, <1>3, <1>6, <2>5, Zenon DEF hold_event
  <2> QED BY <2>1, <2>2, <2>3, <2>4, <2>5
<1> QED BY <1>7 DEF Answer

LEMMA TextSays ==
  ASSUME NEW screen, screen.content = "text", screen.items = {},
         NEW prompt, NEW e, NEW pressed, NEW c,
         c = content_event(e, screen, prompt, pressed)
  PROVE  c.msg = NoMessage
<1>1. /\ screen.content # "tap" /\ screen.content # "hold"
      /\ screen.content # "timeout" /\ screen.content # "number"
  OBVIOUS
<1>2. PICK chosen : chosen = Clicked(e, screen, pressed) \cap screen.items
  OBVIOUS
<1>3. PICK msg : msg = IF chosen = {} THEN NoMessage ELSE CHOOSE x \in chosen : TRUE
  OBVIOUS
<1>4. c = Answer(prompt, msg, "same", FALSE)
  BY <1>1, <1>2, <1>3, Zenon DEF content_event
<1>5. msg = NoMessage
  BY <1>2, <1>3
<1> QED BY <1>4, <1>5 DEF Answer

(* What the components of this flow say, and what becomes of the words.    *)
LEMMA ShareStore ==
  ASSUME FlowInv, flow = "ShowShareWords", NEW x, NEW child,
         child = store_event(x, self.state)
  PROVE  /\ self.state # "Confirm" => child.msg = NoMessage
         /\ self.state = "Confirm" => child.msg \in {NoMessage, "Confirmed"}
         /\ child.store.shown["Words"] = IF self.state = "Words"
                                         THEN turn(x, "Words", store.shown["Words"])
                                         ELSE store.shown["Words"]
<1> DEFINE s == self.state
<1>1. FlowOK /\ s \in DOMAIN Screens /\ store \in StoreType
  BY DEF FlowInv, SelfOK, SelfType, StoreOK
<1>2. PICK c : c = content_event(x, Screens[s], store.prompt[s], store.pressed[s])
  OBVIOUS
<1>4. s # "Confirm" => c.msg = NoMessage
  <2>1. s # "Confirm" => Screens[s].content = "text" /\ Screens[s].items = {}
    BY <1>1, ShareScreens
  <2> QED BY <1>2, <2>1, TextSays
<1>5. s = "Confirm" => c.msg \in {NoMessage, "Confirmed"}
  <2>1. ASSUME s = "Confirm"
        PROVE  c.msg \in {NoMessage, "Confirmed"}
    <3>1. Screens[s].content = "hold" /\ Screens[s].says = "Confirmed"
      BY <1>1, <2>1, ShareScreens
    <3>2. /\ Screens[s].content # "tap" /\ Screens[s].content # "timeout"
          /\ Screens[s].content # "number"
      BY <3>1
    <3>3. c = hold_event(x, Screens[s], store.prompt[s], store.pressed[s])
      BY <1>2, <3>1, <3>2, Zenon DEF content_event
    <3> QED BY <3>1, <3>3, HoldSays
  <2> QED BY <2>1
<1>6. child.msg = IF ~(c.msg # NoMessage)
                     /\ "button" \in Clicked(x, Screens[s], store.pressed[s])
                  THEN Screens[s].button ELSE c.msg
  BY <1>2 DEF store_event
<1>7. Screens[s].button = NoMessage
  BY <1>1, ShareScreens
<1>8. child.store.shown = [store.shown EXCEPT ![s] = turn(x, s, @)]
  BY DEF store_event
<1>9. store.shown \in [{"Words"} -> Nat]
  BY <1>1, ShareWordsPaged DEF StoreType
<1> QED BY <1>4, <1>5, <1>6, <1>7, <1>8, <1>9

(* Where a decision leads, as far as the words are concerned.              *)
LEMMA DecideLeads ==
  ASSUME FlowOK, NEW me \in SelfType, NEW st \in StoreType, PromptsFit(st),
         NEW decision \in {Nothing} \cup Decisions(Screens), NEW pending,
         Decide(decision, me, st, pending)
  PROVE  /\ self'.decision_override = me.decision_override
         /\ store'.shown = st.shown
         /\ decision.type = "Goto" =>
              /\ self'.state = decision.to /\ result' = result
              /\ decision.dir = "Up" => self'.internal_state = 0
              /\ decision.dir = "Down" =>
                   self'.internal_state = get_internal_page_count(decision.to) - 1
         /\ decision.type = "Return" => self'.state = me.state
         /\ decision = Nothing => self' = me /\ result' = result
<1>1. CASE decision.type = "Goto"
  <2>1. decision.to \in DOMAIN Screens
    BY <1>1, NothingIsNoDecision DEF Gotos
  <2>2. decision.type # "Return"
    BY <1>1
  <2>3. /\ self' = goto(me, decision.to, decision.dir) /\ result' = result
        /\ store' = attach_event(st, decision.to)
    BY <1>1, <2>2, Zenon DEF Decide
  <2>4. PICK n : n = CASE decision.dir = "Up" -> 0
                       [] decision.dir = "Down" ->
                            get_internal_page_count(decision.to) - 1
                       [] OTHER -> me.internal_state
    OBVIOUS
  <2>5. decision.dir = "Up" => n = 0
    <3>1. ASSUME decision.dir = "Up"
          PROVE  n = 0
      <4>1. decision.dir # "Down"
        BY <3>1
      <4> QED BY <2>4, <3>1, <4>1, Zenon
    <3> QED BY <3>1
  <2>6. decision.dir = "Down" => n = get_internal_page_count(decision.to) - 1
    <3>1. ASSUME decision.dir = "Down"
          PROVE  n = get_internal_page_count(decision.to) - 1
      <4>1. decision.dir # "Up"
        BY <3>1
      <4> QED BY <2>4, <3>1, <4>1, Zenon
    <3> QED BY <3>1
  <2>7. PICK nobody : nobody = SwipeDetect
    OBVIOUS
  <2>8. self' = [me EXCEPT !.state = decision.to, !.swipe = nobody,
                           !.allow_swipe = TRUE, !.internal_state = n]
    BY <2>3, <2>4, <2>7 DEF goto
  <2>9. /\ self'.state = decision.to /\ self'.internal_state = n
        /\ self'.decision_override = me.decision_override
    BY <2>8 DEF SelfType
  <2>10. store'.shown = st.shown
    BY <2>1, <2>3, AttachOK
  <2> QED BY <1>1, <2>2, <2>3, <2>5, <2>6, <2>9, <2>10, NothingIsNoDecision
<1>2. CASE decision.type = "Return"
  <2>1. decision.type # "Goto" /\ decision # Nothing
    BY <1>2, NothingIsNoDecision
  <2>2. /\ self' = [me EXCEPT !.swipe = SwipeDetect, !.allow_swipe = TRUE]
        /\ store' = st
    BY <1>2, <2>1, Zenon DEF Decide
  <2>3. PICK nobody : nobody = SwipeDetect
    OBVIOUS
  <2>4. self' = [me EXCEPT !.swipe = nobody, !.allow_swipe = TRUE]
    BY <2>2, <2>3
  <2>5. self'.state = me.state /\ self'.decision_override = me.decision_override
    BY <2>4 DEF SelfType
  <2> QED BY <2>1, <2>2, <2>5
<1>3. CASE decision.type # "Goto" /\ decision.type # "Return"
  <2>1. self' = me /\ store' = st /\ result' = result
    BY <1>3, Zenon DEF Decide
  <2> QED BY <1>3, <2>1
<1> QED BY <1>1, <1>2, <1>3

(* ShareWords turns its page at the end of a swipe up or down.             *)
LEMMA WordsTurn ==
  ASSUME FlowOK, flow = "ShowShareWords", NEW x, NEW page
  PROVE  /\ x.type # "SwipeEnd" \/ x.at \notin {"Up", "Down"} =>
              turn(x, "Words", page) = page
         /\ x.type = "SwipeEnd" /\ x.at = "Up" =>
              turn(x, "Words", page) = IF page + 1 < pages["Words"] THEN page + 1 ELSE page
         /\ x.type = "SwipeEnd" /\ x.at = "Down" =>
              turn(x, "Words", page) = IF page > 0 THEN page - 1 ELSE 0
<1>1. PICK axis : axis = Screens["Words"].axis
  OBVIOUS
<1>2. axis = "vertical" /\ Forth(axis) = "Up" /\ Back(axis) = "Down"
  BY <1>1, ShareScreens DEF Forth, Back
<1>3. PICK forth : forth = (axis # "none" /\ x.type = "SwipeEnd" /\ x.at = Forth(axis))
  OBVIOUS
<1>4. PICK back : back = (axis # "none" /\ x.type = "SwipeEnd" /\ x.at = Back(axis))
  OBVIOUS
<1>5. /\ forth = (x.type = "SwipeEnd" /\ x.at = "Up")
      /\ back = (x.type = "SwipeEnd" /\ x.at = "Down")
  BY <1>2, <1>3, <1>4
<1>6. ~(forth /\ back)
  BY <1>5
<1>7. forth => turn(x, "Words", page)
                 = IF page + 1 < pages["Words"] THEN page + 1 ELSE page
  BY <1>1, <1>3, <1>4, <1>6, Zenon DEF turn
<1>8. back => turn(x, "Words", page) = IF page > 0 THEN page - 1 ELSE 0
  BY <1>1, <1>3, <1>4, <1>6, Zenon DEF turn
<1>9. ~forth /\ ~back => turn(x, "Words", page) = page
  BY <1>1, <1>3, <1>4, Zenon DEF turn
<1> QED BY <1>5, <1>7, <1>8, <1>9

(* On the words the flow turns a page when there is one to turn to.        *)
LEMMA WordsTurning ==
  ASSUME FlowOK, flow = "ShowShareWords", self.state = "Words"
  PROVE  /\ Screen.axis = "vertical" /\ Forth(Screen.axis) = "Up"
         /\ "Up" \in Turning <=> self.internal_state < pages["Words"] - 1
         /\ "Down" \in Turning <=> self.internal_state > 0
         /\ Turning \subseteq {"Up", "Down"}
<1>1. Screen.axis = "vertical"
  BY ShareScreens DEF Screen
<1> QED BY <1>1 DEF Turning, Forth, Back

LEMMA OthersTurnNothing ==
  ASSUME FlowOK, flow = "ShowShareWords", self.state \in DOMAIN Screens,
         self.state # "Words"
  PROVE  Turning = {}
BY ShareScreens DEF Turning, Screen

LEMMA WordsEvent ==
  ASSUME FlowInv, WordsInv, flow = "ShowShareWords", UNCHANGED <<flow, pages>>,
         Shown, NEW e, e.type # "SwipeEnd", NEW queued, event(e, queued)
  PROVE  WordsInv'
<1> DEFINE s == self.state
           w == store.shown["Words"]
           N == pages["Words"]
<1>1. PICK det \in Detect(e) :
        \E decision \in {SwipeDecision(det)} :
          \E child \in {store_event(IF decision = Nothing THEN Sent(e, det) ELSE e,
                                    self.state)} :
            LET pending == queued \/ det.frame \/ child.frame
                st == IF Turns(det) THEN attach_event(child.store, self.state)
                      ELSE child.store
            IN IF decision = Nothing
               THEN Consult(handle_event(FLOWS[flow], self.state, child.msg),
                            Requested(Swiped(det), child.swiping), st, pending)
               ELSE Decide(decision, Swiped(det), st, pending)
  BY DEF event
<1>2. PICK decision : decision = SwipeDecision(det)
  OBVIOUS
<1>3. PICK x : x = IF decision = Nothing THEN Sent(e, det) ELSE e
  OBVIOUS
<1>4. PICK child : child = store_event(x, self.state)
  OBVIOUS
<1>5. PICK pending : pending = (queued \/ det.frame \/ child.frame)
  OBVIOUS
<1>6. PICK st : st = IF Turns(det) THEN attach_event(child.store, self.state)
                     ELSE child.store
  OBVIOUS
<1>7. IF decision = Nothing
      THEN Consult(handle_event(FLOWS[flow], self.state, child.msg),
                   Requested(Swiped(det), child.swiping), st, pending)
      ELSE Decide(decision, Swiped(det), st, pending)
  BY <1>1, <1>2, <1>3, <1>4, <1>5, <1>6
<1>8. FlowOK /\ s \in DOMAIN Screens /\ det \in DetType
  BY DetectOK DEF FlowInv, SelfOK, SelfType
<1>9. /\ N \in Nat \ {0} /\ w \in Nat /\ self.internal_state \in Int
      /\ get_internal_page_count("Words") = N
  BY <1>8, ShareWordsPaged
     DEF FlowInv, StoreOK, StoreType, SelfOK, SelfType, get_internal_page_count
<1>10. /\ self.decision_override = Nothing /\ w < N /\ result = NoMessage
       /\ s = "Words" => self.internal_state = w
       /\ s = "Instruction" => w = 0
       /\ s \in {"Confirm", "CheckBackupIntro"} => w = N - 1
  BY DEF WordsInv, Shown
<1>11. s \in {"Instruction", "Words", "Confirm", "CheckBackupIntro"}
  BY <1>8, ShareScreens
<1>12. /\ child \in ChildType /\ child.store \in StoreType /\ PromptsFit(child.store)
       /\ child.swiping \in {"same", "enable", "disable"}
  <2>1. child \in ChildType /\ Serves(child, x)
    BY <1>4, StoreEventOK
  <2> QED BY <2>1 DEF Serves, ChildType
<1>13. st \in StoreType /\ PromptsFit(st) /\ st.shown = child.store.shown
  BY <1>6, <1>8, <1>12, AttachOK
<1>14. /\ Swiped(det) \in SelfType /\ Swiped(det).state = s
       /\ Swiped(det).decision_override = Nothing
       /\ ~Turns(det) => Swiped(det).internal_state = self.internal_state
       /\ Animating(Swiped(det).swipe) => Swiped(det).allow_swipe
  BY <1>10, SwipedOK
<1>15. SUFFICES /\ self'.decision_override = Nothing /\ store'.shown["Words"] < N
                /\ self'.state = "Words" => self'.internal_state = store'.shown["Words"]
                /\ self'.state = "Instruction" => store'.shown["Words"] = 0
                /\ self'.state \in {"Confirm", "CheckBackupIntro"} \/ result' # NoMessage
                     => store'.shown["Words"] = N - 1
  BY DEF WordsInv
<1>16. CASE decision # Nothing
  <2>1. ~Turns(det) /\ decision = handle_swipe(FLOWS[flow], s, det.dir)
    BY <1>2, <1>10, <1>16 DEF SwipeDecision, TakeDecision
  <2>2. child.store.shown["Words"] = w
    BY <1>3, <1>4, <1>8, <1>16, ShareStore, WordsTurn
  <2>3. decision \in {Nothing} \cup Decisions(Screens)
    BY <1>8, <2>1, DecisionsLead
  <2>4. Decide(decision, Swiped(det), st, pending)
    BY <1>7, <1>16
  <2>5. det.msg = "Trigger"
    BY <1>2, <1>16 DEF SwipeDecision
  <2>6. /\ self'.decision_override = Nothing /\ store'.shown["Words"] = w
        /\ decision.type = "Goto" =>
             /\ self'.state = decision.to /\ result' = NoMessage
             /\ decision.dir = "Up" => self'.internal_state = 0
             /\ decision.dir = "Down" =>
                  self'.internal_state = get_internal_page_count(decision.to) - 1
        /\ decision.type = "Return" => self'.state = s
    BY <1>8, <1>10, <1>13, <1>14, <2>2, <2>3, <2>4, DecideLeads
  <2>7. CASE s = "Instruction" /\ decision = Goto("Words", "Up")
    BY <1>10, <2>6, <2>7 DEF Goto
  <2>8. CASE s = "Confirm" /\ decision = Goto("Words", "Down")
    BY <1>9, <1>10, <2>6, <2>8 DEF Goto
  <2>9. CASE s = "Words" /\ det.dir = "Up" /\ decision = Goto("Confirm", "Up")
    <3>1. w = N - 1
      BY <1>8, <1>9, <1>10, <2>1, <2>5, <2>9, WordsTurning DEF Turns
    <3> QED BY <1>10, <2>6, <2>9, <3>1 DEF Goto
  <2>10. CASE s = "Words" /\ det.dir = "Down" /\ decision = Goto("Instruction", "Down")
    <3>1. w = 0
      BY <1>8, <1>9, <1>10, <2>1, <2>5, <2>10, WordsTurning DEF Turns
    <3> QED BY <1>10, <2>6, <2>10, <3>1 DEF Goto
  <2>11. CASE s = "CheckBackupIntro" /\ decision = Return("Confirmed")
    BY <1>9, <1>10, <2>6, <2>11 DEF Return
  <2> QED BY <1>8, <1>16, <2>1, <2>7, <2>8, <2>9, <2>10, <2>11, ShareSwipes
<1>17. CASE decision = Nothing
  <2>1. PICK me : me = Requested(Swiped(det), child.swiping)
    OBVIOUS
  <2>2. /\ me \in SelfType /\ me.state = s /\ me.decision_override = Nothing
        /\ me.internal_state = Swiped(det).internal_state
    BY <1>12, <1>14, <2>1, RequestedOK
  <2>3. PICK d : d = handle_event(FLOWS[flow], s, child.msg)
    OBVIOUS
  <2>4. \/ d = Nothing
        \/ s = "Confirm" /\ d = Goto("CheckBackupIntro", "Up")
    BY <1>4, <1>8, <2>3, ShareStore, NoMessageIgnored, ConfirmSays
  <2>5. Decide(d, me, st, pending)
    <3>1. Consult(d, me, st, pending)
      BY <1>7, <1>17, <2>1, <2>3
    <3>2. ~(/\ d.type = "Goto" /\ d.dir \in get_swipe_config(st, self.state))
      <4>1. CASE d = Nothing
        BY <4>1 DEF Nothing
      <4>2. CASE s = "Confirm" /\ d = Goto("CheckBackupIntro", "Up")
        <5>1. get_swipe_config(st, "Confirm") = {"Down"}
          BY <1>8, ShareScreens DEF get_swipe_config
        <5> QED BY <4>2, <5>1 DEF Goto
      <4> QED BY <2>4, <4>1, <4>2
    <3> QED BY <3>1, <3>2 DEF Consult
  <2>6. d \in {Nothing} \cup Decisions(Screens)
    BY <1>8, <2>3, DecisionsLead
  <2>7. /\ self'.decision_override = Nothing /\ store'.shown["Words"] = st.shown["Words"]
        /\ d.type = "Goto" => self'.state = d.to
        /\ d = Nothing => self' = me
        /\ result' = NoMessage
    <3>1. d.type = "Goto" \/ d = Nothing
      BY <2>4 DEF Goto
    <3> QED BY <1>8, <1>10, <1>13, <2>2, <2>5, <2>6, <3>1, DecideLeads
  <2>8. CASE s # "Words"
    <3>1. ~Turns(det)
      BY <1>8, <2>8, OthersTurnNothing DEF Turns
    <3>2. st.shown["Words"] = w
      BY <1>4, <1>13, <2>8, ShareStore
    <3>3. CASE d = Nothing
      BY <1>10, <2>2, <2>7, <2>8, <3>2, <3>3
    <3>4. CASE s = "Confirm" /\ d = Goto("CheckBackupIntro", "Up")
      BY <1>10, <2>7, <3>2, <3>4 DEF Goto
    <3> QED BY <2>4, <3>3, <3>4
  <2>9. CASE s = "Words"
    <3>1. self' = me /\ me.state = "Words"
      BY <2>2, <2>4, <2>7, <2>9
    <3>2. st.shown["Words"] = turn(Sent(e, det), "Words", w)
      BY <1>3, <1>4, <1>13, <1>17, <2>9, ShareStore
    <3>3. CASE Turns(det)
      <4>1. Sent(e, det) = [type |-> "SwipeEnd", at |-> det.dir]
        BY <1>8, <3>3, SentOK DEF Turns
      <4>2. det.dir \in {"Up", "Down"} /\ det.dir \in Turning
        BY <1>8, <2>9, <3>3, WordsTurning DEF Turns
      <4>3. me.internal_state = IF det.dir = "Up" THEN w + 1 ELSE w - 1
        BY <1>8, <1>10, <2>2, <2>9, <3>3, SwipedOK, WordsTurning
      <4>4. CASE det.dir = "Up"
        <5>1. w < N - 1
          BY <1>8, <1>10, <2>9, <4>2, <4>4, WordsTurning
        <5>2. st.shown["Words"] = w + 1
          BY <1>8, <1>9, <3>2, <4>1, <4>4, <5>1, WordsTurn
        <5> QED BY <1>9, <2>7, <3>1, <4>3, <4>4, <5>1, <5>2
      <4>5. CASE det.dir = "Down"
        <5>1. w > 0
          BY <1>8, <1>10, <2>9, <4>2, <4>5, WordsTurning
        <5>2. st.shown["Words"] = w - 1
          BY <1>8, <1>9, <3>2, <4>1, <4>5, <5>1, WordsTurn
        <5> QED BY <1>9, <1>10, <2>7, <3>1, <4>3, <4>5, <5>1, <5>2
      <4> QED BY <4>2, <4>4, <4>5
    <3>4. CASE ~Turns(det)
      <4>1. st.shown["Words"] = w
        <5>1. CASE det.msg # "Trigger"
          <6>1. Sent(e, det).type # "SwipeEnd"
            BY <1>8, <5>1, SentOK DEF DetType
          <6> QED BY <1>8, <3>2, <6>1, WordsTurn
        <5>2. CASE det.msg = "Trigger"
          <6>1. handle_swipe(FLOWS[flow], "Words", det.dir) = Nothing
            BY <1>2, <1>10, <1>17, <2>9, <3>4, <5>2 DEF SwipeDecision, TakeDecision
          <6>2. det.dir \notin {"Up", "Down"}
            BY <1>8, <6>1, WordsSwipes
          <6>3. Sent(e, det).at = det.dir
            BY <1>8, <5>2, SentOK
          <6> QED BY <1>8, <3>2, <6>2, <6>3, WordsTurn
        <5> QED BY <5>1, <5>2
      <4> QED BY <1>10, <1>14, <2>2, <2>7, <2>9, <3>1, <3>4, <4>1
    <3> QED BY <3>3, <3>4
  <2> QED BY <2>8, <2>9
<1> QED BY <1>16, <1>17

LEMMA InitWordsInv ==
  ASSUME Init
  PROVE  WordsInv
<1>1. ASSUME flow = "ShowShareWords"
      PROVE  /\ self.decision_override = Nothing /\ self.state = "Instruction"
             /\ store.shown["Words"] = 0 /\ pages["Words"] \in Nat \ {0}
  <2>1. FlowOK
    BY InitFlowInv DEF FlowInv
  <2>2. FLOWS[flow] = ShowShareWords
    BY <1>1, <2>1, SwipeFlowAssumption DEF FlowOK
  <2>3. self.state = "Instruction" /\ self.decision_override = Nothing
    BY <2>2 DEF Init, ShowShareWords, Flow
  <2>4. store.shown = [s \in Paged |-> 0]
    BY DEF Init
  <2> QED BY <1>1, <2>1, <2>3, <2>4, ShareWordsPaged
<1> QED BY <1>1 DEF WordsInv, Init

LEMMA NextWordsInv ==
  ASSUME FlowInv, WordsInv, [Next]_vars
  PROVE  WordsInv'
<1>1. SUFFICES ASSUME flow = "ShowShareWords"
               PROVE  WordsInv'
  <2>1. flow' = flow
    BY DEF Next, vars, TouchStart, TouchMove, TouchEnd, AnimFrame, LongTimerFires,
           TimeoutFires, SwipeElapses, PromptElapses, AttachElapses
  <2> QED BY <2>1 DEF WordsInv
<1>2. ASSUME NEW type, NEW at, type # "SwipeEnd", NEW queued,
             event([type |-> type, at |-> at], queued), UNCHANGED <<flow, pages>>, Shown
      PROVE  WordsInv'
  <2>1. PICK e : e = [type |-> type, at |-> at]
    OBVIOUS
  <2> QED BY <1>1, <1>2, <2>1, WordsEvent
<1>3. CASE TouchStart
  BY <1>2, <1>3 DEF TouchStart, Touch
<1>4. CASE TouchMove
  BY <1>2, <1>4 DEF TouchMove, Touch
<1>5. CASE TouchEnd
  BY <1>2, <1>5 DEF TouchEnd, Touch
<1>6. CASE AnimFrame
  BY <1>2, <1>6 DEF AnimFrame
<1>7. CASE LongTimerFires
  BY <1>2, <1>7 DEF LongTimerFires
<1>8. CASE TimeoutFires
  BY <1>2, <1>8 DEF TimeoutFires
<1>9. ASSUME self'.state = self.state, self'.internal_state = self.internal_state,
             self'.decision_override = self.decision_override,
             store'.shown = store.shown, UNCHANGED <<flow, pages, result>>
      PROVE  WordsInv'
  BY <1>9 DEF WordsInv
<1>10. CASE SwipeElapses
  <2>1. PICK swipe : swipe = [self.swipe EXCEPT !.elapsed = TRUE]
    OBVIOUS
  <2>2. self' = [self EXCEPT !.swipe = swipe] /\ self \in SelfType
    BY <1>10, <2>1 DEF SwipeElapses, FlowInv, SelfOK
  <2> QED BY <1>9, <1>10, <2>2 DEF SwipeElapses, SelfType
<1>11. CASE PromptElapses
  <2>1. PICK prompt : store' = [store EXCEPT !.prompt = prompt]
    BY <1>11 DEF PromptElapses
  <2>2. store \in StoreType
    BY DEF FlowInv, StoreOK
  <2> QED BY <1>9, <1>11, <2>1, <2>2 DEF PromptElapses, StoreType
<1>12. CASE AttachElapses
  <2>1. store \in StoreType
    BY DEF FlowInv, StoreOK
  <2> QED BY <1>9, <1>12, <2>1 DEF AttachElapses, StoreType
<1>13. CASE UNCHANGED vars
  BY <1>9, <1>13 DEF vars
<1> QED BY <1>3, <1>4, <1>5, <1>6, <1>7, <1>8, <1>10, <1>11, <1>12, <1>13 DEF Next

(* Every word of a share has been shown when the user can confirm the      *)
(* backup, however often and whichever way the screens were swiped: the    *)
(* count of SwipeFlow and the page of ShareWords agree on the words, and   *)
(* the confirmation is entered from the last one only.  For any number of  *)
(* words.                                                                  *)
THEOREM WordsCorrect == Spec => []WordsAllShown
<1>1. WordsInv => WordsAllShown
  BY DEF WordsInv, WordsAllShown
<1> QED BY <1>1, FlowInvHolds, InitWordsInv, NextWordsInv, PTL DEF Spec

=============================================================================
