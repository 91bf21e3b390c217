------------------------------- MODULE Flows -------------------------------
(* The flows of the touch-screen model (model_mercury/flow): for each one  *)
(* the screens it stores and the two tables its FlowState implements,      *)
(* handle_swipe and handle_event.  Texts, icons and durations are left out.*)
EXTENDS Naturals

Nothing == [type |-> "Nothing"]
Goto(s, dir) == [type |-> "Goto", to |-> s, dir |-> dir]
Return(msg) == [type |-> "Return", msg |-> msg]

Directions == {"Up", "Down", "Left", "Right"}

(* What a screen holds besides texts: nothing, a menu of n items, a prompt *)
(* to tap or to hold, a status that times out, a number input.             *)
Choices == <<"Choice0", "Choice1", "Choice2">>
VerticalMenu(n) == {Choices[i] : i \in 1 .. n}
NoMessage == "no message"
Messages == {"Confirmed", "Cancelled", "Info", "Choice"} \cup VerticalMenu(3)

(* A Frame: the swipes its SwipeConfig allows, the axis of its pages, the  *)
(* message of its header button, its content, the message the content is   *)
(* mapped to.  "blocked" holds of contents that ignore touches while their *)
(* attach animation runs.                                                  *)
Frame(allowed, button, content) ==
  [allowed |-> allowed, axis |-> "none", button |-> button,
   content |-> content, items |-> {}, says |-> "Confirmed",
   blocked |-> content # "text"]
VerticalPages(screen) == [screen EXCEPT !.axis = "vertical"]
WithoutSwipeContent(screen) == [screen EXCEPT !.blocked = FALSE]
Menu(n) == [Frame({"Right"}, "Cancelled", "menu")
              EXCEPT !.items = VerticalMenu(n)]
StatusScreen(msg) ==
  [WithoutSwipeContent(Frame({}, NoMessage, "timeout")) EXCEPT !.says = msg]

(* AddressDetails shows a first page that can be swiped away and, to the   *)
(* left of it, the pages of the extended public keys.                      *)
AddressDetails ==
  [WithoutSwipeContent(Frame({"Right"}, "Cancelled", "details"))
     EXCEPT !.axis = "horizontal"]

ConfirmBlob(swipe_down) ==
  VerticalPages(Frame({"Up", "Left"} \cup swipe_down, "Info", "text"))
ShowInfo(button, allowed) == VerticalPages(Frame(allowed, button, "text"))

Flow(init, screens, swipes, events) ==
  [init |-> init, screens |-> screens, swipes |-> swipes, events |-> events]

(* The tables of a flow: by the screen it is on and a swipe or a message,  *)
(* what to do.  Nothing where a table has no entry; an event that is       *)
(* handled alike whatever the screen comes last, under Any.                *)
Entry(table, s, x) ==
  IF s \in DOMAIN table /\ x \in DOMAIN table[s] THEN table[s][x] ELSE Nothing
handle_swipe(table, s, dir) == Entry(table.swipes, s, dir)
handle_event(table, s, msg) ==
  IF Entry(table.events, s, msg) # Nothing THEN Entry(table.events, s, msg)
  ELSE Entry(table.events, "Any", msg)

(* What makes a flow of these: its screens are Frames, its decisions lead  *)
(* to its own screens, and it handles the message of every prompt.         *)
FrameType ==
  [allowed : SUBSET Directions, axis : {"none", "vertical", "horizontal"},
   button : Messages \cup {NoMessage}, content : STRING,
   items : SUBSET Messages, says : Messages, blocked : BOOLEAN]
Decisions(screens) ==
  [type : {"Goto"}, to : DOMAIN screens, dir : Directions]
    \cup [type : {"Return"}, msg : Messages]
IsFlow(f) ==
  /\ f.init \in DOMAIN f.screens
  /\ \A s \in DOMAIN f.screens : f.screens[s] \in FrameType
  /\ \A s \in DOMAIN f.swipes : \A dir \in DOMAIN f.swipes[s] :
       f.swipes[s][dir] \in Decisions(f.screens)
  /\ \A s \in DOMAIN f.events : \A msg \in DOMAIN f.events[s] :
       f.events[s][msg] \in Decisions(f.screens) /\ msg # NoMessage
  /\ \A s \in DOMAIN f.screens :
       f.screens[s].content \in {"tap", "hold"} =>
         handle_event(f, s, f.screens[s].says) # Nothing

-----------------------------------------------------------------------------
GetAddress_screens ==
  [Address |-> VerticalPages(Frame({"Up", "Left"}, "Info", "text")),
   Tap |-> Frame({"Down", "Left"}, NoMessage, "tap"),
   Confirmed |-> StatusScreen("Confirmed"),
   Menu |-> Menu(3),
   QrCode |-> Frame({"Right"}, "Cancelled", "text"),
   AccountInfo |-> AddressDetails,
   Cancel |-> Frame({"Up", "Right"}, "Cancelled", "text"),
   CancelTap |->
     WithoutSwipeContent(Frame({"Down", "Right"}, "Cancelled", "tap"))]

GetAddress == Flow("Address", GetAddress_screens,
  [Address |-> [Left |-> Goto("Menu", "Left"), Up |-> Goto("Tap", "Up")],
   Tap |-> [Down |-> Goto("Address", "Down"), Left |-> Goto("Menu", "Left")],
   Menu |-> [Right |-> Goto("Address", "Right")],
   QrCode |-> [Right |-> Goto("Menu", "Right")],
   AccountInfo |-> [Right |-> Goto("Menu", "Right")],
   Cancel |-> [Up |-> Goto("CancelTap", "Up"),
               Right |-> Goto("Menu", "Right")],
   CancelTap |-> [Down |-> Goto("Cancel", "Down"),
                  Right |-> Goto("Menu", "Right")]],
  [Address |-> [Info |-> Goto("Menu", "Left")],
   Tap |-> [Confirmed |-> Goto("Confirmed", "Up"),
            Info |-> Goto("Menu", "Left")],
   Confirmed |-> [Confirmed |-> Return("Confirmed")],
   Menu |-> [Choice0 |-> Goto("QrCode", "Left"),
             Choice1 |-> Goto("AccountInfo", "Left"),
             Choice2 |-> Goto("Cancel", "Left"),
             Cancelled |-> Goto("Address", "Right")],
   QrCode |-> [Cancelled |-> Goto("Menu", "Right")],
   AccountInfo |-> [Cancelled |-> Goto("Menu", "Right")],
   Cancel |-> [Cancelled |-> Goto("Menu", "Right")],
   CancelTap |-> [Confirmed |-> Return("Cancelled"),
                  Cancelled |-> Goto("Menu", "Right")]])

ConfirmOutput_screens ==
  [Address |-> ConfirmBlob({}),
   Amount |-> ConfirmBlob({"Down"}),
   Menu |-> Menu(2),
   AccountInfo |-> AddressDetails,
   CancelTap |-> Frame({"Down", "Left"}, "Cancelled", "tap")]

ConfirmOutput == Flow("Address", ConfirmOutput_screens,
  [Address |-> [Left |-> Goto("Menu", "Left"), Up |-> Goto("Amount", "Up")],
   Amount |-> [Left |-> Goto("Menu", "Left"), Up |-> Return("Confirmed"),
               Down |-> Goto("Address", "Down")],
   Menu |-> [Right |-> Goto("Address", "Right"),
             Left |-> Goto("AccountInfo", "Left")],
   AccountInfo |-> [Right |-> Goto("Menu", "Right")],
   CancelTap |-> [Right |-> Goto("Menu", "Right")]],
  [Menu |-> [Choice0 |-> Goto("AccountInfo", "Left"),
             Choice1 |-> Goto("CancelTap", "Left"),
             Cancelled |-> Goto("Address", "Right")],
   CancelTap |-> [Confirmed |-> Return("Cancelled")],
   Any |-> [Info |-> Goto("Menu", "Left"),
            Cancelled |-> Goto("Menu", "Right")]])

ConfirmSummary_screens ==
  [Summary |-> ShowInfo("Info", {"Up", "Left"}),
   Hold |-> Frame({"Down", "Left"}, "Info", "hold"),
   Menu |-> Menu(3),
   FeeInfo |-> ShowInfo("Cancelled", {"Right"}),
   AccountInfo |-> ShowInfo("Cancelled", {"Right"}),
   CancelTap |-> WithoutSwipeContent(Frame({"Right"}, "Cancelled", "tap"))]

ConfirmSummary == Flow("Summary", ConfirmSummary_screens,
  [Summary |-> [Left |-> Goto("Menu", "Left"), Up |-> Goto("Hold", "Up")],
   Hold |-> [Left |-> Goto("Menu", "Left"), Down |-> Goto("Summary", "Down")],
   Menu |-> [Right |-> Goto("Summary", "Right"),
             Left |-> Goto("FeeInfo", "Left")],
   AccountInfo |-> [Right |-> Goto("Menu", "Right")],
   FeeInfo |-> [Right |-> Goto("Menu", "Right")],
   CancelTap |-> [Right |-> Goto("Menu", "Right")]],
  [Hold |-> [Confirmed |-> Return("Confirmed")],
   Menu |-> [Choice0 |-> Goto("FeeInfo", "Left"),
             Choice1 |-> Goto("AccountInfo", "Left"),
             Choice2 |-> Goto("CancelTap", "Left"),
             Cancelled |-> Goto("Summary", "Right")],
   CancelTap |-> [Confirmed |-> Return("Cancelled")],
   Any |-> [Info |-> Goto("Menu", "Left"),
            Cancelled |-> Goto("Menu", "Right")]])

(* ConfirmAction with a prompt to tap or to hold, and without a prompt.    *)
ConfirmAction_screens(prompt) ==
  [Intro |-> VerticalPages(Frame({"Up", "Left"}, "Info", "text")),
   Menu |-> Menu(2),
   Confirm |-> Frame({"Down", "Left"}, "Info", prompt)]

ConfirmAction(prompt) == Flow("Intro", ConfirmAction_screens(prompt),
  [Intro |-> [Left |-> Goto("Menu", "Left"), Up |-> Goto("Confirm", "Up")],
   Menu |-> [Right |-> Goto("Intro", "Right")],
   Confirm |-> [Down |-> Goto("Intro", "Down"),
                Left |-> Goto("Menu", "Left")]],
  [Intro |-> [Info |-> Goto("Menu", "Left")],
   Menu |-> [Cancelled |-> Goto("Intro", "Right"),
             Choice0 |-> Return("Cancelled"), Choice1 |-> Return("Info")],
   Confirm |-> [Confirmed |-> Return("Confirmed"),
                Info |-> Goto("Menu", "Left")]])

ConfirmActionSimple == Flow("Intro",
  [Intro |-> VerticalPages(Frame({"Up", "Left"}, "Info", "text")),
   Menu |-> Menu(2)],
  [Intro |-> [Left |-> Goto("Menu", "Left"), Up |-> Return("Confirmed")],
   Menu |-> [Right |-> Goto("Intro", "Right")]],
  [Intro |-> [Info |-> Goto("Menu", "Left")],
   Menu |-> [Cancelled |-> Goto("Intro", "Right"),
             Choice0 |-> Return("Cancelled"), Choice1 |-> Return("Info")]])

ConfirmResetCreate_screens ==
  [Intro |-> Frame({"Up", "Left"}, "Info", "text"),
   Menu |-> Menu(1),
   Confirm |-> Frame({"Down", "Left"}, "Info", "hold")]

ConfirmResetCreate == Flow("Intro", ConfirmResetCreate_screens,
  [Intro |-> [Left |-> Goto("Menu", "Left"), Up |-> Goto("Confirm", "Up")],
   Menu |-> [Right |-> Goto("Intro", "Right")],
   Confirm |-> [Down |-> Goto("Intro", "Down"),
                Left |-> Goto("Menu", "Left")]],
  [Intro |-> [Info |-> Goto("Menu", "Left")],
   Menu |-> [Cancelled |-> Goto("Intro", "Right"),
             Choice0 |-> Return("Cancelled")],
   Confirm |-> [Confirmed |-> Return("Confirmed"),
                Info |-> Goto("Menu", "Left")]])

(* The third screen that new_obj stores has no state and is never shown.   *)
ConfirmResetRecover_screens ==
  [Intro |-> Frame({"Up", "Left"}, "Info", "text"),
   Menu |-> Menu(1)]

ConfirmResetRecover == Flow("Intro", ConfirmResetRecover_screens,
  [Intro |-> [Left |-> Goto("Menu", "Left"), Up |-> Return("Confirmed")],
   Menu |-> [Right |-> Goto("Intro", "Right")]],
  [Intro |-> [Info |-> Goto("Menu", "Left")],
   Menu |-> [Cancelled |-> Goto("Intro", "Right"),
             Choice0 |-> Return("Cancelled")]])

SetNewPin_screens ==
  [Intro |-> Frame({"Up", "Left"}, "Info", "text"),
   Menu |-> Menu(1),
   CancelPinIntro |-> Frame({"Up", "Right"}, "Cancelled", "text"),
   CancelPinConfirm |-> Frame({"Down", "Right"}, "Cancelled", "tap")]

SetNewPin == Flow("Intro", SetNewPin_screens,
  [Intro |-> [Left |-> Goto("Menu", "Left"), Up |-> Return("Confirmed")],
   Menu |-> [Right |-> Goto("Intro", "Right")],
   CancelPinIntro |-> [Up |-> Goto("CancelPinConfirm", "Up"),
                       Right |-> Goto("Intro", "Right")],
   CancelPinConfirm |-> [Down |-> Goto("CancelPinIntro", "Down"),
                         Right |-> Goto("Intro", "Right")]],
  [Intro |-> [Info |-> Goto("Menu", "Left")],
   Menu |-> [Choice0 |-> Goto("CancelPinIntro", "Left"),
             Cancelled |-> Goto("Intro", "Right")],
   CancelPinIntro |-> [Cancelled |-> Goto("Intro", "Right")],
   CancelPinConfirm |-> [Cancelled |-> Goto("CancelPinIntro", "Right"),
                         Confirmed |-> Return("Cancelled")]])

PromptBackup_screens ==
  [Intro |-> Frame({"Up", "Left"}, "Info", "text"),
   Menu |-> Menu(1),
   SkipBackupIntro |-> Frame({"Up", "Right"}, "Cancelled", "text"),
   SkipBackupConfirm |-> Frame({"Down", "Right"}, "Cancelled", "tap")]

PromptBackup == Flow("Intro", PromptBackup_screens,
  [Intro |-> [Left |-> Goto("Menu", "Left"), Up |-> Return("Confirmed")],
   Menu |-> [Right |-> Goto("Intro", "Right")],
   SkipBackupIntro |-> [Up |-> Goto("SkipBackupConfirm", "Up"),
                        Right |-> Goto("Intro", "Right")],
   SkipBackupConfirm |-> [Down |-> Goto("SkipBackupIntro", "Down"),
                          Right |-> Goto("Intro", "Right")]],
  [Intro |-> [Info |-> Goto("Menu", "Left")],
   Menu |-> [Choice0 |-> Goto("SkipBackupIntro", "Left"),
             Cancelled |-> Goto("Intro", "Right")],
   SkipBackupIntro |-> [Cancelled |-> Goto("Menu", "Right")],
   SkipBackupConfirm |-> [Cancelled |-> Goto("SkipBackupIntro", "Right"),
                          Confirmed |-> Return("Cancelled")]])

RequestNumber_screens ==
  [Number |->
     [Frame({"Up", "Left"}, "Info", "number") EXCEPT !.says = "Choice"],
   Menu |-> Menu(1),
   Info |-> Frame({"Right"}, "Cancelled", "text")]

RequestNumber == Flow("Number", RequestNumber_screens,
  [Number |-> [Left |-> Goto("Menu", "Left")],
   Menu |-> [Right |-> Goto("Number", "Right")],
   Info |-> [Right |-> Goto("Menu", "Right")]],
  [Number |-> [Info |-> Goto("Menu", "Left"), Choice |-> Return("Choice")],
   Menu |-> [Choice0 |-> Goto("Info", "Left"),
             Cancelled |-> Goto("Number", "Right")],
   Info |-> [Cancelled |-> Goto("Menu", "Right")]])

ShowShareWords_screens ==
  [Instruction |-> Frame({"Up"}, NoMessage, "text"),
   Words |-> VerticalPages(Frame({"Up", "Down"}, NoMessage, "text")),
   Confirm |-> Frame({"Down"}, NoMessage, "hold"),
   CheckBackupIntro |-> Frame({"Up"}, NoMessage, "text")]

ShowShareWords == Flow("Instruction", ShowShareWords_screens,
  [Instruction |-> [Up |-> Goto("Words", "Up")],
   Confirm |-> [Down |-> Goto("Words", "Down")],
   Words |-> [Up |-> Goto("Confirm", "Up"),
              Down |-> Goto("Instruction", "Down")],
   CheckBackupIntro |-> [Up |-> Return("Confirmed")]],
  [Words |-> [Cancelled |-> Goto("Instruction", "Down"),
              Confirmed |-> Goto("Confirm", "Up")],
   Confirm |-> [Confirmed |-> Goto("CheckBackupIntro", "Up")]])

WarningHiPrio_screens ==
  [Message |-> Frame({"Up", "Left"}, "Info", "text"),
   Menu |-> Menu(2),
   Cancelled |-> StatusScreen("Cancelled")]

WarningHiPrio == Flow("Message", WarningHiPrio_screens,
  [Message |-> [Left |-> Goto("Menu", "Left"), Up |-> Goto("Cancelled", "Up")],
   Menu |-> [Right |-> Goto("Message", "Right")]],
  [Message |-> [Info |-> Goto("Menu", "Left")],
   Menu |-> [Choice1 |-> Return("Confirmed"),
             Choice0 |-> Goto("Cancelled", "Up"),
             Cancelled |-> Goto("Message", "Right")],
   Cancelled |-> [Cancelled |-> Return("Cancelled")]])

ShowTutorial_screens ==
  [StepWelcome |-> Frame({}, NoMessage, "tap"),
   StepBegin |-> Frame({"Up"}, NoMessage, "text"),
   StepNavigation |-> Frame({"Up", "Down"}, NoMessage, "text"),
   StepMenu |-> Frame({"Up", "Down"}, "Info", "text"),
   StepHold |-> Frame({}, NoMessage, "hold"),
   StepDone |-> Frame({"Up"}, NoMessage, "text"),
   Menu |-> [Menu(3) EXCEPT !.allowed = {"Right", "Left"}],
   DidYouKnow |-> Frame({"Right"}, "Cancelled", "text"),
   HoldToExit |-> Frame({}, NoMessage, "hold")]

ShowTutorial == Flow("StepWelcome", ShowTutorial_screens,
  [StepBegin |-> [Up |-> Goto("StepNavigation", "Up")],
   StepNavigation |-> [Up |-> Goto("StepMenu", "Up"),
                       Down |-> Goto("StepBegin", "Down")],
   StepMenu |-> [Up |-> Goto("StepHold", "Up"),
                 Down |-> Goto("StepNavigation", "Down"),
                 Left |-> Goto("Menu", "Left")],
   Menu |-> [Left |-> Goto("DidYouKnow", "Left"),
             Right |-> Goto("StepBegin", "Right")],
   DidYouKnow |-> [Right |-> Goto("Menu", "Right")],
   StepDone |-> [Up |-> Return("Confirmed")]],
  [StepWelcome |-> [Confirmed |-> Goto("StepBegin", "Up")],
   StepMenu |-> [Info |-> Goto("Menu", "Left")],
   Menu |-> [Choice0 |-> Goto("DidYouKnow", "Left"),
             Choice1 |-> Goto("StepBegin", "Right"),
             Choice2 |-> Goto("HoldToExit", "Up"),
             Cancelled |-> Goto("StepMenu", "Right")],
   DidYouKnow |-> [Cancelled |-> Goto("Menu", "Right")],
   StepHold |-> [Confirmed |-> Goto("StepDone", "Up")],
   HoldToExit |-> [Confirmed |-> Goto("StepDone", "Up")]])

(* The flows by name.                                                      *)
FlowTable ==
  [GetAddress |-> GetAddress,
   ConfirmOutput |-> ConfirmOutput,
   ConfirmSummary |-> ConfirmSummary,
   ConfirmActionTap |-> ConfirmAction("tap"),
   ConfirmActionHold |-> ConfirmAction("hold"),
   ConfirmActionSimple |-> ConfirmActionSimple,
   ConfirmResetCreate |-> ConfirmResetCreate,
   ConfirmResetRecover |-> ConfirmResetRecover,
   SetNewPin |-> SetNewPin,
   PromptBackup |-> PromptBackup,
   RequestNumber |-> RequestNumber,
   ShowShareWords |-> ShowShareWords,
   WarningHiPrio |-> WarningHiPrio,
   ShowTutorial |-> ShowTutorial]
=============================================================================
