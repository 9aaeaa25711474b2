----------------------------- MODULE InputRouting -----------------------------
(***************************************************************************)
(* From a host's raw report to a step of the viewer: normalization and the  *)
(* semantic router (crates/lumenplot-runtime/src/input.rs) composed with    *)
(* the viewer that applies what was routed (crates/lumenplot-viewer).       *)
(*                                                                         *)
(* Routing is pure, so it is given by operators; a report that is refused,  *)
(* deferred or changes nothing is a stuttering step.  The focus order is    *)
(* that of input.rs.                                                       *)
(***************************************************************************)
EXTENDS Viewer

CONSTANTS
  Ids,    \* the keys of series and annotations a report may carry
  Codes   \* the raw codes a host may send, those outside the tables included

ASSUME InputAssumption == Codes \subseteq Nat /\ None \notin Ids

Bare(kind) == [kind |-> kind, id |-> None]
Keyed(kind, id) == [kind |-> kind, id |-> id]

Unknown == "Unknown"

-----------------------------------------------------------------------------
(* Host codes.  A code outside its table normalizes to Unknown, which       *)
(* stands for the error of the table.                                      *)
PhaseTable == <<"Hover", "Drag", "Click", "DoubleClick", "Wheel", "Trackpad", "Cancel",
                "Press", "Move", "Release">>
ButtonTable == <<"Left", "Right", "Middle">>
TargetTable == <<"PlotBackground", "Series", "XAxis", "YAxis", "Legend", "LegendEntry",
                 "Annotation", "Other">>
KeyTable == <<"ArrowLeft", "ArrowRight", "ArrowUp", "ArrowDown", "PageUp", "PageDown",
              "Home", "Tab", "Enter", "Space", "Escape", "Delete", "A", "C", "E", "G",
              "L", "R", "V">>
ModifierTable == <<"Shift", "Control", "Alt", "Super">>

Decode(table, code, otherwise) ==
  IF code < Len(table) THEN table[code + 1] ELSE otherwise

\* An absent button is no code at all.
DecodeButton(code) == IF code = None THEN None ELSE Decode(ButtonTable, code, "Other")

DecodeTarget(code, id) ==
  LET kind == Decode(TargetTable, code, Unknown)
  IN IF kind \in {"Series", "LegendEntry", "Annotation"} THEN Keyed(kind, id) ELSE Bare(kind)

PointerReports ==
  [phase : Codes, button : Codes \cup {None}, bits : SUBSET (0 .. 4), target : Codes, id : Ids]

KeyReports == [key : Codes, bits : SUBSET (0 .. 4)]

\* ModifierKeys::from_bits: the bits set in a byte, those above 3 unknown.
KnownBits(bits) == \A b \in bits : b < Len(ModifierTable)
ModifiersOf(bits) == {ModifierTable[b + 1] : b \in bits}

-----------------------------------------------------------------------------
Refused == [op |-> "Refused"]
Plain(op) == [op |-> op]
OnAxis(op, axis) == [op |-> op, axis |-> axis]
Toward(op, direction) == [op |-> op, direction |-> direction]
Upon(op, target) == [op |-> op, target |-> target]

\* gesture_axis; None where a drag or scroll has no axis.
GestureAxis(target) ==
  CASE target.kind \in {"PlotBackground", "Series"} -> "Both"
    [] target.kind = "XAxis" -> "X"
    [] target.kind = "YAxis" -> "Y"
    [] OTHER -> None

IsContextTarget(target) == target.kind # "Other"

RouteDrag(e) ==
  IF e.button # "Left" \/ GestureAxis(e.target) = None THEN Refused
  ELSE IF e.modifiers = {} THEN OnAxis("Pan", GestureAxis(e.target))
  ELSE IF e.modifiers = {"Shift"} THEN OnAxis("BoxZoom", GestureAxis(e.target))
  ELSE Refused

RouteScroll(e) ==
  IF e.button # None \/ GestureAxis(e.target) = None \/ e.modifiers # {} THEN Refused
  ELSE OnAxis("Zoom", GestureAxis(e.target))

RouteLeftClick(target) ==
  CASE target.kind = "PlotBackground" -> Plain("ClearSelection")
    [] target.kind \in {"Series", "Annotation"} -> Upon("Select", target)
    [] target.kind = "LegendEntry" -> Upon("LegendToggle", target)
    [] OTHER -> Refused

RouteClick(e) ==
  IF e.modifiers # {} THEN Refused
  ELSE IF e.button = "Left" THEN RouteLeftClick(e.target)
  ELSE IF e.button = "Right" /\ IsContextTarget(e.target) THEN Upon("Context", e.target)
  ELSE Refused

RouteDoubleClick(e) ==
  IF e.button # "Left" \/ e.modifiers # {} THEN Refused
  ELSE IF GestureAxis(e.target) # None THEN Plain("Home")
  ELSE IF e.target.kind = "LegendEntry" THEN Upon("LegendSolo", e.target)
  ELSE Refused

RouteHover(e) ==
  IF e.button = None /\ e.modifiers = {} /\ IsContextTarget(e.target)
  THEN Upon("Hover", e.target)
  ELSE Refused

RouteCancel(e) == IF e.button = None /\ e.modifiers = {} THEN Plain("Cancel") ELSE Refused

RoutePointer(e) ==
  CASE e.phase = "Hover" -> RouteHover(e)
    [] e.phase = "Cancel" -> RouteCancel(e)
    [] e.phase = "Drag" -> RouteDrag(e)
    [] e.phase \in {"Wheel", "Trackpad"} -> RouteScroll(e)
    [] e.phase = "Click" -> RouteClick(e)
    [] e.phase = "DoubleClick" -> RouteDoubleClick(e)
    [] OTHER -> Refused          \* Press, Move, Release: not yet a gesture

\* normalize, then route: what becomes of a pointer report.
PointerAction(r) ==
  LET phase == Decode(PhaseTable, r.phase, Unknown)
      target == DecodeTarget(r.target, r.id)
  IN IF phase = Unknown \/ ~KnownBits(r.bits) \/ target.kind = Unknown
     THEN Refused
     ELSE RoutePointer([phase |-> phase, button |-> DecodeButton(r.button),
                        modifiers |-> ModifiersOf(r.bits), target |-> target])

-----------------------------------------------------------------------------
Focused(focused, kinds) == focused # None /\ focused.kind \in kinds

\* The keys that act on what has the focus; FocusRequired and the other
\* focus errors are Refused.
RouteFocused(key, focused) ==
  CASE key = "V" /\ Focused(focused, {"Series", "LegendEntry"}) ->
         Upon("ToggleSeriesVisibility", focused)
    [] key \in {"L", "Enter", "Space"} /\ Focused(focused, {"LegendEntry"}) ->
         Upon("LegendToggle", focused)
    [] key = "R" /\ Focused(focused, {"LegendEntry"}) -> Upon("LegendRestore", focused)
    [] key = "A" /\ Focused(focused, {"Plot"}) -> Plain("AnnotationCreate")
    [] key \in {"A", "Enter"} /\ Focused(focused, {"Annotation"}) ->
         Upon("AnnotationEdit", focused)
    [] key = "Delete" /\ Focused(focused, {"Annotation"}) ->
         Upon("AnnotationDelete", focused)
    [] OTHER -> Refused

RouteTab(modifiers) ==
  CASE modifiers = {} -> Toward("MoveFocus", "Next")
    [] modifiers = {"Shift"} -> Toward("MoveFocus", "Previous")
    [] OTHER -> Refused

ArrowDirection ==
  [ArrowLeft |-> "Left", ArrowRight |-> "Right", ArrowUp |-> "Up", ArrowDown |-> "Down"]

RouteKeyboard(key, modifiers, focused) ==
  IF key = "Tab" THEN RouteTab(modifiers)
  ELSE IF modifiers # {} THEN Refused
  ELSE CASE key \in DOMAIN ArrowDirection -> Toward("Navigate", ArrowDirection[key])
         [] key = "PageUp" -> Toward("History", "Previous")
         [] key = "PageDown" -> Toward("History", "Next")
         [] key = "Home" -> Plain("Home")
         [] key = "Escape" -> Plain("Cancel")
         [] key = "G" -> Plain("ToggleGrid")
         [] key = "C" -> Plain("ToggleCursor")
         [] key = "E" -> Plain("Export")
         [] OTHER -> RouteFocused(key, focused)

KeyAction(r, focused) ==
  IF KnownBits(r.bits)
  THEN RouteKeyboard(Decode(KeyTable, r.key, "Other"), ModifiersOf(r.bits), focused)
  ELSE Refused

\* viewer_focus_to_target
FocusTarget(f) == IF f = "None" THEN None ELSE Bare(f)

-----------------------------------------------------------------------------
PointerActions == {PointerAction(r) : r \in PointerReports} \ {Refused}

KeyActionsFrom == [f \in {"None", "Plot", "Legend"} |->
                     {KeyAction(r, FocusTarget(f)) : r \in KeyReports} \ {Refused}]

AxesOf(restriction) ==
  CASE restriction = "Both" -> Axes
    [] restriction = "X" -> Axes \cap {"x"}
    [] restriction = "Y" -> Axes \cap {"y"}

NavigationAxis(direction) == IF direction \in {"Left", "Right"} THEN "x" ELSE "y"
NavigationWay(direction) == IF direction \in {"Right", "Up"} THEN 1 ELSE -1

\* next_focus and previous_focus
NextFocus(f) == IF f = "Plot" THEN "Legend" ELSE "Plot"
PreviousFocus(f) == IF f \in {"None", "Plot"} THEN "Legend" ELSE "Plot"

ApplyMoveFocus(direction) ==
  /\ focus' = IF direction = "Next" THEN NextFocus(focus) ELSE PreviousFocus(focus)
  /\ UNCHANGED <<scene, history, pending, begun, disturbed>>

ApplyNavigation(direction) ==
  /\ NavigationAxis(direction) \in Axes
  /\ ApplyNavigate(NavigationAxis(direction), NavigationWay(direction))

\* What the viewer does with an action it does not defer.
Perform(a) ==
  \/ a.op = "Pan" /\ ApplyPan(AxesOf(a.axis))
  \/ a.op = "Zoom" /\ ApplyZoom(AxesOf(a.axis))
  \/ a.op = "BoxZoom" /\ ApplyBox(AxesOf(a.axis))
  \/ a.op = "Home" /\ ApplyHome
  \/ a.op = "Navigate" /\ ApplyNavigation(a.direction)
  \/ a.op = "History" /\ a.direction = "Previous" /\ ApplyHistoryPrevious
  \/ a.op = "History" /\ a.direction = "Next" /\ ApplyHistoryNext
  \/ a.op = "Cancel" /\ CancelPending
  \/ a.op = "MoveFocus" /\ ApplyMoveFocus(a.direction)

\* apply_action takes any action that was routed, whatever report led to it and
\* wherever the focus has moved since.
HandleAction == \E a \in PointerActions \cup UNION {KeyActionsFrom[f] : f \in DOMAIN KeyActionsFrom} :
                  Perform(a)
HandleKey == \E a \in KeyActionsFrom[focus] : Perform(a)

\* The viewer's buffered pan has no route yet; its caller is the viewer.
BufferedPan == \E axes \in (SUBSET Axes) \ {{}} : BufferPan(axes)

InputNext == HandleAction \/ HandleKey \/ BufferedPan \/ CommitPending \/ SceneMut

InputSpec == Init /\ [][InputNext]_vars

=============================================================================
