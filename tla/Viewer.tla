------------------------------- MODULE Viewer -------------------------------
(***************************************************************************)
(* The mouse of the OpenGL viewer: which operation the buttons, the        *)
(* modifier keys and the menu put the widget into, what is selected by a   *)
(* click or a lasso, and when the scene is drawn in full again after it    *)
(* was drawn with less detail (turbo).  The scene is a row of positions    *)
(* with at most one object at each; the camera is left out, of it only     *)
(* the update of the window is kept, and so are cursors and tips.          *)
(***************************************************************************)
EXTENDS Integers, Sequences, FiniteSets, SequencesExt

CONSTANTS
    Objects, None,
    DragAble,    \* objects with OP_DRAG_ALLOWED
    At,          \* the object at each position of the window
    Pointer,     \* where the pointer may be: positions, and one outside
    Buttons, Modifiers,
    Toggles,     \* may the menu switch turbo mode while a button is pressed?
    HitLimits,   \* what setMaxHits is called with
    MaxSelected  \* bound on the length of the selection

ASSUME ViewerAssumption ==
    /\ None \notin Objects /\ DragAble \subseteq Objects
    /\ DOMAIN At \subseteq Pointer /\ \A p \in DOMAIN At : At[p] \in Objects \cup {None}
    /\ Buttons \subseteq {"Left", "Middle", "Right"}
    /\ Modifiers \subseteq {"Shift", "Control"}

VARIABLES
    m_op_mode, turbomode, doesturbo, maxhits,
    m_selected_objects,
    selected,    \* OP_SELECTED of each object
    held, mods,  \* what the user presses
    grabbed,     \* the mouse belongs to the widget
    click, pos, moved,  \* the event: click_x, win_x, moved
    dirty,       \* an update() that is not painted yet
    frame,       \* the detail of what is on the screen
    lasso,       \* boxes that are inverted on the screen
    threw        \* selectHits threw: the program ends
vars == <<m_op_mode, turbomode, doesturbo, maxhits, m_selected_objects, selected,
          held, mods, grabbed, click, pos, moved, dirty, frame, lasso, threw>>

mouse == <<held, click>>
objects == <<m_selected_objects, selected>>
screen == <<frame, lasso>>
settings == <<turbomode, maxhits>>

Camera == {"ROTATING", "TRANSLATING", "ZOOMING", "FOVING", "DRAGGING", "TRUCKING", "GYRATING"}
Waiting == {"HOVERING", "DO_LASSOSELECT", "DO_LASSOZOOM"}
OperationMode == Camera \cup Waiting \cup {"PICKING", "POSTING", "LASSOSELECT", "LASSOZOOM"}

TypeOK ==
    /\ m_op_mode \in OperationMode
    /\ turbomode \in BOOLEAN /\ doesturbo \in BOOLEAN /\ maxhits \in HitLimits
    /\ m_selected_objects \in Seq(Objects) /\ Len(m_selected_objects) <= MaxSelected
    /\ selected \in [Objects -> BOOLEAN]
    /\ held \subseteq Buttons /\ mods \subseteq Modifiers
    /\ click \in Pointer /\ pos \in Pointer
    /\ grabbed \in BOOLEAN /\ moved \in BOOLEAN /\ dirty \in BOOLEAN /\ threw \in BOOLEAN
    /\ frame \in {"full", "turbo"} /\ lasso \subseteq Pointer \X Pointer

Init ==
    /\ m_op_mode = "HOVERING" /\ turbomode \in BOOLEAN /\ doesturbo = FALSE
    /\ maxhits \in HitLimits
    /\ m_selected_objects = <<>> /\ selected = [o \in Objects |-> FALSE]
    /\ held = {} /\ mods = {} /\ grabbed = FALSE
    /\ click \in DOMAIN At /\ pos = click /\ moved = FALSE
    /\ dirty = FALSE /\ frame = "full" /\ lasso = {} /\ threw = FALSE
-----------------------------------------------------------------------------
(* setOp, and an update() of the caller.                                   *)
UpdateTurbo(o) == o = "HOVERING" /\ doesturbo

TurboIn(o) == IF o \in Camera THEN turbomode ELSE o # "HOVERING" /\ doesturbo

SetOp(o, update) ==
    LET same == \/ o = m_op_mode
                \/ <<o, m_op_mode>> \in {<<"DO_LASSOSELECT", "LASSOSELECT">>,
                                         <<"DO_LASSOZOOM", "LASSOZOOM">>}
    IN  /\ m_op_mode' = IF same THEN m_op_mode ELSE o
        /\ doesturbo' = IF same THEN doesturbo ELSE TurboIn(o)
        /\ dirty' = (dirty \/ update \/ (~same /\ UpdateTurbo(o)))

(* drawLasso inverts a box, so that a second call erases it again.         *)
DrawLasso(boxes, from, to) ==
    SymDiff(boxes, {<<from, to>>})

Clamp(p) == IF p \in DOMAIN At THEN p ELSE Max(DOMAIN At)  \* FXCLAMP(0, x, width - 1)

(* selectHits with the objects of a part of the window.                    *)
Picks == maxhits # 0
Throws == Picks /\ maxhits < 0
Pick(p) == IF Picks /\ p \in DOMAIN At THEN At[p] ELSE None
InLasso(p, q) ==
    {At[r] : r \in {r \in DOMAIN At : (p <= r /\ r <= q) \/ (q <= r /\ r <= p)}} \ {None}

(* SetSelection: takes OP_SELECTED from the old, gives it to the new.      *)
OldLast(sel) ==
    [o \in Objects |-> ~Contains(m_selected_objects, o) /\ (Contains(sel, o) \/ selected[o])]
Marks(sel) ==
    [o \in Objects |->
        Contains(sel, o) \/ (selected[o] /\ ~Contains(m_selected_objects, o))]

SetSelection(sel) ==
    /\ m_selected_objects' = sel
    /\ selected' = IF sel = m_selected_objects THEN selected ELSE Marks(sel)

(* A click that picks an object: Shift adds, Control toggles.              *)

Picked(obj) ==
    IF obj = None THEN <<>>
    ELSE IF "Shift" \in mods THEN Append(m_selected_objects, obj)
    ELSE IF "Control" \notin mods THEN <<obj>>
    ELSE IF Contains(m_selected_objects, obj) THEN RemoveFirst(m_selected_objects, obj)
    ELSE Append(m_selected_objects, obj)
-----------------------------------------------------------------------------
(* The mode for the right button alone.                                    *)
RightMode(plain) ==
    IF "Shift" \in mods THEN "GYRATING" ELSE IF "Control" \in mods THEN "FOVING" ELSE plain
ZoomMode == IF "Shift" \in mods THEN "TRUCKING" ELSE "ZOOMING"

Press(b) ==
    /\ b \in Buttons \ held /\ ~threw
    /\ held' = held \cup {b} /\ grabbed' = TRUE
    /\ click' = pos /\ moved' = FALSE
    /\ UNCHANGED <<settings, objects, mods, pos, frame>>

onLeftBtnPress ==
    /\ Press("Left")
    /\ LET lassos == m_op_mode \in {"DO_LASSOSELECT", "DO_LASSOZOOM"}
           drags == m_selected_objects # <<>> /\ mods = {}
                    /\ ToSet(m_selected_objects) \subseteq DragAble
           mode == IF "Right" \in held THEN ZoomMode
                   ELSE IF "Middle" \in held THEN "ROTATING"
                   ELSE IF lassos THEN
                       IF pos \notin DOMAIN At THEN m_op_mode
                       ELSE IF m_op_mode = "DO_LASSOZOOM" THEN "LASSOZOOM" ELSE "LASSOSELECT"
                   ELSE IF drags /\ Contains(m_selected_objects, Pick(pos)) THEN "DRAGGING"
                   ELSE "PICKING"
       IN  /\ threw' = (drags /\ ~lassos /\ held \cap {"Right", "Middle"} = {} /\ Throws)
           /\ SetOp(IF threw' THEN m_op_mode ELSE mode, FALSE)
           /\ lasso' = IF mode \in {"LASSOZOOM", "LASSOSELECT"}
                       THEN DrawLasso(lasso, pos, pos) ELSE lasso

onMiddleBtnPress ==
    /\ Press("Middle") /\ SetOp(ZoomMode, FALSE)
    /\ UNCHANGED <<lasso, threw>>

onRightBtnPress ==
    /\ Press("Right")
    /\ SetOp(IF "Left" \in held THEN ZoomMode
             ELSE RightMode(IF "Middle" \in held THEN "TRANSLATING" ELSE "POSTING"), FALSE)
    /\ UNCHANGED <<lasso, threw>>
-----------------------------------------------------------------------------
(* Another button is still pressed after a release: grab again.            *)
StaysGrabbed(b) == TRUE
GrabsAgain(b) == held # {b}

Release(b) ==
    /\ b \in held /\ ~threw
    /\ held' = held \ {b} /\ grabbed' = GrabsAgain(b)
    /\ UNCHANGED <<settings, mods, click, pos, moved, frame>>

LeftReleased(mode) ==
    /\ held = {"Left"} /\ m_op_mode = mode
    /\ Release("Left")

ReleaseLeftOfSeveral ==
    /\ held # {"Left"} /\ Release("Left")
    /\ SetOp(IF "Right" \in held THEN RightMode("TRANSLATING") ELSE ZoomMode, FALSE)
    /\ UNCHANGED <<objects, lasso, threw>>

ReleaseLasso ==
    \E mode \in {"LASSOSELECT", "LASSOZOOM"} :
        /\ LeftReleased(mode)
        /\ lasso' = DrawLasso(lasso, click, Clamp(pos))
        /\ threw' = (mode = "LASSOSELECT" /\ Throws)
        /\ SetOp(IF threw' THEN mode ELSE "HOVERING", mode = "LASSOZOOM" /\ Clamp(pos) # click)
        /\ UNCHANGED objects

ReleasePick ==
    LET sel == Picked(Pick(click))
    IN  /\ LeftReleased("PICKING")
        /\ threw' = Throws
        /\ IF Throws THEN UNCHANGED objects
           ELSE Len(sel) <= MaxSelected /\ SetSelection(sel)
        /\ SetOp("HOVERING", ~Throws /\ sel # m_selected_objects)
        /\ UNCHANGED lasso

ReleaseLeft ==
    /\ LeftReleased(m_op_mode)
    /\ m_op_mode \notin {"PICKING", "LASSOSELECT", "LASSOZOOM"}
    /\ SetOp("HOVERING", FALSE)
    /\ UNCHANGED <<objects, lasso, threw>>

onLeftBtnRelease == ReleaseLeftOfSeveral \/ ReleaseLasso \/ ReleasePick \/ ReleaseLeft

onMiddleBtnRelease ==
    /\ Release("Middle")
    /\ SetOp(IF "Left" \in held THEN "ROTATING"
             ELSE IF "Right" \in held THEN RightMode("TRANSLATING") ELSE "HOVERING", FALSE)
    /\ UNCHANGED <<objects, lasso, threw>>

onRightBtnRelease ==
    /\ Release("Right")
    /\ SetOp(IF "Left" \in held THEN "ROTATING"
             ELSE IF "Middle" \in held THEN ZoomMode ELSE "HOVERING", FALSE)
    /\ threw' = (held = {"Right"} /\ m_op_mode = "POSTING" /\ Throws)
    /\ UNCHANGED <<objects, lasso>>
-----------------------------------------------------------------------------
(* onMotion: picking becomes a rotation or a lasso, posting a translation. *)
onMotion(p) ==
    /\ ~threw /\ p # pos
    /\ pos' = p /\ moved' = (moved \/ (held # {} /\ p # click))
    /\ CASE m_op_mode \in Waiting -> SetOp(m_op_mode, FALSE) /\ UNCHANGED lasso
         [] m_op_mode \in {"PICKING", "POSTING"} /\ ~moved' ->
                SetOp(m_op_mode, FALSE) /\ UNCHANGED lasso
         [] m_op_mode = "PICKING" /\ moved' /\ mods # {} ->
                SetOp("LASSOSELECT", FALSE) /\ lasso' = DrawLasso(lasso, click, p)
         [] m_op_mode = "PICKING" /\ moved' /\ mods = {} ->
                SetOp("ROTATING", TRUE) /\ UNCHANGED lasso
         [] m_op_mode = "POSTING" /\ moved' -> SetOp("TRANSLATING", TRUE) /\ UNCHANGED lasso
         [] m_op_mode \in Camera -> SetOp(m_op_mode, TRUE) /\ UNCHANGED lasso
         [] m_op_mode \in {"LASSOSELECT", "LASSOZOOM"} ->
                /\ SetOp(m_op_mode, FALSE)
                /\ lasso' = DrawLasso(DrawLasso(lasso, click, Clamp(pos)), click, Clamp(p))
    /\ UNCHANGED <<settings, objects, mouse, mods, grabbed, frame, threw>>

(* onKeyPress, onKeyRelease: the mode follows the key while a button is    *)
(* pressed.                                                                *)

KeyMode(shifted, controlled) ==
    LET zooms == "Middle" \in held \/ {"Left", "Right"} \subseteq held
    IN  IF m_op_mode = "HOVERING" THEN m_op_mode
        ELSE IF shifted # "" /\ zooms THEN shifted
        ELSE IF controlled # "" /\ "Right" \in held THEN controlled
        ELSE m_op_mode

Key(k, down) ==
    /\ ~threw /\ k \in Modifiers /\ down = (k \notin mods)
    /\ mods' = IF down THEN mods \cup {k} ELSE mods \ {k}
    /\ SetOp(CASE k = "Shift" /\ down -> KeyMode("TRUCKING", "GYRATING")
               [] k = "Shift" /\ ~down -> KeyMode("ZOOMING", "TRANSLATING")
               [] k = "Control" /\ down -> KeyMode("", "FOVING")
               [] k = "Control" /\ ~down -> KeyMode("", "TRANSLATING"), FALSE)
    /\ UNCHANGED <<settings, objects, mouse, grabbed, pos, moved, screen, threw>>

onUngrabbed ==
    /\ grabbed /\ ~threw
    /\ grabbed' = FALSE
    /\ m_op_mode' = "HOVERING" /\ doesturbo' = FALSE
    /\ dirty' = (dirty \/ (m_op_mode # "HOVERING" /\ doesturbo))
    /\ UNCHANGED <<settings, objects, mouse, mods, pos, moved, screen, threw>>

OnCmdLasso(mode) ==
    /\ ~threw /\ SetOp(mode, FALSE)
    /\ UNCHANGED <<settings, objects, mouse, mods, grabbed, pos, moved, screen, threw>>

OnCmdTurbo ==
    /\ ~threw /\ (held = {} \/ Toggles)
    /\ turbomode' = ~turbomode
    /\ doesturbo' = (turbomode' /\ doesturbo)
    /\ UNCHANGED <<m_op_mode, maxhits, objects, mouse, mods, grabbed, pos, moved, dirty,
                   screen, threw>>

Redraw ==
    /\ dirty /\ ~threw
    /\ dirty' = FALSE /\ lasso' = {}
    /\ frame' = IF doesturbo THEN "turbo" ELSE "full"
    /\ UNCHANGED <<m_op_mode, doesturbo, settings, objects, mouse, mods, grabbed, pos,
                   moved, threw>>

Next ==
    \/ onLeftBtnPress \/ onMiddleBtnPress \/ onRightBtnPress
    \/ onLeftBtnRelease \/ onMiddleBtnRelease \/ onRightBtnRelease
    \/ \E p \in Pointer : onMotion(p)
    \/ \E k \in Modifiers, down \in BOOLEAN : Key(k, down)
    \/ \E mode \in {"DO_LASSOSELECT", "DO_LASSOZOOM"} : OnCmdLasso(mode)
    \/ onUngrabbed \/ OnCmdTurbo \/ Redraw

Spec == Init /\ [][Next]_vars
-----------------------------------------------------------------------------
(* Whatever was pressed and released in whatever order, and wherever the   *)
(* grab got lost: without a button no operation goes on, and the mouse is  *)
(* free.                                                                   *)
IdleWhenReleased == held = {} => m_op_mode \in Waiting /\ ~grabbed

(* With the middle button alone the mode follows the Shift key, however it *)
(* came to this, as the table in TCOpenGLViewer.cpp has it.                *)
MiddleFollowsShift ==
    held = {"Middle"} /\ m_op_mode \notin Waiting => m_op_mode = ZoomMode

(* Less detail is drawn only while an operation goes on.                   *)
TurboInOperation == doesturbo => turbomode /\ m_op_mode \notin {"HOVERING", "PICKING", "POSTING"}

(* TCOpenGLViewer.h: after an operation the scene is drawn in full again.  *)
FullAtRest == m_op_mode = "HOVERING" /\ ~dirty => frame = "full"

(* The mode fits what is pressed, in whatever order it was: an operation   *)
(* ends with its button, the middle button follows the Shift key, and less *)
(* detail is drawn only while an operation goes on.                        *)
ModeFits == IdleWhenReleased /\ MiddleFollowsShift /\ TurboInOperation /\ FullAtRest

(* An object looks selected exactly when it is among the selected ones.    *)
SelectedExact == \A o \in Objects : selected[o] <=> Contains(m_selected_objects, o)

(* The table: a click with Control toggles the selection of an object.     *)
ControlToggles ==
    [][LeftReleased("PICKING") /\ mods = {"Control"} /\ ~threw' /\ Pick(click) # None =>
         (selected'[Pick(click)] <=> ~selected[Pick(click)])]_vars

(* A lasso selects the objects in it.                                      *)
LassoSelects ==
    [][LeftReleased("LASSOSELECT") /\ mods = {} /\ ~threw' =>
         \A o \in InLasso(click, pos) : selected'[o]]_vars

(* drawLasso: what is drawn is erased when the lasso ends.                 *)
LassoErased == m_op_mode = "HOVERING" /\ grabbed = FALSE /\ ~dirty => lasso = {}

(* setMaxHits: without a positive number there is no picking.              *)
NoPickWithoutHits == maxhits <= 0 => ~threw
=============================================================================
