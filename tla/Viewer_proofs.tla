--------------------------- MODULE Viewer_proofs ---------------------------
(***************************************************************************)
(* Proofs about the mouse of the viewer, for every window, all objects,    *)
(* buttons and keys.                                                       *)
(***************************************************************************)
EXTENDS Viewer, TLAPS

(* An object looks selected exactly when it is among the selected ones:    *)
(* SetSelection of TCOpenGLViewer.cpp is the only one that writes either.  *)
SelectionInv ==
    selected = [o \in Objects |-> Contains(m_selected_objects, o)]

LEMMA SelectionStep ==
    SelectionInv /\ [Next]_vars => SelectionInv'
<1> SUFFICES ASSUME SelectionInv, [Next]_vars PROVE SelectionInv'
  OBVIOUS
<1>1. CASE UNCHANGED objects
  BY <1>1 DEF SelectionInv, objects
<1>2. ASSUME NEW sel, SetSelection(sel) PROVE SelectionInv'
  <2>1. CASE sel = m_selected_objects
    BY <1>2, <2>1 DEF SetSelection, SelectionInv
  <2>2. CASE sel # m_selected_objects
    <3>1. m_selected_objects' = sel /\ selected' = Marks(sel)
      BY <1>2, <2>2 DEF SetSelection
    <3>2. \A o \in Objects : selected[o] = Contains(m_selected_objects, o)
      BY DEF SelectionInv
    <3>3. ASSUME NEW o \in Objects
          PROVE  (Contains(sel, o) \/ (selected[o] /\ ~Contains(m_selected_objects, o)))
                   = Contains(sel, o)
      BY <3>2, Zenon DEF Contains
    <3>4. Marks(sel) = [o \in Objects |-> Contains(sel, o)]
      BY <3>3, Zenon DEF Marks
    <3> QED
      BY <3>1, <3>4 DEF SelectionInv
  <2> QED
    BY <2>1, <2>2
<1>3. ReleasePick => SelectionInv'
  BY <1>1, <1>2 DEF ReleasePick
<1>4. onLeftBtnRelease => SelectionInv'
  <2>1. ReleaseLeftOfSeveral \/ ReleaseLasso \/ ReleaseLeft => UNCHANGED objects
    BY DEF ReleaseLeftOfSeveral, ReleaseLasso, ReleaseLeft, objects
  <2> QED
    BY <1>1, <1>3, <2>1 DEF onLeftBtnRelease
<1>5. onLeftBtnPress \/ onMiddleBtnPress \/ onRightBtnPress => UNCHANGED objects
  BY DEF onLeftBtnPress, onMiddleBtnPress, onRightBtnPress, Press, objects
<1>6. onMiddleBtnRelease \/ onRightBtnRelease => UNCHANGED objects
  BY DEF onMiddleBtnRelease, onRightBtnRelease, objects
<1>7. ASSUME NEW p, onMotion(p) PROVE UNCHANGED objects
  BY <1>7 DEF onMotion, objects
<1>8. ASSUME NEW k, NEW down, Key(k, down) PROVE UNCHANGED objects
  BY <1>8 DEF Key, objects
<1>9. ASSUME NEW mode, OnCmdLasso(mode) PROVE UNCHANGED objects
  BY <1>9 DEF OnCmdLasso, objects
<1>10. onUngrabbed \/ OnCmdTurbo \/ Redraw \/ UNCHANGED vars => UNCHANGED objects
  BY DEF onUngrabbed, OnCmdTurbo, Redraw, vars, objects
<1> QED
  BY <1>1, <1>4, <1>5, <1>6, <1>7, <1>8, <1>9, <1>10 DEF Next

(* SetSelection: however clicks with and without Shift and Control follow  *)
(* each other, OP_SELECTED is set in exactly the objects of                *)
(* m_selected_objects, also when an object is picked that is in it twice.  *)
THEOREM SelectionIsExact == Spec => []SelectedExact
<1>1. Init => SelectionInv
  BY DEF Init, SelectionInv, Contains
<1>2. SelectionInv => SelectedExact
  BY DEF SelectionInv, SelectedExact
<1> QED
  BY <1>1, <1>2, SelectionStep, PTL DEF Spec
-----------------------------------------------------------------------------
(* While no button is pressed nothing is drawn with less detail, and what  *)
(* was drawn with less detail is drawn again when this ends: the invariant *)
(* ModeFits needs.                                                         *)
RestsWithDetail == held = {} => ~doesturbo
DrawnInFull == ~doesturbo /\ ~dirty => frame = "full"

ModeInv ==
    /\ m_op_mode \in OperationMode /\ maxhits \in HitLimits
    /\ held \subseteq {"Left", "Middle", "Right"}
    /\ IdleWhenReleased /\ MiddleFollowsShift /\ TurboInOperation
    /\ RestsWithDetail /\ DrawnInFull

Modes == {"ROTATING", "TRANSLATING", "ZOOMING", "FOVING", "DRAGGING", "TRUCKING", "GYRATING",
          "HOVERING", "DO_LASSOSELECT", "DO_LASSOZOOM", "PICKING", "POSTING",
          "LASSOSELECT", "LASSOZOOM"}

LEMMA ModesAre ==
    OperationMode = Modes
BY DEF OperationMode, Modes, Camera, Waiting

(* setOp: the mode is the one asked for or stays.                          *)
LEMMA SetOpMode ==
    ASSUME NEW o \in Modes, NEW update, SetOp(o, update), m_op_mode \in Modes
    PROVE  /\ m_op_mode' \in Modes
           /\ m_op_mode' \in {o, m_op_mode}
           /\ o \notin {"DO_LASSOSELECT", "DO_LASSOZOOM"} => m_op_mode' = o
           /\ m_op_mode' = m_op_mode \/ m_op_mode' = o
           /\ m_op_mode \notin {"LASSOSELECT", "LASSOZOOM"} => m_op_mode' = o
BY DEF SetOp, Modes

(* setOp with picking or posting is called with detail only, so that less  *)
(* detail goes with an operation and its end draws again.                  *)
LEMMA SetOpDetail ==
    ASSUME NEW o \in Modes, NEW update, SetOp(o, update), m_op_mode \in Modes,
           TurboInOperation, DrawnInFull, UNCHANGED <<turbomode, frame>>,
           o \in {"PICKING", "POSTING"} => ~doesturbo
    PROVE  TurboInOperation' /\ DrawnInFull'
<1> DEFINE same == \/ o = m_op_mode
                   \/ <<o, m_op_mode>> \in {<<"DO_LASSOSELECT", "LASSOSELECT">>,
                                            <<"DO_LASSOZOOM", "LASSOZOOM">>}
<1>1. CASE same
  <2>1. m_op_mode' = m_op_mode /\ doesturbo' = doesturbo
    BY <1>1 DEF SetOp
  <2>2. dirty => dirty'
    BY DEF SetOp
  <2> QED
    BY <2>1, <2>2 DEF TurboInOperation, DrawnInFull
<1>2. CASE ~same
  <2>1. m_op_mode' = o /\ doesturbo' = TurboIn(o)
    BY <1>2 DEF SetOp
  <2>2. dirty \/ UpdateTurbo(o) => dirty'
    BY <1>2 DEF SetOp
  <2>3. TurboInOperation'
    BY <2>1 DEF TurboInOperation, TurboIn, Camera, Modes
  <2>4. DrawnInFull'
    <3>1. CASE o = "HOVERING"
      BY <3>1, <2>2 DEF DrawnInFull, UpdateTurbo
    <3>2. CASE o # "HOVERING"
      <4>1. ~doesturbo' => ~doesturbo
        BY <3>2, <2>1 DEF TurboIn, TurboInOperation
      <4> QED
        BY <4>1, <2>2 DEF DrawnInFull
    <3> QED
      BY <3>1, <3>2
  <2> QED
    BY <2>3, <2>4
<1> QED
  BY <1>1, <1>2

(* Less detail begins with an operation of the camera.                     *)
LEMMA SetOpNoTurbo ==
    ASSUME NEW o, NEW update, SetOp(o, update), o \notin Camera \/ o = m_op_mode
    PROVE  doesturbo' => doesturbo
BY DEF SetOp, TurboIn

LEMMA NoThrow ==
    ASSUME HitLimits \subseteq Nat, maxhits \in HitLimits
    PROVE  ~Throws
BY DEF Throws, Picks

(* What the steps with setOp that keep the settings have in common: the    *)
(* parts about the buttons remain to be shown.                             *)
LEMMA ModeStep ==
    ASSUME ModeInv, NEW o \in Modes, NEW update, SetOp(o, update),
           UNCHANGED <<settings, frame>>,
           o \in {"PICKING", "POSTING"} => ~doesturbo,
           held' \subseteq {"Left", "Middle", "Right"},
           IdleWhenReleased', MiddleFollowsShift',
           held' = {} /\ m_op_mode' # "HOVERING" =>
               held = {} /\ (o \notin Camera \/ o = m_op_mode)
    PROVE  ModeInv'
<1>1. m_op_mode \in Modes /\ TurboInOperation /\ DrawnInFull
  BY ModesAre DEF ModeInv
<1>2. m_op_mode' \in OperationMode
  BY <1>1, SetOpMode, ModesAre
<1>3. maxhits' \in HitLimits
  BY DEF ModeInv, settings
<1>4. TurboInOperation' /\ DrawnInFull'
  <2>1. UNCHANGED <<turbomode, frame>>
    BY DEF settings
  <2> QED
    BY <1>1, <2>1, SetOpDetail
<1>5. RestsWithDetail'
  <2> SUFFICES ASSUME held' = {}, doesturbo' PROVE FALSE
    BY DEF RestsWithDetail
  <2>1. m_op_mode' # "HOVERING"
    BY <1>4 DEF TurboInOperation
  <2>2. held = {} /\ (o \notin Camera \/ o = m_op_mode)
    BY <2>1
  <2>3. doesturbo
    BY <2>2, SetOpNoTurbo
  <2> QED
    BY <2>2, <2>3 DEF ModeInv, RestsWithDetail
<1> QED
  BY <1>2, <1>3, <1>4, <1>5 DEF ModeInv
-----------------------------------------------------------------------------
LEMMA ZoomIs == ZoomMode \in {"TRUCKING", "ZOOMING"}
BY DEF ZoomMode

LEMMA RightIs == \A plain : RightMode(plain) \in {"GYRATING", "FOVING", plain}
BY DEF RightMode

(* A press with others: the mode of the buttons together.                  *)
LEMMA LeftPressStep ==
    ASSUME ModeInv, HitLimits \subseteq Nat, onLeftBtnPress
    PROVE  ModeInv'
<1>1. m_op_mode \in Modes /\ ~Throws
  BY ModesAre, NoThrow DEF ModeInv
<1>2. /\ "Left" \notin held
      /\ held' = held \cup {"Left"}
      /\ UNCHANGED <<settings, frame, mods>>
  BY DEF onLeftBtnPress, Press
<1>3. PICK mode : /\ SetOp(mode, FALSE)
                  /\ mode \in Modes
                  /\ mode \in {"PICKING", "POSTING"} => held = {}
  <2> DEFINE lassos == m_op_mode \in {"DO_LASSOSELECT", "DO_LASSOZOOM"}
             drags == m_selected_objects # <<>> /\ mods = {}
                      /\ ToSet(m_selected_objects) \subseteq DragAble
             mode == IF "Right" \in held THEN ZoomMode
                     ELSE IF "Middle" \in held THEN "ROTATING"
                     ELSE IF lassos THEN
                         IF pos \notin DOMAIN At THEN m_op_mode
                         ELSE IF m_op_mode = "DO_LASSOZOOM" THEN "LASSOZOOM" ELSE "LASSOSELECT"
                     ELSE IF drags /\ Contains(m_selected_objects, Pick(pos)) THEN "DRAGGING"
                     ELSE "PICKING"
  <2>1. SetOp(IF threw' THEN m_op_mode ELSE mode, FALSE) /\ ~threw'
    BY <1>1, Zenon DEF onLeftBtnPress
  <2>2. SetOp(mode, FALSE)
    BY <2>1
  <2> HIDE DEF lassos, drags
  <2>3. mode \in Modes
    BY <1>1, ZoomIs DEF Modes
  <2>4. CASE "Right" \in held \/ "Middle" \in held
    <3>1. mode \in {"TRUCKING", "ZOOMING", "ROTATING"}
      BY <2>4, ZoomIs
    <3> QED
      BY <2>2, <2>3, <3>1
  <2>5. CASE "Right" \notin held /\ "Middle" \notin held
    <3>1. held = {}
      BY <2>5, <1>2 DEF ModeInv
    <3> QED
      BY <2>2, <2>3, <3>1
  <2> QED
    BY <2>4, <2>5
<1>4. mode \in {"PICKING", "POSTING"} => ~doesturbo
  BY <1>3 DEF ModeInv, RestsWithDetail
<1>5. held' # {} /\ held' # {"Middle"} /\ held' \subseteq {"Left", "Middle", "Right"}
  BY <1>2 DEF ModeInv
<1>6. IdleWhenReleased' /\ MiddleFollowsShift'
  BY <1>5 DEF IdleWhenReleased, MiddleFollowsShift
<1> QED
  BY <1>2, <1>3, <1>4, <1>5, <1>6, ModeStep

LEMMA MiddlePressStep ==
    ASSUME ModeInv, onMiddleBtnPress
    PROVE  ModeInv'
<1>1. /\ SetOp(ZoomMode, FALSE)
      /\ held' = held \cup {"Middle"}
      /\ UNCHANGED <<settings, frame, mods>>
  BY DEF onMiddleBtnPress, Press
<1>2. m_op_mode \in Modes /\ ZoomMode \in Modes /\ ZoomMode \notin {"PICKING", "POSTING"}
  BY ModesAre, ZoomIs DEF ModeInv, Modes
<1>3. m_op_mode' = ZoomMode
  BY <1>1, <1>2, ZoomIs, SetOpMode
<1>4. held' # {} /\ held' \subseteq {"Left", "Middle", "Right"}
  BY <1>1 DEF ModeInv
<1>5. ZoomMode' = ZoomMode
  BY <1>1 DEF ZoomMode
<1>6. IdleWhenReleased' /\ MiddleFollowsShift'
  BY <1>3, <1>4, <1>5 DEF IdleWhenReleased, MiddleFollowsShift
<1> QED
  BY <1>1, <1>2, <1>4, <1>6, ModeStep

LEMMA RightPressStep ==
    ASSUME ModeInv, onRightBtnPress
    PROVE  ModeInv'
<1> DEFINE mode == IF "Left" \in held THEN ZoomMode
                   ELSE RightMode(IF "Middle" \in held THEN "TRANSLATING" ELSE "POSTING")
<1>1. /\ SetOp(mode, FALSE) /\ "Right" \notin held
      /\ held' = held \cup {"Right"}
      /\ UNCHANGED <<settings, frame>>
  BY DEF onRightBtnPress, Press
<1>2. mode \in Modes /\ (mode = "POSTING" => held = {}) /\ mode # "PICKING"
  <2>1. CASE "Left" \in held
    BY <2>1, ZoomIs DEF Modes
  <2>2. CASE "Left" \notin held /\ "Middle" \in held
    <3>1. mode \in {"GYRATING", "FOVING", "TRANSLATING"}
      BY <2>2, RightIs
    <3> QED
      BY <3>1 DEF Modes
  <2>3. CASE "Left" \notin held /\ "Middle" \notin held
    <3>1. mode \in {"GYRATING", "FOVING", "POSTING"}
      BY <2>3, RightIs
    <3>2. held = {}
      BY <2>3, <1>1 DEF ModeInv
    <3> QED
      BY <3>1, <3>2 DEF Modes
  <2> QED
    BY <2>1, <2>2, <2>3
<1> HIDE DEF mode
<1>3. mode \in {"PICKING", "POSTING"} => ~doesturbo
  BY <1>2 DEF ModeInv, RestsWithDetail
<1>4. held' # {} /\ held' # {"Middle"} /\ held' \subseteq {"Left", "Middle", "Right"}
  BY <1>1 DEF ModeInv
<1>5. IdleWhenReleased' /\ MiddleFollowsShift'
  BY <1>4 DEF IdleWhenReleased, MiddleFollowsShift
<1> QED
  BY <1>1, <1>2, <1>3, <1>4, <1>5, ModeStep
-----------------------------------------------------------------------------
(* A release: with the last button the operation ends, and what was        *)
(* pressed with it stays by its own mode.                                  *)
LEMMA ReleaseStep ==
    ASSUME ModeInv, NEW b, Release(b), NEW mode \in Modes, NEW update, SetOp(mode, update),
           mode \notin {"PICKING", "POSTING", "DO_LASSOSELECT", "DO_LASSOZOOM"},
           held = {b} => mode = "HOVERING",
           held \ {b} = {"Middle"} => mode = ZoomMode
    PROVE  ModeInv'
<1>1. /\ held' = held \ {b} /\ b \in held
      /\ grabbed' = (held # {b})
      /\ UNCHANGED <<settings, frame, mods>>
  BY DEF Release, GrabsAgain
<1>2. m_op_mode' = mode
  BY SetOpMode, ModesAre DEF ModeInv
<1>3. held' \subseteq {"Left", "Middle", "Right"}
  BY <1>1 DEF ModeInv
<1>4. held' = {} => held = {b}
  BY <1>1
<1>5. IdleWhenReleased'
  BY <1>1, <1>2, <1>4 DEF IdleWhenReleased, Waiting
<1>6. MiddleFollowsShift'
  <2>1. ZoomMode' = ZoomMode
    BY <1>1 DEF ZoomMode
  <2> QED
    BY <1>1, <1>2, <2>1 DEF MiddleFollowsShift
<1>7. held' = {} => m_op_mode' = "HOVERING"
  BY <1>2, <1>4
<1> QED
  BY <1>1, <1>3, <1>5, <1>6, <1>7, ModeStep

LEMMA LeftReleaseStep ==
    ASSUME ModeInv, HitLimits \subseteq Nat, onLeftBtnRelease
    PROVE  ModeInv'
<1>1. m_op_mode \in Modes /\ ~Throws
  BY ModesAre, NoThrow DEF ModeInv
<1>2. CASE ReleaseLeftOfSeveral
  <2> DEFINE mode == IF "Right" \in held THEN RightMode("TRANSLATING") ELSE ZoomMode
  <2>1. held # {"Left"} /\ Release("Left") /\ SetOp(mode, FALSE)
    BY <1>2 DEF ReleaseLeftOfSeveral
  <2>2. mode \in {"GYRATING", "FOVING", "TRANSLATING", "TRUCKING", "ZOOMING"}
    BY ZoomIs, RightIs
  <2>3. held \ {"Left"} = {"Middle"} => mode = ZoomMode
    OBVIOUS
  <2> HIDE DEF mode
  <2>4. mode \in Modes /\ mode \notin {"PICKING", "POSTING", "DO_LASSOSELECT", "DO_LASSOZOOM"}
    BY <2>2 DEF Modes
  <2> QED
    BY <2>1, <2>3, <2>4, ReleaseStep
<1>3. ASSUME NEW update, held = {"Left"}, Release("Left"), SetOp("HOVERING", update)
      PROVE  ModeInv'
  <2>1. "HOVERING" \in Modes /\ held \ {"Left"} # {"Middle"}
    BY <1>3 DEF Modes
  <2> QED
    BY <1>3, <2>1, ReleaseStep
<1>4. CASE ReleaseLasso
  <2>1. PICK mode \in {"LASSOSELECT", "LASSOZOOM"} :
          /\ LeftReleased(mode)
          /\ threw' = (mode = "LASSOSELECT" /\ Throws)
          /\ SetOp(IF threw' THEN mode ELSE "HOVERING", mode = "LASSOZOOM" /\ Clamp(pos) # click)
    BY <1>4, Zenon DEF ReleaseLasso
  <2>2. SetOp("HOVERING", mode = "LASSOZOOM" /\ Clamp(pos) # click)
    BY <2>1, <1>1
  <2> QED
    BY <2>1, <2>2, <1>3 DEF LeftReleased
<1>5. CASE ReleasePick
  BY <1>3, <1>5 DEF ReleasePick, LeftReleased
<1>6. CASE ReleaseLeft
  BY <1>3, <1>6 DEF ReleaseLeft, LeftReleased
<1> QED
  BY <1>2, <1>4, <1>5, <1>6 DEF onLeftBtnRelease

LEMMA MiddleReleaseStep ==
    ASSUME ModeInv, onMiddleBtnRelease
    PROVE  ModeInv'
<1> DEFINE mode == IF "Left" \in held THEN "ROTATING"
                   ELSE IF "Right" \in held THEN RightMode("TRANSLATING") ELSE "HOVERING"
<1>1. Release("Middle") /\ SetOp(mode, FALSE)
  BY DEF onMiddleBtnRelease
<1>2. mode \in {"ROTATING", "GYRATING", "FOVING", "TRANSLATING", "HOVERING"}
  BY RightIs
<1>3. held = {"Middle"} => mode = "HOVERING"
  OBVIOUS
<1>4. held \ {"Middle"} # {"Middle"}
  OBVIOUS
<1> HIDE DEF mode
<1>5. mode \in Modes /\ mode \notin {"PICKING", "POSTING", "DO_LASSOSELECT", "DO_LASSOZOOM"}
  BY <1>2 DEF Modes
<1> QED
  BY <1>1, <1>3, <1>4, <1>5, ReleaseStep

LEMMA RightReleaseStep ==
    ASSUME ModeInv, onRightBtnRelease
    PROVE  ModeInv'
<1> DEFINE mode == IF "Left" \in held THEN "ROTATING"
                   ELSE IF "Middle" \in held THEN ZoomMode ELSE "HOVERING"
<1>1. Release("Right") /\ SetOp(mode, FALSE)
  BY DEF onRightBtnRelease
<1>2. mode \in {"ROTATING", "TRUCKING", "ZOOMING", "HOVERING"}
  BY ZoomIs
<1>3. held = {"Right"} => mode = "HOVERING"
  OBVIOUS
<1>4. held \ {"Right"} = {"Middle"} => mode = ZoomMode
  OBVIOUS
<1> HIDE DEF mode
<1>5. mode \in Modes /\ mode \notin {"PICKING", "POSTING", "DO_LASSOSELECT", "DO_LASSOZOOM"}
  BY <1>2 DEF Modes
<1> QED
  BY <1>1, <1>3, <1>4, <1>5, ReleaseStep
-----------------------------------------------------------------------------
(* The pointer moves: only what the left or the right button began becomes *)
(* another operation.                                                      *)
LEMMA MotionStep ==
    ASSUME ModeInv, NEW p, onMotion(p)
    PROVE  ModeInv'
<1>1. m_op_mode \in Modes
  BY ModesAre DEF ModeInv
<1>2. UNCHANGED <<settings, frame, held, mods, grabbed>>
  BY DEF onMotion, mouse
<1>3. PICK o, update : /\ SetOp(o, update)
                       /\ \/ o = m_op_mode
                          \/ /\ m_op_mode \in {"PICKING", "POSTING"}
                             /\ o \in {"LASSOSELECT", "ROTATING", "TRANSLATING"}
  <2>1. moved' \in BOOLEAN
    BY DEF onMotion
  <2>2. CASE m_op_mode \in Waiting
    <3>1. m_op_mode \notin {"PICKING", "POSTING", "LASSOSELECT", "LASSOZOOM"} \cup Camera
      BY <2>2 DEF Waiting, Camera
    <3>2. SetOp(m_op_mode, FALSE)
      BY <2>2, <3>1, Zenon DEF onMotion
    <3> QED
      BY <3>2
  <2>3. CASE m_op_mode \in Camera
    <3>1. m_op_mode \notin {"PICKING", "POSTING", "LASSOSELECT", "LASSOZOOM"} \cup Waiting
      BY <2>3 DEF Waiting, Camera
    <3>2. /\ m_op_mode # "PICKING"
          /\ m_op_mode # "POSTING"
          /\ m_op_mode \notin {"PICKING", "POSTING"}
          /\ m_op_mode \notin {"LASSOSELECT", "LASSOZOOM"}
          /\ m_op_mode \notin Waiting
      BY <3>1
    <3>3. SetOp(m_op_mode, TRUE)
      BY <2>3, <3>2, Zenon DEF onMotion
    <3> QED
      BY <3>3
  <2>4. CASE m_op_mode \in {"LASSOSELECT", "LASSOZOOM"}
    <3>1. /\ m_op_mode # "PICKING"
          /\ m_op_mode # "POSTING"
          /\ m_op_mode \notin {"PICKING", "POSTING"}
          /\ m_op_mode \notin Camera
          /\ m_op_mode \notin Waiting
      BY <2>4 DEF Waiting, Camera
    <3>2. SetOp(m_op_mode, FALSE)
      BY <2>4, <3>1, Zenon DEF onMotion
    <3> QED
      BY <3>2
  <2>5. CASE m_op_mode \in {"PICKING", "POSTING"} /\ ~moved'
    <3>1. /\ m_op_mode \notin {"LASSOSELECT", "LASSOZOOM"}
          /\ m_op_mode \notin Camera
          /\ m_op_mode \notin Waiting
      BY <2>5 DEF Waiting, Camera
    <3>2. SetOp(m_op_mode, FALSE)
      BY <2>5, <3>1, Zenon DEF onMotion
    <3> QED
      BY <3>2
  <2>6. CASE m_op_mode \in {"PICKING", "POSTING"} /\ moved'
    <3>1. /\ m_op_mode \notin {"LASSOSELECT", "LASSOZOOM"}
          /\ m_op_mode \notin Camera
          /\ m_op_mode \notin Waiting
      BY <2>6 DEF Waiting, Camera
    <3>2. CASE m_op_mode = "PICKING" /\ mods # {}
      <4>1. m_op_mode # "POSTING"
        BY <3>2
      <4>2. SetOp("LASSOSELECT", FALSE)
        BY <2>6, <3>1, <3>2, <4>1, Zenon DEF onMotion
      <4> QED
        BY <2>6, <4>2
    <3>3. CASE m_op_mode = "PICKING" /\ mods = {}
      <4>1. m_op_mode # "POSTING"
        BY <3>3
      <4>2. SetOp("ROTATING", TRUE)
        BY <2>6, <3>1, <3>3, <4>1, Zenon DEF onMotion
      <4> QED
        BY <2>6, <4>2
    <3>4. CASE m_op_mode = "POSTING"
      <4>1. m_op_mode # "PICKING"
        BY <3>4
      <4>2. SetOp("TRANSLATING", TRUE)
        BY <2>6, <3>1, <3>4, <4>1, Zenon DEF onMotion
      <4> QED
        BY <2>6, <4>2
    <3> QED
      BY <2>6, <3>2, <3>3, <3>4
  <2>7. m_op_mode \in Waiting \cup Camera \cup {"LASSOSELECT", "LASSOZOOM", "PICKING", "POSTING"}
    BY <1>1 DEF Modes, Waiting, Camera
  <2> QED
    BY <2>1, <2>2, <2>3, <2>4, <2>5, <2>6, <2>7
<1>4. o \in Modes /\ (o \in {"PICKING", "POSTING"} => o = m_op_mode)
  BY <1>1, <1>3 DEF Modes
<1>5. o \in {"PICKING", "POSTING"} => ~doesturbo
  BY <1>4 DEF ModeInv, TurboInOperation
<1>6. m_op_mode' = m_op_mode \/ held \notin {{}, {"Middle"}}
  <2>1. CASE o = m_op_mode
    BY <1>1, <1>3, <2>1, SetOpMode
  <2>2. CASE m_op_mode \in {"PICKING", "POSTING"}
    <3>1. held # {}
      BY <2>2 DEF ModeInv, IdleWhenReleased, Waiting
    <3>2. held # {"Middle"}
      BY <2>2, ZoomIs DEF ModeInv, MiddleFollowsShift, Waiting
    <3> QED
      BY <3>1, <3>2
  <2> QED
    BY <1>3, <2>1, <2>2
<1>7. IdleWhenReleased' /\ MiddleFollowsShift'
  <2>1. ZoomMode' = ZoomMode
    BY <1>2 DEF ZoomMode
  <2> QED
    BY <1>2, <1>6, <2>1 DEF ModeInv, IdleWhenReleased, MiddleFollowsShift
<1>8. held' = {} => held = {} /\ o = m_op_mode
  <2> SUFFICES ASSUME held = {} PROVE o = m_op_mode
    BY <1>2
  <2>1. m_op_mode \in Waiting
    BY DEF ModeInv, IdleWhenReleased
  <2> QED
    BY <1>3, <2>1 DEF Waiting
<1>9. held' \subseteq {"Left", "Middle", "Right"}
  BY <1>2 DEF ModeInv
<1> QED
  BY <1>2, <1>3, <1>4, <1>5, <1>7, <1>8, <1>9, ModeStep

(* A key goes down or up: with the middle button alone the Shift key has   *)
(* the mode, and the Control key leaves it.                                *)
LEMMA KeyStep ==
    ASSUME ModeInv, NEW k \in {"Shift", "Control"}, NEW down \in BOOLEAN, Key(k, down)
    PROVE  ModeInv'
<1>1. m_op_mode \in Modes
  BY ModesAre DEF ModeInv
<1>2. /\ UNCHANGED <<settings, frame, held, grabbed>>
      /\ down = (k \notin mods)
      /\ mods' = IF down THEN mods \cup {k} ELSE mods \ {k}
  BY DEF Key, mouse, screen
<1>3. PICK s, c : /\ SetOp(KeyMode(s, c), FALSE)
                  /\ s = IF k # "Shift" THEN "" ELSE IF down THEN "TRUCKING" ELSE "ZOOMING"
                  /\ c \in {"GYRATING", "FOVING", "TRANSLATING"}
  <2>1. CASE k = "Shift" /\ down
    <3>1. k # "Control" /\ ~(~down)
      BY <2>1
    <3>2. SetOp(KeyMode("TRUCKING", "GYRATING"), FALSE)
      BY <2>1, <3>1, Zenon DEF Key
    <3> QED
      BY <2>1, <3>2
  <2>2. CASE k = "Shift" /\ ~down
    <3>1. k # "Control"
      BY <2>2
    <3>2. SetOp(KeyMode("ZOOMING", "TRANSLATING"), FALSE)
      BY <2>2, <3>1, Zenon DEF Key
    <3> QED
      BY <2>2, <3>2
  <2>3. CASE k = "Control" /\ down
    <3>1. k # "Shift" /\ ~(~down)
      BY <2>3
    <3>2. SetOp(KeyMode("", "FOVING"), FALSE)
      BY <2>3, <3>1, Zenon DEF Key
    <3> QED
      BY <2>3, <3>1, <3>2
  <2>4. CASE k = "Control" /\ ~down
    <3>1. k # "Shift"
      BY <2>4
    <3>2. SetOp(KeyMode("", "TRANSLATING"), FALSE)
      BY <2>4, <3>1, Zenon DEF Key
    <3> QED
      BY <2>4, <3>1, <3>2
  <2> QED
    BY <2>1, <2>2, <2>3, <2>4
<1> DEFINE o == KeyMode(s, c)
<1>4. /\ o \in {m_op_mode, s, c}
      /\ o # m_op_mode => o \in {"TRUCKING", "ZOOMING", "GYRATING", "FOVING", "TRANSLATING"}
      /\ held = {} => o = m_op_mode
      /\ held = {"Middle"} /\ k = "Shift" /\ m_op_mode # "HOVERING" => o = s
      /\ held = {"Middle"} /\ k = "Shift" /\ m_op_mode = "HOVERING" => o = m_op_mode
      /\ held = {"Middle"} /\ k = "Control" => o = m_op_mode
  BY <1>3 DEF KeyMode
<1> HIDE DEF o
<1>5. o \in Modes /\ (o \in {"PICKING", "POSTING"} => o = m_op_mode)
  BY <1>1, <1>4 DEF Modes
<1>6. o \in {"PICKING", "POSTING"} => ~doesturbo
  BY <1>5 DEF ModeInv, TurboInOperation
<1>7. SetOp(o, FALSE)
  BY <1>3 DEF o
<1>8. m_op_mode' \in {o, m_op_mode} /\ (o \notin {"DO_LASSOSELECT", "DO_LASSOZOOM"} => m_op_mode' = o)
  BY <1>1, <1>5, <1>7, SetOpMode
<1>9. IdleWhenReleased'
  BY <1>2, <1>4, <1>8 DEF ModeInv, IdleWhenReleased
<1>10. MiddleFollowsShift'
  <2> SUFFICES ASSUME held = {"Middle"}, m_op_mode' \notin Waiting PROVE m_op_mode' = ZoomMode'
    BY <1>2 DEF MiddleFollowsShift
  <2>1. CASE k = "Control"
    <3>1. m_op_mode' = m_op_mode
      BY <1>4, <1>8, <2>1
    <3>2. ("Shift" \in mods') = ("Shift" \in mods)
      BY <1>2, <2>1
    <3>3. ZoomMode' = ZoomMode
      BY <3>2 DEF ZoomMode
    <3> QED
      BY <3>1, <3>3 DEF ModeInv, MiddleFollowsShift
  <2>2. CASE k = "Shift"
    <3>1. m_op_mode # "HOVERING"
      BY <1>4, <1>8, <2>2 DEF Waiting
    <3>2. o = s /\ s = IF down THEN "TRUCKING" ELSE "ZOOMING"
      BY <1>3, <1>4, <2>2, <3>1
    <3>3. m_op_mode' = s
      BY <1>8, <3>2
    <3>4. CASE down
      BY <1>2, <2>2, <3>2, <3>3, <3>4 DEF ZoomMode
    <3>5. CASE ~down
      BY <1>2, <2>2, <3>2, <3>3, <3>5 DEF ZoomMode
    <3> QED
      BY <3>4, <3>5
  <2> QED
    BY <2>1, <2>2
<1>11. held' \subseteq {"Left", "Middle", "Right"}
  BY <1>2 DEF ModeInv
<1> QED
  BY <1>2, <1>4, <1>5, <1>6, <1>7, <1>9, <1>10, <1>11, ModeStep

LEMMA LassoStep ==
    ASSUME ModeInv, NEW o \in {"DO_LASSOSELECT", "DO_LASSOZOOM"}, OnCmdLasso(o)
    PROVE  ModeInv'
<1>1. m_op_mode \in Modes /\ o \in Modes /\ o \notin {"PICKING", "POSTING"} \cup Camera
  BY ModesAre DEF ModeInv, Modes, Camera
<1>2. UNCHANGED <<settings, frame, held, mods, grabbed>> /\ SetOp(o, FALSE)
  BY DEF OnCmdLasso, mouse, screen
<1>3. m_op_mode' \in {o, m_op_mode}
  BY <1>1, <1>2, SetOpMode
<1>4. IdleWhenReleased'
  BY <1>2, <1>3 DEF ModeInv, IdleWhenReleased, Waiting
<1>5. MiddleFollowsShift'
  <2>1. ZoomMode' = ZoomMode
    BY <1>2 DEF ZoomMode
  <2> QED
    BY <1>2, <1>3, <2>1 DEF ModeInv, MiddleFollowsShift, Waiting
<1>6. held' \subseteq {"Left", "Middle", "Right"}
  BY <1>2 DEF ModeInv
<1> QED
  BY <1>1, <1>2, <1>4, <1>5, <1>6, ModeStep

(* The grab is lost: the operation ends, whatever is pressed.              *)
LEMMA UngrabbedStep ==
    ASSUME ModeInv, onUngrabbed
    PROVE  ModeInv'
<1>1. /\ UNCHANGED <<turbomode, maxhits, frame, held, mods>>
      /\ grabbed' = FALSE /\ m_op_mode' = "HOVERING" /\ doesturbo' = FALSE
      /\ dirty' = (dirty \/ (m_op_mode # "HOVERING" /\ doesturbo))
  BY DEF onUngrabbed, settings, mouse, screen
<1>2. m_op_mode' \in OperationMode /\ m_op_mode' \in Waiting
  BY <1>1 DEF OperationMode, Waiting
<1>3. DrawnInFull'
  BY <1>1 DEF ModeInv, DrawnInFull, TurboInOperation
<1> QED
  BY <1>1, <1>2, <1>3
  DEF ModeInv, IdleWhenReleased, MiddleFollowsShift, TurboInOperation, RestsWithDetail

(* Turbo mode is switched while no button is pressed: nothing is drawn     *)
(* with less detail then, so that there is nothing to draw again.          *)
LEMMA TurboStep ==
    ASSUME ModeInv, Toggles = FALSE, OnCmdTurbo
    PROVE  ModeInv'
<1>1. /\ UNCHANGED <<m_op_mode, maxhits, frame, held, mods, grabbed, dirty>>
      /\ held = {} /\ doesturbo' = (turbomode' /\ doesturbo)
  BY DEF OnCmdTurbo, mouse, screen
<1>2. ~doesturbo /\ ~doesturbo'
  BY <1>1 DEF ModeInv, RestsWithDetail
<1>3. ZoomMode' = ZoomMode
  BY <1>1 DEF ZoomMode
<1>4. DrawnInFull'
  BY <1>1, <1>2 DEF ModeInv, DrawnInFull
<1> QED
  BY <1>1, <1>2, <1>3, <1>4
  DEF ModeInv, IdleWhenReleased, MiddleFollowsShift, TurboInOperation, RestsWithDetail

LEMMA RedrawStep ==
    ASSUME ModeInv, Redraw
    PROVE  ModeInv'
<1>1. /\ UNCHANGED <<m_op_mode, doesturbo, turbomode, maxhits, held, mods, grabbed>>
      /\ frame' = IF doesturbo THEN "turbo" ELSE "full"
  BY DEF Redraw, settings, mouse
<1>2. ZoomMode' = ZoomMode
  BY <1>1 DEF ZoomMode
<1>3. DrawnInFull'
  BY <1>1 DEF DrawnInFull
<1> QED
  BY <1>1, <1>2, <1>3
  DEF ModeInv, IdleWhenReleased, MiddleFollowsShift, TurboInOperation, RestsWithDetail

(* The mode fits the buttons and keys in whatever order they were pressed  *)
(* and released, the grab was lost and the menu was used: no operation     *)
(* goes on without a button, the middle button follows the Shift key, and  *)
(* the scene is drawn in full at rest (setOp and the handlers of           *)
(* TCOpenGLViewer.cpp).  It needs what the run has too: setMaxHits was not *)
(* called with a negative number, with which selectHits throws, and turbo  *)
(* mode is not switched while a button is pressed.                         *)
THEOREM ModeIsExact ==
    ASSUME HitLimits \subseteq Nat, Toggles = FALSE
    PROVE  Spec => []ModeFits
<1>1. Init => ModeInv
  BY DEF Init, ModeInv, OperationMode, Waiting, IdleWhenReleased, MiddleFollowsShift,
         TurboInOperation, RestsWithDetail, DrawnInFull
<1>2. ModeInv /\ [Next]_vars => ModeInv'
  <2> SUFFICES ASSUME ModeInv, [Next]_vars PROVE ModeInv'
    OBVIOUS
  <2>1. CASE onLeftBtnPress \/ onMiddleBtnPress \/ onRightBtnPress
    BY <2>1, LeftPressStep, MiddlePressStep, RightPressStep
  <2>2. CASE onLeftBtnRelease \/ onMiddleBtnRelease \/ onRightBtnRelease
    BY <2>2, LeftReleaseStep, MiddleReleaseStep, RightReleaseStep
  <2>3. ASSUME NEW p, onMotion(p) PROVE ModeInv'
    BY <2>3, MotionStep
  <2>4. ASSUME NEW k \in Modifiers, NEW down \in BOOLEAN, Key(k, down) PROVE ModeInv'
    <3>1. k \in {"Shift", "Control"}
      BY ViewerAssumption
    <3> QED
      BY <2>4, <3>1, KeyStep
  <2>5. ASSUME NEW mode \in {"DO_LASSOSELECT", "DO_LASSOZOOM"}, OnCmdLasso(mode) PROVE ModeInv'
    BY <2>5, LassoStep
  <2>6. CASE onUngrabbed \/ OnCmdTurbo \/ Redraw
    BY <2>6, UngrabbedStep, TurboStep, RedrawStep
  <2>7. CASE UNCHANGED vars
    BY <2>7 DEF vars, ModeInv, IdleWhenReleased, MiddleFollowsShift, TurboInOperation,
                RestsWithDetail, DrawnInFull, ZoomMode
  <2> QED
    BY <2>1, <2>2, <2>3, <2>4, <2>5, <2>6, <2>7 DEF Next
<1>3. ModeInv => ModeFits
  BY DEF ModeInv, ModeFits, FullAtRest, TurboInOperation, DrawnInFull
<1> QED
  BY <1>1, <1>2, <1>3, PTL DEF Spec
=============================================================================
