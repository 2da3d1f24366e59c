------------------------------ MODULE MCViewer ------------------------------
(***************************************************************************)
(* The mouse of the viewer and the scene it shows.                         *)
(*   modes:  a window without objects, all buttons and keys;               *)
(*   select: two objects side by side, and the left button alone;          *)
(*   scene:  two objects, one with the name of the inner group, in two     *)
(*           groups; boxes on one axis, on both sides of the origin.       *)
(* The parts share no state: a behaviour is of one of them, and the other  *)
(* ones stay as they were created.                                         *)
(***************************************************************************)
EXTENDS Viewer, TLC

CONSTANTS o1, o2, root, inner, null, Components

MCNothing == [p \in 0 .. 0 |-> None]
TwoObjects == [p \in 0 .. 1 |-> IF p = 0 THEN o1 ELSE o2]
NameOfThing == (o1 :> "a") @@ (o2 :> "b") @@ (inner :> "b") @@ (root :> "root")
BoxOf(lo, hi) == [min |-> [c \in Components |-> lo], max |-> [c \in Components |-> hi]]

VARIABLES part, m_objects, active, position, m_bounding_box

sceneVars == <<m_objects, active, position, m_bounding_box>>
allVars == <<part, vars, sceneVars>>

Sel == INSTANCE Viewer WITH At <- TwoObjects, Buttons <- {"Left"}, MaxSelected <- 2
S == INSTANCE Scene WITH
        Groups <- <<root, inner>>, Names <- {"a", "b"}, Name <- NameOfThing,
        Boxes <- {BoxOf(-2, -1), BoxOf(1, 3)}, Shifts <- {[c \in Components |-> 4]},
        MaxObjects <- 2

ASSUME MCAssumption == S!SceneAssumption

MCInit ==
    /\ part \in {"modes", "select", "scene"} /\ S!Init
    /\ IF part = "select" THEN Sel!Init ELSE Init
    /\ part = "scene" => turbomode /\ maxhits = 0

InModes(A) == part = "modes" /\ A /\ UNCHANGED <<part, sceneVars>>
InSelect(A) == part = "select" /\ A /\ UNCHANGED <<part, sceneVars>>
InScene(A) == part = "scene" /\ A /\ UNCHANGED <<part, vars>>

MCNext == InModes(Next) \/ InSelect(Sel!Next) \/ InScene(S!Next)

MCSpec == MCInit /\ [][MCNext]_allVars
-----------------------------------------------------------------------------
(* A hit of OpenGL, the path of names that were pushed while drawing, is   *)
(* resolved to the object that was drawn; a name is found if something has *)
(* it; and the bounds are those of what is drawn.                          *)
SceneExact == S!HitExact /\ S!FindsAll /\ S!BoundsTight
=============================================================================
