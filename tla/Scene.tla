------------------------------- MODULE Scene -------------------------------
(***************************************************************************)
(* tc::open_gl::ObjectGroup: groups of objects and of groups, drawn, hit   *)
(* and measured from the root of the scene.  An object of this module is a *)
(* Object3D; each has its box and is moved by dragging it.                 *)
(***************************************************************************)
EXTENDS Integers, Sequences, FiniteSets

CONSTANTS Objects,
          Groups,      \* a sequence: a group may have those behind it in it
          Names, Name, \* not every object has a name of its own
          Boxes,       \* what SetBoundingBox is given
          MaxObjects,  \* bound: objects in a group
          Components,  \* of a coordinate
          Shifts, null

SceneAssumption == MaxObjects \in Nat /\ Len(Groups) > 0

(* tc::math::Box of coordinates with Components components.                *)
Least(x, y) == IF x < y THEN x ELSE y
Most(x, y) == IF x < y THEN y ELSE x

(* Box(): all components of both coordinates are 0.                        *)
EmptyBox == [min |-> [c \in Components |-> 0], max |-> [c \in Components |-> 0]]

(* The squares of the lengths of both coordinates are not above 0.         *)
IsEmpty(box) == \A c \in Components : box.min[c] = 0 /\ box.max[c] = 0

Joined(a, b) == [min |-> [c \in Components |-> Least(a.min[c], b.min[c])],
                 max |-> [c \in Components |-> Most(a.max[c], b.max[c])]]
Unite(a, b) == IF IsEmpty(a) THEN b ELSE IF IsEmpty(b) THEN a ELSE Joined(a, b)

Inside(box, p) == \A c \in Components : box.min[c] <= p[c] /\ p[c] <= box.max[c]
Covers(a, b) == Inside(a, b.min) /\ Inside(a, b.max)
-----------------------------------------------------------------------------
VARIABLES m_objects, active, position, m_bounding_box
vars == <<m_objects, active, position, m_bounding_box>>

GroupSet == {Groups[i] : i \in DOMAIN Groups}
Things == Objects \union GroupSet
Root == Groups[1]
Level(g) == CHOOSE i \in DOMAIN Groups : Groups[i] = g
NoShift == [c \in Components |-> 0]

TypeOK ==
    /\ \A g \in GroupSet : m_objects[g] \in Seq(Things) /\ Len(m_objects[g]) <= MaxObjects
    /\ active \subseteq Things
    /\ position \in [Objects -> {NoShift} \union Shifts]
    /\ m_bounding_box \in [Objects -> Boxes \union {EmptyBox}]

Init ==
    /\ m_objects = [g \in GroupSet |-> <<>>] /\ active = Things
    /\ position = [o \in Objects |-> NoShift]
    /\ m_bounding_box = [o \in Objects |-> EmptyBox]
-----------------------------------------------------------------------------
AddObject(g, o) ==
    /\ Len(m_objects[g]) < MaxObjects /\ (o \in GroupSet => Level(o) > Level(g))
    /\ m_objects' = [m_objects EXCEPT ![g] = Append(@, o)]
    /\ UNCHANGED <<active, position, m_bounding_box>>

Without(s, i) == SubSeq(s, 1, i - 1) \o SubSeq(s, i + 1, Len(s))
Named(s, n) == {i \in DOMAIN s : Name[s[i]] = n}
FirstNamed(s, n) == CHOOSE i \in Named(s, n) : \A j \in Named(s, n) : i <= j

RemoveObject(g, n) ==
    /\ Named(m_objects[g], n) # {}
    /\ m_objects' = [m_objects EXCEPT ![g] = Without(@, FirstNamed(@, n))]
    /\ UNCHANGED <<active, position, m_bounding_box>>

SetActive(o) ==
    /\ active' \in {active \union {o}, active \ {o}}
    /\ UNCHANGED <<m_objects, position, m_bounding_box>>

SetBoundingBox(o, box) ==
    /\ m_bounding_box' = [m_bounding_box EXCEPT ![o] = box]
    /\ UNCHANGED <<m_objects, active, position>>

Drag(o, d) ==
    /\ position[o] = NoShift   \* bound: an object is moved once
    /\ position' = [position EXCEPT ![o] = d]
    /\ UNCHANGED <<m_objects, active, m_bounding_box>>

RECURSIVE Below(_)
Below(o) ==
    IF o \in Objects THEN {o}
    ELSE {o} \union UNION {Below(m_objects[o][i]) : i \in DOMAIN m_objects[o]}

ResetPosition(g) ==
    /\ position' = [o \in Objects |-> IF o \in Below(g) THEN NoShift ELSE position[o]]
    /\ UNCHANGED <<m_objects, active, m_bounding_box>>

Next ==
    \/ \E g \in GroupSet : \/ \E o \in Things : AddObject(g, o)
                           \/ \E n \in Names : RemoveObject(g, n)
                           \/ ResetPosition(g)
    \/ \E o \in Things : SetActive(o)
    \/ \E o \in Objects : (\E box \in Boxes : SetBoundingBox(o, box)) \/ \E d \in Shifts : Drag(o, d)

Spec == Init /\ [][Next]_vars
-----------------------------------------------------------------------------
(* DrawForHit: what is drawn with which names on the stack; each group     *)
(* replaces the name on top by the next number, be the object active or    *)
(* not.                                                                    *)
NameOfActive(g, i) == Cardinality({j \in 1 .. i - 1 : m_objects[g][j] \in active})
NameOf(g, i) == i - 1

RECURSIVE Drawn(_, _)
Drawn(o, path) ==
    IF o \in Objects THEN {[path |-> path, object |-> o]}
    ELSE UNION {Drawn(m_objects[o][i], Append(path, NameOf(o, i)))
                : i \in {j \in DOMAIN m_objects[o] : m_objects[o][j] \in active}}

RECURSIVE GetHitObject(_, _)
GetHitObject(o, path) ==
    IF o \in Objects \/ path = <<>> \/ path[1] >= Len(m_objects[o]) THEN null
    ELSE LET hit    == m_objects[o][path[1] + 1]
             inside == GetHitObject(hit, Tail(path))
         IN  IF inside = null THEN hit ELSE inside

RECURSIVE FindObject(_, _)
RECURSIVE FindFrom(_, _, _)
FindFrom(s, i, n) ==
    IF i > Len(s) THEN null
    ELSE IF Name[s[i]] = n THEN s[i]
    ELSE LET found == IF s[i] \in GroupSet THEN FindObject(s[i], n) ELSE null
         IN  IF found # null THEN found ELSE FindFrom(s, i + 1, n)
FindObject(g, n) == FindFrom(m_objects[g], 1, n)

(* The box of an object that is not active is the one it was made with.    *)
RECURSIVE GetBoundingBox(_)
RECURSIVE United(_, _, _)
United(s, i, box) ==
    IF i > Len(s) THEN box
    ELSE United(s, i + 1,
                Unite(IF s[i] \in active THEN GetBoundingBox(s[i]) ELSE EmptyBox, box))
GetBoundingBox(o) == IF o \in Objects THEN m_bounding_box[o] ELSE United(m_objects[o], 1, EmptyBox)
-----------------------------------------------------------------------------
(* GetHitObject: the names of a hit lead back to the object that was       *)
(* drawn, whatever was removed or made inactive before.                    *)
HitExact == \A d \in Drawn(Root, <<>>) : GetHitObject(Root, d.path) = d.object

(* FindObject finds a name exactly when something below has it.            *)
FindsAll ==
    \A g \in GroupSet : \A n \in Names :
        LET found == FindObject(g, n)
        IN  IF found = null THEN \A o \in Below(g) \ {g} : Name[o] # n
            ELSE found \in Below(g) /\ Name[found] = n

Seen == {d.object : d \in Drawn(Root, <<>>)}
Filled(os) == {o \in os : ~IsEmpty(m_bounding_box[o])}

(* ObjectGroup::GetBoundingBox covers the boxes of all that is drawn, and  *)
(* each of its sides is one of theirs: objects without a box, inactive     *)
(* ones and empty groups do not make it larger.                            *)
BoundsTight ==
    LET bounds == GetBoundingBox(Root)
    IN  /\ \A o \in Filled(Seen) : Covers(bounds, m_bounding_box[o])
        /\ Filled(Seen) = {} => IsEmpty(bounds)
        /\ Filled(Seen) # {} => \A c \in Components :
            /\ \E o \in Filled(Seen) : m_bounding_box[o].min[c] = bounds.min[c]
            /\ \E o \in Filled(Seen) : m_bounding_box[o].max[c] = bounds.max[c]

(* Viewer, "get correct bounds": what is drawn is inside the bounds of the *)
(* scene.                                                                  *)
Shifted(o) == LET at(p) == [c \in Components |-> p[c] + position[o][c]]
              IN  [min |-> at(m_bounding_box[o].min), max |-> at(m_bounding_box[o].max)]
BoundsCorrect == \A o \in Filled(Seen) : Covers(GetBoundingBox(Root), Shifted(o))
=============================================================================
