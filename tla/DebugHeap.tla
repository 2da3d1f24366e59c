----------------------------- MODULE DebugHeap -----------------------------
(***************************************************************************)
(* tc::DebugHeap: a header in front of each allocation puts it in a list   *)
(* that is linked both ways; the leaks are printed from the list, after it *)
(* was sorted in place.  Threads allocate and free at all times; none      *)
(* frees while the list is being walked, which nothing protects.           *)
(***************************************************************************)
EXTENDS Integers, Sequences, FiniteSets

CONSTANTS Blocks,      \* addresses of the heap below
          Sites,       \* file and line of an allocation, in their order
          Threads,     \* what system::GetCurrentThreadID may give
          Width,       \* bits of a thread id
          Sizes,
          null

DebugHeapAssumption ==
    /\ Sites \subseteq Nat /\ Sizes \subseteq Nat /\ Width \in Nat \ {0}
    /\ Threads \subseteq 0 .. 2 ^ Width - 1 /\ null \notin Blocks

VARIABLES
    list,      \* [first, last, next, prev] of AllocList
    info,      \* the rest of each Entry, null when the block is free
    again,     \* the block a ReAlloc took before it looked at the old one
    answer,    \* what the last ReAlloc returned
    pc,        \* where PrintMemoryLeaks is
    current, line, lines, total,
    walked, late  \* history: entries to walk, and whether one came after the sort
vars == <<list, info, again, answer, pc, current, line, lines, total, walked, late>>

Used == {b \in Blocks : info[b] # null}
Entries == [site : Sites, thread : Threads, size : Sizes]
Key(b) == <<info[b].site, info[b].thread>>

TypeOK ==
    /\ list \in [first : Blocks \union {null}, last : Blocks \union {null},
                 next : [Blocks -> Blocks \union {null}], prev : [Blocks -> Blocks \union {null}]]
    /\ list.first = null <=> list.last = null
    /\ info \in [Blocks -> Entries \union {null}]
    /\ again \in Used \union {null} /\ current \in Used \union {null}
    /\ pc \in {"idle", "counted", "sorted", "walk"}

Empty == [first |-> null, last |-> null, next |-> [b \in Blocks |-> null], prev |-> [b \in Blocks |-> null]]

Init ==
    /\ list = Empty /\ info = [b \in Blocks |-> null] /\ again = null /\ answer = "nothing"
    /\ pc = "idle" /\ current = null /\ line = null /\ lines = <<>>
    /\ total = [bytes |-> 0, allocs |-> 0] /\ walked = <<>> /\ late = FALSE
-----------------------------------------------------------------------------
(* AllocList.                                                              *)
InsertAsFirst(l, b) ==
    LET placed == [l EXCEPT !.next[b] = l.first, !.prev[b] = null, !.first = b]
    IN  IF l.first = null THEN [placed EXCEPT !.last = b] ELSE [placed EXCEPT !.prev[l.first] = b]

InsertAfter(l, a, b) ==
    LET placed == [l EXCEPT !.next[b] = l.next[a], !.prev[b] = a, !.next[a] = b]
    IN  IF l.next[a] = null THEN [placed EXCEPT !.last = b] ELSE [placed EXCEPT !.prev[l.next[a]] = b]

UnlinkNext(l, b) ==
    IF l.prev[b] = null THEN [l EXCEPT !.first = l.next[b]] ELSE [l EXCEPT !.next[l.prev[b]] = l.next[b]]
Unlink(l, b) ==
    LET half == UnlinkNext(l, b)
    IN  IF l.next[b] = null THEN [half EXCEPT !.last = l.prev[b]] ELSE [half EXCEPT !.prev[l.next[b]] = l.prev[b]]

(* The difference of two ids in an int32_t.                                *)
Difference(x, y) == ((x - y + 2 ^ (Width - 1)) % 2 ^ Width) - 2 ^ (Width - 1)

IsLargerThan(a, b) ==
    \/ info[a].site > info[b].site
    \/ info[a].site = info[b].site /\ Difference(info[a].thread, info[b].thread) >= 0

RECURSIVE Count(_, _, _)
Count(l, from, to) == IF from = to THEN 1 ELSE 1 + Count(l, l.next[from], to)

RECURSIVE Skip(_, _, _)
Skip(l, b, n) == IF n = 0 THEN b ELSE Skip(l, l.next[b], n - 1)

(* The merge moves entries of the right part in front of those of the left *)
(* part; first and last are those of the part that is merged.              *)
RECURSIVE Merge(_, _, _, _, _)
Merge(l, first, last, left, right) ==
    IF left = right \/ right = l.next[last] THEN [l |-> l, first |-> first, last |-> last]
    ELSE IF IsLargerThan(left, right)
    THEN LET gone == Unlink(l, right)
             back == IF gone.prev[left] = null THEN InsertAsFirst(gone, right)
                     ELSE InsertAfter(gone, gone.prev[left], right)
         IN  Merge(back, IF left = first THEN right ELSE first,
                   IF right = last THEN l.prev[right] ELSE last, left, l.next[right])
    ELSE Merge(l, first, last, l.next[left], right)

RECURSIVE SortPart(_, _, _)
SortPart(l, first, last) ==
    IF first = last THEN [l |-> l, first |-> first, last |-> last]
    ELSE LET middle == Skip(l, first, Count(l, first, last) \div 2)
             left   == SortPart(l, first, l.prev[middle])
             right  == SortPart(left.l, middle, last)
         IN  Merge(right.l, left.first, right.last, left.first, right.first)

Sort(l) == SortPart(l, l.first, l.last).l
-----------------------------------------------------------------------------
NewEntry(b, e) ==
    /\ info' = [info EXCEPT ![b] = e] /\ list' = InsertAsFirst(list, b)
    /\ late' = (late \/ pc = "sorted")

Alloc(b, e) ==
    /\ info[b] = null
    /\ NewEntry(b, e)
    /\ UNCHANGED <<again, answer, pc, current, line, lines, total, walked>>

(* The links go with the memory.                                           *)
Release(b) ==
    /\ list' = [Unlink(list, b) EXCEPT !.next[b] = null, !.prev[b] = null]
    /\ info' = [info EXCEPT ![b] = null]

Free(b) ==
    /\ b \in Used \ {again} /\ pc # "walk"
    /\ Release(b)
    /\ UNCHANGED <<again, answer, pc, current, line, lines, total, walked, late>>

(* HeapCrtlib looks for its own header, and finds the end of the Entry in  *)
(* front of what the user has: the memory of a user is not from this heap. *)
IsAHeapPointer(isUser) == ~isUser

ReAlloc(b, e) ==
    /\ again = null /\ info[b] = null
    /\ NewEntry(b, e) /\ again' = b
    /\ UNCHANGED <<answer, pc, current, line, lines, total, walked>>

ReAllocEnds(old) ==
    /\ again # null /\ old \in (Used \union {null}) \ {again} /\ pc # "walk"
    /\ again' = null
    /\ CASE old = null -> answer' = again /\ UNCHANGED <<list, info>>
         [] old # null /\ IsAHeapPointer(TRUE) -> answer' = again /\ Release(old)
         [] old # null /\ ~IsAHeapPointer(TRUE) -> answer' = null /\ Release(again)
    /\ UNCHANGED <<pc, current, line, lines, total, walked, late>>
-----------------------------------------------------------------------------
(* PrintMemoryLeaks.                                                       *)
Look ==
    /\ pc = "idle"
    /\ list.first # null /\ pc' = "counted"
    /\ UNCHANGED <<list, info, again, answer, current, line, lines, total, walked, late>>

SortList ==
    /\ pc = "counted" /\ pc' = "sorted" /\ list' = Sort(list) /\ late' = FALSE
    /\ UNCHANGED <<info, again, answer, current, line, lines, total, walked>>

GetFirstEntry ==
    /\ pc = "sorted" /\ pc' = "walk" /\ current' = list.first
    /\ line' = IF list.first = null THEN null ELSE [key |-> Key(list.first), bytes |-> 0, times |-> 0]
    /\ lines' = <<>> /\ total' = [bytes |-> 0, allocs |-> 0] /\ walked' = [b \in Used |-> info[b]]
    /\ UNCHANGED <<list, info, again, answer, late>>

Started(b) == [key |-> Key(b), bytes |-> info[b].size, times |-> 1]
StartedAtZero(b) == [key |-> Key(b), bytes |-> 0, times |-> 0]
NextLine(b) == Started(b)

Walk ==
    /\ pc = "walk" /\ current # null
    /\ IF line.key = Key(current)
       THEN /\ line' = [line EXCEPT !.bytes = @ + info[current].size, !.times = @ + 1]
            /\ UNCHANGED lines
       ELSE line' = NextLine(current) /\ lines' = Append(lines, line)
    /\ total' = [bytes |-> total.bytes + info[current].size, allocs |-> total.allocs + 1]
    /\ current' = list.next[current]
    /\ UNCHANGED <<list, info, again, answer, pc, walked, late>>

(* What was printed is forgotten before the leaks are printed again.       *)
Report == IF line = null THEN lines ELSE Append(lines, line)
LastLine ==
    /\ pc = "walk" /\ current = null
    /\ pc' = "idle" /\ line' = null /\ lines' = <<>> /\ total' = [bytes |-> 0, allocs |-> 0]
    /\ walked' = <<>> /\ late' = FALSE
    /\ UNCHANGED <<list, info, again, answer, current>>

Next ==
    \/ \E b \in Blocks : \E e \in Entries : Alloc(b, e) \/ ReAlloc(b, e)
    \/ \E b \in Blocks : Free(b)
    \/ \E old \in Blocks \union {null} : ReAllocEnds(old)
    \/ Look \/ SortList \/ GetFirstEntry \/ Walk \/ LastLine

Spec == Init /\ [][Next]_vars
-----------------------------------------------------------------------------
RECURSIVE From(_, _)
From(links, b) == IF b = null THEN <<>> ELSE <<b>> \o From(links, links[b])

(* AllocList: from either end the list gives the same entries, which are   *)
(* those that are allocated, each once, whatever was sorted in between.    *)
ListExact ==
    LET forth == From(list.next, list.first)
        back  == From(list.prev, list.last)
    IN  /\ Len(forth) = Cardinality(Used) /\ {forth[i] : i \in DOMAIN forth} = Used
        /\ Len(back) = Len(forth) /\ \A i \in DOMAIN back : back[i] = forth[Len(forth) + 1 - i]

(* PrintMemoryLeaks, "sort the list": no entry is in front of one that is  *)
(* smaller.                                                                *)
Sorted ==
    pc = "sorted" /\ ~late =>
        LET forth == From(list.next, list.first)
            Smaller(x, y) == \/ x.site < y.site
                             \/ x.site = y.site /\ Difference(x.thread, 0) < Difference(y.thread, 0)
        IN  \A i, j \in DOMAIN forth : i < j => ~Smaller(info[forth[j]], info[forth[i]])

RECURSIVE Bytes(_)
Bytes(bs) == IF bs = {} THEN 0
             ELSE LET b == CHOOSE x \in bs : TRUE IN walked[b].size + Bytes(bs \ {b})

(* PrintMemoryLeaks: each place that leaks has one line, with all that it  *)
(* leaks, and the last line has the sum; what others allocate meanwhile    *)
(* is not in it.                                                           *)
ReportExact ==
    pc = "walk" /\ current = null =>
        /\ total = [bytes |-> Bytes(DOMAIN walked), allocs |-> Cardinality(DOMAIN walked)]
        /\ ~late => /\ \A i, j \in DOMAIN Report : Report[i].key = Report[j].key => i = j
                    /\ \A i \in DOMAIN Report :
                         LET leaks == {b \in DOMAIN walked :
                                         <<walked[b].site, walked[b].thread>> = Report[i].key}
                         IN  Report[i].bytes = Bytes(leaks) /\ Report[i].times = Cardinality(leaks)

(* Heap::ReAlloc: the address of the block is returned.                    *)
ReAllocAnswers == answer # null
=============================================================================
