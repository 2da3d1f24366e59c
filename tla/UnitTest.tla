------------------------------ MODULE UnitTest ------------------------------
(***************************************************************************)
(* tc::unit: suites of suites and tests, run to the end or until a test    *)
(* leaves its environment unclean, with both classes of results listening. *)
(***************************************************************************)
EXTENDS Naturals, Sequences, FiniteSets

CONSTANTS Root, Tests,
          m_tests  \* the tests and suites of each suite, in order

None == "none"

UnitTestAssumption ==
    /\ Root \in DOMAIN m_tests /\ None \notin Tests
    /\ m_tests \in [DOMAIN m_tests -> Seq(Tests \union DOMAIN m_tests)]

VARIABLES
    frames,        \* suites that are running: [suite, next]
    pc, test,      \* what the test does that is running
    clean,         \* EnvironmentIsClean
    simple, tree,  \* SimpleTestResult and TreeTestResult
    cur,           \* p_cur_failure, p_cur_error
    depth,         \* suite_stack_
    outcome, order \* history: how the parts of each test ended, tests entered
vars == <<frames, pc, test, clean, simple, tree, cur, depth, outcome, order>>

Suites == DOMAIN m_tests
Counters == {"run", "success", "failure", "error", "suites"}
NoBody == [thrown |-> None, expected |-> "nothing"]

TypeOK ==
    /\ \A r \in {simple, tree} : \A c \in Counters : r.num[c] \in Nat
    /\ test \in Tests \union {None} /\ (test = None <=> pc \in {"start", "suite", "done"})
    /\ {simple.unclean, tree.unclean} \subseteq Tests \union {None}
    /\ depth = Len(frames)
    /\ cur \subseteq {"failure", "error"}

Init ==
    /\ frames = <<>> /\ pc = "start" /\ test = None /\ clean = TRUE /\ depth = 0 /\ cur = {}
    /\ simple = [num |-> [c \in Counters |-> 0], unclean |-> None, reports |-> <<>>]
    /\ tree = simple
    /\ outcome = [t \in Tests |-> [setup |-> None, execute |-> NoBody, teardown |-> None]] /\ order = <<>>

Count(r, c) == [r EXCEPT !.num[c] = @ + 1]
-----------------------------------------------------------------------------
(* TestSuite::InternalRun.                                                 *)
Enter(s, below) ==
    /\ frames' = Append(below, [suite |-> s, next |-> 1])
    /\ depth' = depth + 1 /\ tree' = Count(tree, "suites") /\ UNCHANGED simple

Start ==
    /\ pc = "start" /\ pc' = "suite" /\ Enter(Root, <<>>)
    /\ UNCHANGED <<test, clean, cur, outcome, order>>

top == frames[Len(frames)]
Advanced == [frames EXCEPT ![Len(frames)].next = @ + 1]
More == top.next <= Len(m_tests[top.suite])
next == m_tests[top.suite][top.next]

EnterSuite ==
    /\ pc = "suite" /\ More /\ next \in Suites
    /\ Enter(next, Advanced)
    /\ UNCHANGED <<pc, test, clean, cur, outcome, order>>

EnterTest ==
    /\ pc = "suite" /\ More /\ next \in Tests
    /\ frames' = Advanced /\ test' = next /\ pc' = "setup"
    /\ simple' = Count(simple, "run") /\ tree' = Count(tree, "run")
    /\ order' = Append(order, next)
    /\ UNCHANGED <<clean, cur, depth, outcome>>

(* A suite that ends lets the suite around it look at the environment.     *)
ParentOf(below) ==
    IF below # <<>> /\ ~clean
    THEN [below EXCEPT ![Len(below)].next = Len(m_tests[below[Len(below)].suite]) + 1]
    ELSE below

DepthLess == depth - 1

LeaveSuite ==
    /\ pc = "suite" /\ ~More
    /\ LET below == SubSeq(frames, 1, Len(frames) - 1)
       IN  frames' = ParentOf(below) /\ pc' = IF below = <<>> THEN "done" ELSE "suite"
    /\ depth' = DepthLess
    /\ UNCHANGED <<test, clean, simple, tree, cur, outcome, order>>
-----------------------------------------------------------------------------
(* TestCase::InternalRun.  What the test itself does may end well, with a  *)
(* failed assertion, or with another exception, and may leave a mess.      *)
Ends(part, how) ==
    /\ outcome' = [outcome EXCEPT ![test][part] = how]
    /\ clean' \in {clean, FALSE}

AddError ==
    /\ simple' = Count(simple, "error") /\ tree' = tree /\ cur' = cur \union {"error"}

Setup(how) ==
    /\ pc = "setup" /\ Ends("setup", how)
    /\ IF how = "ok" THEN pc' = "execute" /\ UNCHANGED <<simple, tree, cur>>
       ELSE pc' = "leave" /\ AddError
    /\ UNCHANGED <<frames, test, depth, order>>

(* What Execute throws, perhaps where TCUNIT_ASSERT_THROWS expects it; a   *)
(* failed assertion throws a std::exception, too.                          *)
Bodies == [thrown : {None, "failed", "std", "other"}, expected : {None, "std", "other"}]

AssertThrows(thrown, expected) ==
    LET arrives == IF thrown = None THEN "failed" ELSE thrown
    IN  IF arrives = expected \/ (expected = "std" /\ arrives = "failed") THEN "ok" ELSE "failure"

Result(body) ==
    IF body.expected # None THEN AssertThrows(body.thrown, body.expected)
    ELSE CASE body.thrown = None -> "ok"
           [] body.thrown = "failed" -> "failure"
           [] OTHER -> "error"

AfterExecute(how) == "teardown"

Execute(body) ==
    LET how == Result(body)
    IN  /\ pc = "execute" /\ Ends("execute", body) /\ pc' = AfterExecute(how)
        /\ simple' = Count(simple, IF how = "ok" THEN "success" ELSE how)
        /\ cur' = cur \union ({how} \ {"ok"})
        /\ UNCHANGED <<frames, test, tree, depth, order>>

Teardown(how) ==
    /\ pc = "teardown" /\ Ends("teardown", how) /\ pc' = "leave"
    /\ IF how = "ok" THEN UNCHANGED <<simple, tree, cur>> ELSE AddError
    /\ UNCHANGED <<frames, test, depth, order>>

Verdict == IF "error" \in cur THEN "error" ELSE IF "failure" \in cur THEN "failure" ELSE "success"
KeepsCurrent == cur
ResetCurrent == {}

LeaveTest ==
    /\ pc = "leave" /\ pc' = "check"
    /\ tree' = LET counted == Count(tree, Verdict)
               IN  IF Verdict = "success" THEN counted
                   ELSE [counted EXCEPT !.reports = Append(@, [test |-> test, type |-> Verdict])]
    /\ cur' = ResetCurrent
    /\ UNCHANGED <<frames, test, clean, simple, depth, outcome, order>>

CleanlinessCheck ==
    /\ pc = "check" /\ pc' = "suite" /\ test' = None
    /\ IF clean THEN UNCHANGED <<simple, tree>>
       ELSE simple' = [simple EXCEPT !.unclean = test] /\ tree' = [tree EXCEPT !.unclean = test]
    /\ frames' = ParentOf(frames)
    /\ UNCHANGED <<clean, cur, depth, outcome, order>>

Next ==
    \/ Start \/ EnterSuite \/ EnterTest \/ LeaveSuite \/ LeaveTest \/ CleanlinessCheck
    \/ \E how \in {"ok", "failure", "error"} : Setup(how) \/ Teardown(how)
    \/ \E body \in Bodies : Execute(body)

Spec == Init /\ [][Next]_vars
-----------------------------------------------------------------------------
(* The tests that were counted, by their places in the order of the run.   *)
Finished == 1 .. Len(order) - (IF test = None \/ pc = "check" THEN 0 ELSE 1)

Went(t) == LET o == outcome[t]
           IN  IF o["setup"] # "ok" \/ o["teardown"] \in {"failure", "error"} THEN "error"
               ELSE IF Result(o["execute"]) = "ok" THEN "success" ELSE Result(o["execute"])

EndedAs(v) == {i \in Finished : Went(order[i]) = v}

(* The counters of the tree say how each of the tests ended, with one      *)
(* report for each that did not end well, in the order of the run; a test  *)
(* does not inherit anything of the one before.                            *)
CountsExact ==
    /\ \A v \in {"success", "failure", "error"} : tree.num[v] = Cardinality(EndedAs(v))
    /\ LET bad == Finished \ EndedAs("success") IN
       /\ Len(tree.reports) = Cardinality(bad)
       /\ \A i \in bad :
             tree.reports[Cardinality({j \in bad : j <= i})] =
                [test |-> order[i], type |-> Went(order[i])]

(* What was set up is torn down, however the test ended; what was not set  *)
(* up is neither executed nor torn down.                                   *)
TornDown ==
    \A t \in Tests : t # test /\ outcome[t]["setup"] # None =>
        (outcome[t]["setup"] = "ok" <=> outcome[t]["teardown"] # None)

(* An unclean environment is blamed on the test that made it so, and it    *)
(* ends all the suites, the ones around the suite of that test included.   *)
NothingAfterUnclean ==
    /\ ~clean /\ test = None => tree.unclean = order[Len(order)]
    /\ tree.unclean # None => tree.unclean = order[Len(order)]

(* cleanliness_check.cc: "result.ok() == false" of tests that were         *)
(* abandoned.                                                              *)
UncleanIsNotOk == tree.unclean # None => tree.num["success"] # tree.num["run"]

(* TCUNIT_ASSERT_THROWS: an expression that does not throw fails.          *)
ThrowsOrFails ==
    \A t \in Tests : LET body == outcome[t]["execute"]
                     IN  body.expected \in {"std", "other"} /\ Result(body) = "ok" => body.thrown # None
=============================================================================
