----------------------------- MODULE MCThreads ------------------------------
(***************************************************************************)
(* Threads from their creation to their Join, and the synchronous messages *)
(* between them.                                                           *)
(*   life: two clients, of which one creates and joins, a thread that runs *)
(*         thread objects and a command execution thread;                  *)
(*   send: two threads in a Run that send to each other and a third one    *)
(*         that only answers.                                              *)
(* The parts share no state: a behaviour is of one of them, and the other  *)
(* one stays as it was created.                                            *)
(***************************************************************************)
EXTENDS Thread

CONSTANTS c1, c2, h1, h2, left, right, far,
          Senders, Sends, MessageIds, QUIT, STOP, NoMessage,
          MaxSends, MaxQuits, MaxStops

MCClientHandle == (c1 :> h1) @@ (c2 :> h2)
MCSends == {<<left, right>>, <<right, left>>, <<right, far>>}

VARIABLES part, \* "life" or "send"
    queue, sendPC, handling, asked, target, replyId, quits, stops,
    replied, dropped, returned

sendVars == <<queue, sendPC, handling, asked, target, replyId, quits, stops,
              replied, dropped, returned>>
allVars == <<part, vars, sendVars>>

S == INSTANCE SyncSend WITH Threads <- Senders, box <- queue, pc <- sendPC

ASSUME MCAssumption == S!SyncSendAssumption

MCInit == part \in {"life", "send"} /\ Init /\ S!Init

InLife(A) == part = "life" /\ A /\ UNCHANGED <<part, sendVars>>
InSend(A) == part = "send" /\ A /\ UNCHANGED <<part, vars>>

MCNext == InLife(Next) \/ InSend(S!Next)

(* The fairness of Thread and of SyncSend. *)
MCFairness ==
    /\ WF_allVars(InLife(CreatorStep))
    /\ \A t \in Clients : WF_allVars(InLife(ClientStep(t)))
    /\ \A t \in Workers : WF_allVars(InLife(WorkerStep(t)))
    /\ \A t \in Senders : WF_allVars(InSend(S!Own(t)))

MCSpec == MCInit /\ [][MCNext]_allVars /\ MCFairness
-----------------------------------------------------------------------------
(* A synchronous send says what happened: success when the receiver        *)
(* answered this very message, and no message is answered twice; when it   *)
(* fails, there was something in the place of the answer, an answer to an  *)
(* earlier send that had ended without it or a message somebody dropped.   *)
SendIsTruthful == S!ReceivedMeansReplied /\ S!AnsweredOnce /\ S!FailureHasACause

(* Calls come back: a Join that reached pthread_join, and a synchronous    *)
(* send, unless its message was dropped or the threads wait for each other *)
(* in a ring.                                                              *)
CallsReturn == JoinReturns /\ S!SyncReturns
=============================================================================
