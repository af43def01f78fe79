------------------------------- MODULE Futures -------------------------------
(***************************************************************************)
(* Async functions as emit_async_function compiles them                    *)
(* (src/codegen_async.cpp), the leaf future and the executor of the        *)
(* runtime (runtime/runtime.c).                                            *)
(*                                                                         *)
(* An async function is the sequence of the futures it awaits, each one    *)
(* made by the call before the await.  A future is an index into frames.   *)
(* state is the first word of the frame: 0, the number of the await it is  *)
(* suspended at, or Completed.  poll calls nest; the activations of poll   *)
(* are on stack, each with the await it is at, which no frame stores.      *)
(***************************************************************************)
EXTENDS Integers, Sequences, FiniteSets

CONSTANTS Bodies,     \* async function |-> what it awaits, in order
          Main,       \* the function the client calls
          Foreign,    \* futures of other code: their poll may fail
          MaxPending, \* a foreign future is pending so often at most
          MaxPolls    \* a client polls so often at most

(* An async function awaits a sequence of futures.                          *)
Callees == {Main} \cup UNION {{Bodies[g][n] : n \in DOMAIN Bodies[g]} : g \in DOMAIN Bodies}
FutureAssumption == \A g \in DOMAIN Bodies : Bodies[g] \in Seq(Callees)

VARIABLES frames,  \* the futures made so far
          live,    \* those whose memory was not given back
          stack,   \* activations of poll, the innermost last
          drops,   \* activations of drop, the innermost last
          rc,      \* what the last poll returned
          client,  \* what the owner of the root future is doing
          polls,   \* how often it has polled
          waited,  \* history: the futures that have answered pending
          orphans  \* history: the children that failed when first polled

futureVars == <<frames, live, stack, drops, rc, client, polls, waited, orphans>>

Completed == -1
Pending == 0
Ready == 1
Failed == -5
Nothing == -9

Async(f) == frames[f].fn \in DOMAIN Bodies
Top == stack[Len(stack)]
Body == Bodies[frames[Top.f].fn]
NewFrame(fn) == [fn |-> fn, state |-> 0, made |-> 0,
              kids |-> IF fn \in DOMAIN Bodies THEN [n \in DOMAIN Bodies[fn] |-> 0] ELSE <<>>]
Dropping(f) == [f |-> f, pc |-> "switch"]
Activation(f) == [f |-> f, pc |-> "enter", at |-> 0]

(* The constructor: the state word is 0; it aborts without memory.          *)
FutureInit == /\ frames = <<NewFrame(Main)>>
              /\ live = {1}
              /\ stack = <<>> /\ drops = <<>>
              /\ rc = Nothing
              /\ client = "owner" /\ polls = 0
              /\ waited = {} /\ orphans = {}
-----------------------------------------------------------------------------
(* The innermost poll returns r.                                            *)
Return(r) == /\ stack' = SubSeq(stack, 1, Len(stack) - 1)
             /\ rc' = r
             /\ waited' = IF r = Pending THEN waited \cup {Top.f} ELSE waited
Goto(pc, at) == stack' = [stack EXCEPT ![Len(stack)] = [@ EXCEPT !.pc = pc, !.at = at]]
SetState(s) == frames' = [frames EXCEPT ![Top.f].state = s]
Running(pc) == stack # <<>> /\ drops = <<>> /\ Top.pc = pc

(* A plausible slip: a resumed poll evaluates the awaited call again.       *)
EnterBody == /\ Running("enter") /\ Async(Top.f)
             /\ LET s == frames[Top.f].state
                IN  CASE s = 0 -> Goto("body", 1) /\ UNCHANGED <<rc, waited>>
                      [] s \in 1..Len(Body) -> Goto("body", s) /\ UNCHANGED <<rc, waited>>
                      [] s = Completed -> Return(Ready)
             /\ UNCHANGED <<frames, live, drops, client, polls, orphans>>

(* __poll, entry: the switch over the state word.                           *)
Enter == /\ Running("enter") /\ Async(Top.f)
         /\ LET s == frames[Top.f].state
            IN  CASE s = 0 -> Goto("body", 1) /\ UNCHANGED <<rc, waited>>
                  [] s \in 1..Len(Body) -> Goto("await", s) /\ UNCHANGED <<rc, waited>>
                  [] s = Completed -> Return(Ready)
         /\ UNCHANGED <<frames, live, drops, client, polls, orphans>>

(* The code up to await number at, which makes the child, or up to the      *)
(* return, which stores the result and the state Completed.                 *)
RunBody ==
    /\ Running("body")
    /\ IF Top.at > Len(Body)
       THEN SetState(Completed) /\ Return(Ready) /\ UNCHANGED live
       ELSE LET new == Len(frames) + 1
            IN  /\ frames' = Append([frames EXCEPT ![Top.f].kids[Top.at] = new,
                                                   ![Top.f].made = @ + 1],
                                    NewFrame(Body[Top.at]))
                /\ live' = live \cup {new}
                /\ Goto("await", Top.at) /\ UNCHANGED <<rc, waited>>
    /\ UNCHANGED <<drops, client, polls, orphans>>

(* async.await.N.poll: the child in the frame is polled.                    *)
Child == frames[Top.f].kids[Top.at]
PollChild == /\ Running("await")
             /\ stack' = Append([stack EXCEPT ![Len(stack)] = [@ EXCEPT !.pc = "wait"]],
                                Activation(Child))
             /\ UNCHANGED <<frames, live, drops, rc, client, polls, waited, orphans>>

(* .pending: the number of the await is stored.                             *)
Suspend == /\ Running("wait") /\ rc = Pending
           /\ SetState(Top.at)
           /\ Return(Pending)
           /\ UNCHANGED <<live, drops, client, polls, orphans>>

(* A plausible slip: .error clears the state word as .ready does.           *)
FailResets == /\ Running("wait") /\ rc < 0
              /\ SetState(0)
              /\ Return(rc)
              /\ orphans' = IF Child \in waited THEN orphans ELSE orphans \cup {Child}
              /\ UNCHANGED <<live, drops, client, polls>>

(* .error: the code is passed on, the state word stays: the number of this  *)
(* await if it was suspended at before, else 0 (471).                       *)
Fail == /\ Running("wait") /\ rc < 0
        /\ Return(rc)
        /\ orphans' = IF Child \in waited THEN orphans ELSE orphans \cup {Child}
        /\ UNCHANGED <<frames, live, drops, client, polls>>

(* A plausible slip: the state word keeps the number of the finished await. *)
ContinueSuspended ==
    /\ Running("wait") /\ rc = Ready
    /\ drops' = <<Dropping(Child)>>
    /\ Goto("body", Top.at + 1)
    /\ UNCHANGED <<frames, live, rc, client, polls, waited, orphans>>

(* .ready: the child is dropped, the state word is 0, the body goes on.     *)
Continue == /\ Running("wait") /\ rc = Ready
            /\ drops' = <<Dropping(Child)>>
            /\ SetState(0)
            /\ Goto("body", Top.at + 1)
            /\ UNCHANGED <<live, rc, client, polls, waited, orphans>>

(* A plausible slip: the leaf does not note that it was polled.             *)
PollLeafForgets ==
    /\ Running("enter") /\ ~Async(Top.f)
    /\ IF frames[Top.f].fn \in Foreign /\ frames[Top.f].state = MaxPending
       THEN Return(Ready) ELSE Return(Pending)
    /\ UNCHANGED <<frames, live, drops, client, polls, orphans>>

(* uinx_yield_once_poll: pending once.  A foreign future answers as it      *)
(* likes; its state counts.                                                 *)
PollLeaf ==
    /\ Running("enter") /\ ~Async(Top.f)
    /\ LET s == frames[Top.f].state
       IN  IF frames[Top.f].fn \in Foreign
           THEN \/ s < MaxPending /\ SetState(s + 1) /\ Return(Pending)
                \/ SetState(s) /\ Return(Ready)
                \/ SetState(s) /\ Return(Failed)
           ELSE IF s = 0 THEN SetState(1) /\ Return(Pending) ELSE SetState(s) /\ Return(Ready)
    /\ UNCHANGED <<live, drops, client, polls, orphans>>
-----------------------------------------------------------------------------
Dropped == drops[Len(drops)]
AwaitedChild(f) == frames[f].kids[frames[f].state]

(* __drop: the switch over the state word.  The child of the await that the *)
(* frame is suspended at goes first.                                        *)
DropChild == /\ drops # <<>> /\ Dropped.pc = "switch"
             /\ LET freeing == [drops EXCEPT ![Len(drops)].pc = "free"]
                IN  drops' = IF Async(Dropped.f) /\ frames[Dropped.f].state > 0
                             THEN Append(freeing, Dropping(AwaitedChild(Dropped.f)))
                             ELSE freeing
             /\ UNCHANGED <<frames, live, stack, rc, client, polls, waited, orphans>>

(* free(frame), or uinx_yield_once_drop.                                    *)
FreeFrame == /\ drops # <<>> /\ Dropped.pc = "free"
             /\ live' = live \ {Dropped.f}
             /\ drops' = SubSeq(drops, 1, Len(drops) - 1)
             /\ UNCHANGED <<frames, stack, rc, client, polls, waited, orphans>>
-----------------------------------------------------------------------------
AtRest == stack = <<>> /\ drops = <<>>

(* uinx_block_on polls until the answer is not 0, with a yield between.     *)
(* The owner may also poll by hand, even a finished future, but not one     *)
(* that failed, and may drop the future at any time.                        *)
BlockOn == /\ AtRest /\ client = "owner" /\ rc # Failed
           /\ client' = "blocked" /\ rc' = Nothing
           /\ UNCHANGED <<frames, live, stack, drops, polls, waited, orphans>>
Poll == /\ AtRest
        /\ \/ client = "blocked" /\ rc \in {Nothing, Pending} /\ polls' = polls
           \/ client = "owner" /\ rc # Failed /\ polls < MaxPolls /\ polls' = polls + 1
        /\ stack' = <<Activation(1)>>
        /\ rc' = Nothing
        /\ UNCHANGED <<frames, live, drops, client, waited, orphans>>
BlockOnReturns == /\ AtRest /\ client = "blocked" /\ rc \notin {Nothing, Pending}
                  /\ client' = IF rc > 0 THEN "ok" ELSE "error"
                  /\ UNCHANGED <<frames, live, stack, drops, rc, polls, waited, orphans>>
DropRoot == /\ AtRest /\ client \in {"owner", "ok", "error"}
            /\ client' = "gone"
            /\ drops' = <<Dropping(1)>>
            /\ UNCHANGED <<frames, live, stack, rc, polls, waited, orphans>>

FutureNext == \/ Enter \/ RunBody \/ PollChild \/ Suspend \/ Fail \/ Continue \/ PollLeaf
              \/ DropChild \/ FreeFrame \/ BlockOn \/ Poll \/ BlockOnReturns \/ DropRoot

(* One thread runs all of this, and sched_yield() comes back.               *)
FutureFairness == WF_futureVars(FutureNext)
FutureSpec == FutureInit /\ [][FutureNext]_futureVars /\ FutureFairness
-----------------------------------------------------------------------------
(* No poll or drop ever runs on a frame whose memory was given back,        *)
(* whenever the owner drops a future and wherever a poll failed.            *)
NoFreedFrame == /\ \A n \in DOMAIN stack : stack[n].f \in live
                /\ \A n \in DOMAIN drops : drops[n].f \in live

(* A suspended future holds the future it waits for, which is not finished: *)
(* "Pending child futures remain stored in the parent frame"                *)
(* (docs/ARCHITECTURE.md:58).                                               *)
HoldsItsChild == AtRest => \A f \in live :
    Async(f) /\ frames[f].state > 0 =>
        AwaitedChild(f) \in live /\ frames[AwaitedChild(f)].state # Completed

(* Every frame is there while a poll, a drop or its parent still needs it.  *)
FramesHeld == NoFreedFrame /\ HoldsItsChild

(* A body is run once: resumption neither repeats nor skips a call, and a   *)
(* finished function made every one of them.                                *)
RunsOnce == /\ Running("body") => frames[Top.f].made = Top.at - 1
            /\ \A f \in DOMAIN frames : frames[f].state = Completed =>
                   frames[f].made = Len(frames[f].kids)

(* Once the owner has dropped the future every frame was given back, at     *)
(* whichever await of whichever function it was dropped or a child failed,  *)
(* and in particular every child that was ever pending.  Only a child whose *)
(* very first poll failed is left: .error (codegen_async.cpp 465) neither   *)
(* drops it nor has its number in the state word, where __drop looks for    *)
(* it, for the number is stored by .pending (457) and reset to 0 after each *)
(* finished await (471).                                                    *)
NoFrameLeaks == client = "gone" /\ AtRest => live \subseteq orphans

(* uinx_block_on returns.                                                   *)
BlockOnEnds == client = "blocked" ~> client # "blocked"
=============================================================================
