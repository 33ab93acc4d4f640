------------------------------- MODULE Deque --------------------------------
(***************************************************************************)
(* The task deque of src/sylvan/src/lace.h: SPAWN and SYNC by the owner,   *)
(* lace_steal by the others, who in a collection (lace_steal_loop_in) have *)
(* nothing else to do.  The tasks between tail and split are shared, those *)
(* from split to the head are the owner's alone; a thief advances tail by  *)
(* a compare-and-swap of both words, the owner moves split by plain stores *)
(* of its half of the pair.                                                *)
(*                                                                         *)
(* One step is one access to a word that others access too.  A worker is a *)
(* stack of activations: tasks (with the SPAWN or SYNC they are in) and    *)
(* steals, which run tasks on top of whatever the thief was waiting for.   *)
(* A task is named by its path from the root, and its result is its name.  *)
(***************************************************************************)
EXTENDS Integers, Sequences, FiniteSets
CONSTANTS Workers,
          Root,        \* the worker that runs the root of the frame
          Settings,    \* records: the workers that take part, and for each
                       \* depth the most tasks that a task there spawns
          DQ,          \* the size of a deque
          NoOne        \* in place of a worker
ASSUME DequeAssumption == Root \in Workers /\ NoOne \notin Workers /\ DQ \in Nat
VARIABLES ts,          \* public: the pair [tail, split]
          allstolen, movesplit,
          split, mystolen,      \* private: w->split, w->allstolen
          dq,          \* the entries: task, thief, result
          stack,       \* the activations of a worker, the last one running
          done,        \* the tasks that have been executed
          setting      \* the setting chosen
vars == <<ts, allstolen, movesplit, split, mystolen, dq, stack, done, setting>>

Unset == <<0>>         \* no name of a task
(* What an entry holds when its task has been taken out is not used again; *)
(* a thief that took it all the same would run the task Gone.              *)
Gone == <<-1>>
Empty == [id |-> Gone, thief |-> "empty", res |-> Unset]
Task(id, hd) == [pc |-> "run", id |-> id, head |-> hd, spawned |-> 0, open |-> <<>>,
                 right |-> TRUE, thief |-> NoOne, ts |-> [tail |-> 0, split |-> 0]]
Steal(v, hd) == [Task(Unset, hd) EXCEPT !.pc = "steal", !.thief = v]
Loop == [Task(Unset, 0) EXCEPT !.pc = "loop"]

(* lace_exec_in_new_frame: a worker enters the frame of a collection with  *)
(* no tasks and declares that all have been stolen; a thief may have asked *)
(* it for more before.                                                     *)
Init ==
    \E ms \in BOOLEAN, s \in Settings :
    /\ ts = [w \in Workers |-> [tail |-> 0, split |-> 0]]
    /\ allstolen = [w \in Workers |-> TRUE] /\ mystolen = allstolen
    /\ movesplit = [w \in Workers |-> ms]
    /\ split = [w \in Workers |-> 0]
    /\ dq = [w \in Workers |-> [i \in 0 .. DQ - 1 |-> Empty]]
    /\ stack = [w \in Workers |-> CASE w = Root -> <<Task(<<>>, 0)>>
                                   [] w # Root /\ w \in s.crew -> <<Loop>>
                                   [] OTHER -> <<>>]
    /\ done = {} /\ setting = s

Top(w) == stack[w][Len(stack[w])]
At(w, l) == stack[w] # <<>> /\ Top(w).pc = l
Become(w, f) == stack' = [stack EXCEPT ![w][Len(stack[w])] = f]
GoTo(w, l) == Become(w, [Top(w) EXCEPT !.pc = l])
Push(w, l, f) == stack' = [stack EXCEPT ![w] =
                             Append([@ EXCEPT ![Len(@)].pc = l], f)]
Private == <<split, mystolen>>
Public == <<ts, allstolen, movesplit>>

(***************************************************************************)
(* SPAWN                                                                   *)
(***************************************************************************)
Spawn(w) ==
    LET f == Top(w)
    IN  /\ At(w, "run") /\ f.spawned < setting.kids[Len(f.id)] /\ f.head < DQ
        /\ dq' = [dq EXCEPT ![w][f.head].id = Append(f.id, f.spawned + 1),
                            ![w][f.head].thief = "task"]
        /\ GoTo(w, "share") /\ UNCHANGED <<Public, Private, done>>
Spawned(w) == Become(w, [Top(w) EXCEPT !.pc = "run", !.head = @ + 1,
                                      !.spawned = @ + 1,
                                      !.open = Append(@, Top(w).spawned + 1)])
Share(w) ==
    /\ At(w, "share")
    /\ \/ /\ mystolen[w] /\ movesplit' = [movesplit EXCEPT ![w] = FALSE]
          /\ GoTo(w, "first")
       \/ /\ ~mystolen[w] /\ movesplit[w] /\ GoTo(w, "more")
          /\ UNCHANGED movesplit
       \/ /\ ~mystolen[w] /\ ~movesplit[w] /\ Spawned(w)
          /\ UNCHANGED movesplit
    /\ UNCHANGED <<ts, allstolen, Private, dq, done>>
(* All that was shared has been stolen: the new task is shared. *)
ShareFirst(w) ==
    LET h == Top(w).head
    IN  \/ /\ At(w, "first") /\ GoTo(w, "clear")
           /\ ts' = [ts EXCEPT ![w] = [tail |-> h, split |-> h + 1]]
           /\ UNCHANGED <<allstolen, movesplit, Private, dq, done>>
        \/ /\ At(w, "clear") /\ Spawned(w)
           /\ allstolen' = [allstolen EXCEPT ![w] = FALSE]
           /\ mystolen' = [mystolen EXCEPT ![w] = FALSE]
           /\ split' = [split EXCEPT ![w] = h + 1]
           /\ UNCHANGED <<ts, movesplit, dq, done>>
(* Thieves asked for more: half of the private tasks are shared. *)
ShareMore(w) ==
    LET new == (split[w] + Top(w).head + 2) \div 2
    IN  \/ /\ At(w, "more") /\ GoTo(w, "granted")
           /\ ts' = [ts EXCEPT ![w].split = new]
           /\ split' = [split EXCEPT ![w] = new]
           /\ UNCHANGED <<allstolen, movesplit, mystolen, dq, done>>
        \/ /\ At(w, "granted") /\ Spawned(w)
           /\ movesplit' = [movesplit EXCEPT ![w] = FALSE]
           /\ UNCHANGED <<ts, allstolen, Private, dq, done>>

(***************************************************************************)
(* SYNC                                                                    *)
(***************************************************************************)
(* The task has not been shared, or no more: it is called. *)
CallTask(w) ==
    LET h == Top(w).head
    IN  /\ dq' = [dq EXCEPT ![w][h] = Empty]
        /\ Push(w, "called", Task(dq[w][h].id, h))
        /\ UNCHANGED <<Public, Private, done>>
Sync(w) ==
    LET h == Top(w).head - 1
    IN  /\ At(w, "run") /\ Top(w).open # <<>>
        /\ Become(w, [Top(w) EXCEPT !.head = h, !.pc =
               CASE ~movesplit[w] /\ split[w] <= h -> "call"
                 [] (movesplit[w] \/ split[w] > h) /\ mystolen[w] -> "leap"
                 [] ~mystolen[w] /\ split[w] > h -> "shrink"
                 [] OTHER -> "grow"])
        /\ UNCHANGED <<Public, Private, dq, done>>
(* The result r arrives: right tells whether it is that of the last task   *)
(* spawned, every time.                                                    *)
Joined(w, rest, r) ==
    LET f == rest[Len(rest)]
        last == f.open[Len(f.open)]
    IN  stack' = [stack EXCEPT ![w] =
          [rest EXCEPT ![Len(rest)] = [f EXCEPT !.pc = "run", !.thief = NoOne,
             !.ts = [tail |-> 0, split |-> 0],
             !.open = SubSeq(@, 1, Len(@) - 1),
             !.right = @ /\ r = Append(f.id, last) /\ r \in done']]]

Shrunk(w, new) == /\ split' = [split EXCEPT ![w] = new]
                  /\ GoTo(w, "grow") /\ UNCHANGED mystolen
(* Mutant: the tail is not read again after the split has been lowered. *)
LookOnce(w) ==
    LET f == Top(w)
        tail == f.ts.tail
        new == (f.ts.tail + f.ts.split) \div 2
    IN  \/ /\ At(w, "shrink") /\ ts[w].tail = ts[w].split
           /\ GoTo(w, "stolen") /\ UNCHANGED <<ts, Private>>
        \/ /\ At(w, "shrink") /\ ts[w].tail # ts[w].split
           /\ Become(w, [f EXCEPT !.pc = "lower", !.ts = ts[w]])
           /\ UNCHANGED <<ts, Private>>
        \/ /\ At(w, "lower")
           /\ ts' = [ts EXCEPT ![w].split = new]
           /\ GoTo(w, "look") /\ UNCHANGED Private
        \/ /\ At(w, "look") /\ tail # f.ts.split /\ tail <= new
           /\ Shrunk(w, new) /\ UNCHANGED ts
(* lace_shrink_shared: the owner lowers the split, and then looks how far  *)
(* the thieves have come meanwhile.                                        *)
Shrink(w) ==
    LET f == Top(w)
        tail == ts[w].tail
        new == (f.ts.tail + f.ts.split) \div 2
    IN  \/ /\ At(w, "shrink") /\ ts[w].tail = ts[w].split
           /\ GoTo(w, "stolen") /\ UNCHANGED <<ts, Private>>
        \/ /\ At(w, "shrink") /\ ts[w].tail # ts[w].split
           /\ Become(w, [f EXCEPT !.pc = "lower", !.ts = ts[w]])
           /\ UNCHANGED <<ts, Private>>
        \/ /\ At(w, "lower")
           /\ ts' = [ts EXCEPT ![w].split = new]
           /\ GoTo(w, "look") /\ UNCHANGED Private
        \/ /\ At(w, "look") /\ tail = f.ts.split
           /\ GoTo(w, "stolen") /\ UNCHANGED <<ts, Private>>
        \/ /\ At(w, "look") /\ tail # f.ts.split /\ tail <= new
           /\ Shrunk(w, new) /\ UNCHANGED ts
        \/ /\ At(w, "look") /\ tail # f.ts.split /\ tail > new
           /\ Become(w, [f EXCEPT !.pc = "raise", !.ts.tail = tail])
           /\ UNCHANGED <<ts, Private>>
        \/ /\ At(w, "raise") /\ ts' = [ts EXCEPT ![w].split = new]
           /\ Shrunk(w, new)
lace_shrink_shared(w) == Shrink(w) /\ UNCHANGED <<allstolen, movesplit, dq, done>>
AllStolen(w) == /\ allstolen' = [allstolen EXCEPT ![w] = TRUE]
                /\ mystolen' = [mystolen EXCEPT ![w] = TRUE]
                /\ UNCHANGED <<ts, movesplit, split, dq, done>>
Stolen(w) == At(w, "stolen") /\ AllStolen(w) /\ GoTo(w, "leap")
(* Thieves asked for more: half of the private tasks below are shared. *)
Grow(w) ==
    LET diff == (Top(w).head - split[w] + 1) \div 2
    IN  \/ /\ At(w, "grow") /\ movesplit[w] /\ GoTo(w, "grown")
           /\ split' = [split EXCEPT ![w] = @ + diff]
           /\ ts' = [ts EXCEPT ![w].split = @ + diff]
           /\ UNCHANGED <<allstolen, movesplit, mystolen, dq, done>>
        \/ /\ At(w, "grow") /\ ~movesplit[w] /\ GoTo(w, "call")
           /\ UNCHANGED <<Public, Private, dq, done>>
        \/ /\ At(w, "grown") /\ GoTo(w, "call")
           /\ movesplit' = [movesplit EXCEPT ![w] = FALSE]
           /\ UNCHANGED <<ts, allstolen, Private, dq, done>>

(***************************************************************************)
(* lace_leapfrog: the task has been stolen.  Its owner waits for the thief *)
(* to sign, and steals from it, or now and then from anybody, until the    *)
(* task is completed.                                                      *)
(***************************************************************************)
(* Mutant: the head is left where the task waited for is. *)
NoPreLeap(w) == Top(w).head
PreLeap(w) == Top(w).head + 1
Leap(w) ==
    LET f == Top(w)
        t == dq[w][f.head]
    IN  \/ /\ At(w, "leap") /\ t.thief = "completed" /\ GoTo(w, "pop")
           /\ UNCHANGED <<Public, Private, dq, done>>
        \/ /\ At(w, "leap") /\ t.thief \in {"empty", "task"} /\ GoTo(w, "hop")
           /\ UNCHANGED <<Public, Private, dq, done>>
        \/ /\ At(w, "leap") \/ At(w, "hop")
           /\ t.thief \in Workers
           /\ \E v \in setting.crew \ {w} : Push(w, "hop", Steal(v, PreLeap(w)))
           /\ UNCHANGED <<Public, Private, dq, done>>
        \/ /\ At(w, "hop") /\ t.thief = "completed" /\ GoTo(w, "leapt")
           /\ UNCHANGED <<Public, Private, dq, done>>
        \/ /\ At(w, "leapt")
           /\ IF mystolen[w]
              THEN UNCHANGED <<Public, Private, dq, done>> ELSE AllStolen(w)
           /\ GoTo(w, "pop")
        \/ /\ At(w, "pop") /\ UNCHANGED <<Public, Private, done>>
           /\ dq' = [dq EXCEPT ![w][f.head] = Empty]
           /\ Joined(w, stack[w], t.res)

(***************************************************************************)
(* lace_steal                                                              *)
(***************************************************************************)
GiveUp(w) == stack' = [stack EXCEPT ![w] = SubSeq(@, 1, Len(@) - 1)]
(* Mutant: the tail is advanced whatever has happened to the pair. *)
Advance(w, v, old) == TRUE
Unchanged(w, v, old) == ts[v] = old
(* Mutant: the entry keeps the name of the thief. *)
StillSigned(w) == w
Completed(w) == "completed"
lace_steal(w) ==
    LET f == Top(w)
        v == f.thief
        i == f.ts.tail
    IN  \/ /\ At(w, "steal")
           /\ IF allstolen[v] THEN GiveUp(w) ELSE GoTo(w, "look at")
           /\ UNCHANGED <<Public, dq>>
        \/ /\ At(w, "look at") /\ ts[v].tail < ts[v].split
           /\ Become(w, [f EXCEPT !.pc = "cas", !.ts = ts[v]]) /\ UNCHANGED <<Public, dq>>
        \/ /\ At(w, "look at") /\ ts[v].tail >= ts[v].split
           /\ GoTo(w, "ask") /\ UNCHANGED <<Public, dq>>
        \/ /\ At(w, "ask") /\ GiveUp(w)
           /\ movesplit' = [movesplit EXCEPT ![v] = TRUE]
           /\ UNCHANGED <<ts, allstolen, dq>>
        \/ /\ At(w, "cas") /\ Unchanged(w, v, f.ts)
           /\ ts' = [ts EXCEPT ![v].tail = i + 1]
           /\ GoTo(w, "sign") /\ UNCHANGED <<allstolen, movesplit, dq>>
        \/ /\ At(w, "cas") /\ ~Unchanged(w, v, f.ts)
           /\ GiveUp(w) /\ UNCHANGED <<Public, dq>>
        \/ /\ At(w, "sign")
           /\ dq' = [dq EXCEPT ![v][i].thief = w]
           /\ Push(w, "stolen task", Task(dq[v][i].id, f.head))
           /\ UNCHANGED Public
        \/ /\ At(w, "complete") /\ GiveUp(w)
           /\ dq' = [dq EXCEPT ![v][i].thief = Completed(w)]
           /\ UNCHANGED Public

(* A task ends when it has joined all it has spawned; its result goes to   *)
(* the SYNC that called it or into the deque it was stolen from.           *)
Finished == stack[Root] = <<>>
Return(w) ==
    LET f == Top(w)
        rest == SubSeq(stack[w], 1, Len(stack[w]) - 1)
    IN  /\ At(w, "run") /\ f.open = <<>>
        /\ done' = done \cup {f.id}
        /\ \/ /\ rest = <<>> /\ stack' = [stack EXCEPT ![w] = rest]
              /\ UNCHANGED dq
           \/ /\ rest # <<>> /\ rest[Len(rest)].pc = "called"
              /\ Joined(w, rest, f.id) /\ UNCHANGED dq
           \/ /\ rest # <<>> /\ rest[Len(rest)].pc = "stolen task"
              /\ stack' = [stack EXCEPT ![w] = [rest EXCEPT ![Len(rest)].pc = "complete"]]
              /\ LET s == rest[Len(rest)]
                 IN  dq' = [dq EXCEPT ![s.thief][s.ts.tail].res = f.id]
        /\ UNCHANGED <<Public, Private>>

(* lace_steal_loop_in *)
StealLoop(w) ==
    /\ At(w, "loop")
    /\ IF Finished THEN stack' = [stack EXCEPT ![w] = <<>>]
       ELSE \E v \in setting.crew \ {w} : Push(w, "loop", Steal(v, 0))
    /\ UNCHANGED <<Public, Private, dq, done>>

Step(w) ==
    \/ Spawn(w) \/ Share(w) \/ ShareFirst(w) \/ ShareMore(w)
    \/ Sync(w) \/ (At(w, "call") /\ CallTask(w)) \/ lace_shrink_shared(w) \/ Stolen(w) \/ Grow(w)
    \/ Leap(w) \/ (lace_steal(w) /\ UNCHANGED <<Private, done>>)
    \/ Return(w) \/ StealLoop(w)
Next == \E w \in Workers : Step(w) /\ UNCHANGED setting
Spec == Init /\ [][Next]_vars
FairSpec == Spec /\ \A w \in Workers : WF_vars(Step(w) /\ UNCHANGED setting)
-----------------------------------------------------------------------------
(* Fork and join mean what they say: whoever executes it, a task is        *)
(* executed once (no two activations are the same task, and none is a task *)
(* that has been executed), and a SYNC returns only when the task it joins *)
(* is over, with the result of that task.                                  *)
TasksExact ==
    \A w \in Workers : \A k \in DOMAIN stack[w] :
        LET f == stack[w][k]
        IN  f.id # Unset =>
              /\ f.right /\ f.id # Gone /\ f.id \notin done
              /\ \A v \in Workers : \A j \in DOMAIN stack[v] :
                    stack[v][j].id = f.id => v = w /\ j = k

(* lace_leapfrog assumes in its comment "tail = split = head (pre-pop)"    *)
(* when tasks it stole while waiting have spawned and joined their own.    *)
LeapPops ==
    \A w \in Workers :
        At(w, "leapt") /\ ~mystolen[w] =>
            ts[w] = [tail |-> Top(w).head + 1, split |-> Top(w).head + 1]

(* Every task is joined in the end, although owners wait for thieves and   *)
(* steal from them meanwhile: the frame ends and all workers leave it.     *)
Ends == <>(\A w \in Workers : stack[w] = <<>>)
=============================================================================
