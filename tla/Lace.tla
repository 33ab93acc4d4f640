-------------------------------- MODULE Lace --------------------------------
(***************************************************************************)
(* The Lace workers behind the SSA tag backend (lace.cpp, the collection   *)
(* of sylvan_common.c, and their callers in ssa_tag_gc.cpp and             *)
(* libdft_api.cpp).                                                        *)
(*                                                                         *)
(* Every application thread has one worker, a Pin internal thread that     *)
(* executes the BDD operations of that thread: the two share one SSA_Task, *)
(* the mailbox.  A worker that finds the node table full collects garbage  *)
(* in a new frame, in which all workers take part: they copy the frame's   *)
(* task, meet in barriers, and help until the collection is done.  The     *)
(* barriers count lace_n_workers_alive, so spawn_exit_lock keeps workers   *)
(* from starting and ending during a frame.                                *)
(*                                                                         *)
(* A worker is a stack of steps, the innermost first: st[w] is what it has *)
(* still to do, and calling lace_yield pushes the steps of a frame.  The   *)
(* idle turns of its polling loops change nothing and are left out.  BDDs  *)
(* are external: an operation ends, yields or finds the table full, in any *)
(* order, and a result is known by the request it answers.  There are no   *)
(* helper threads (HELPER_THREAD_NUM is 0).                                *)
(***************************************************************************)
EXTENDS Integers, Sequences, FiniteSets

CONSTANTS
    Threads,      \* application threads, by Pin thread id
    MaxId         \* bound on the number of workers ever spawned

ASSUME IdAssumption == MaxId \in Nat \ {0} /\ Threads \cap (-1 .. MaxId) = {}

Id == 0 .. MaxId - 1
NULL == -1
NoFrame == "null"     \* lace_newframe.t = NULL

VARIABLES
    app,          \* what an application thread executes
    mine,         \* tls->t, as the index of the mailbox in ssa_p
    quit,         \* tls->quit
    task_type, arg, res,  \* the mailboxes; 1 stands for any task type
    owner,        \* ssa_p[w].quit, as the thread whose flag it points to
    spawn_exit_lock,
    alive, nid,   \* lace_n_workers_alive, lace_n_workers_id
    st,           \* the steps that every worker has still to execute
    newframe,     \* lace_newframe.t: what the other workers shall execute
    count, leaving, wait,  \* lace_bar
    gc,           \* sylvan_common.c: a collection is going on
    done,         \* local of lace_wrap_newframe of the collecting worker
    finished,     \* local of lace_wrap_together of the collecting worker
    state         \* of the process: "up", "exited", "stopped"

mailVars == <<task_type, arg, res, owner>>
appVars  == <<app, mine, quit>>
barVars  == <<count, leaving, wait>>
frameVars == <<newframe, done, finished>>
vars == <<appVars, mailVars, spawn_exit_lock, alive, nid, st, barVars,
          frameVars, gc, state>>

-----------------------------------------------------------------------------
(* Steps.  Those of the barrier carry the caller's local variable wait.    *)
S(name) == <<name, 0>>
Steps(names) == [i \in DOMAIN names |-> S(names[i])]

lace_barrier == <<"read">>

(* lace_exec_in_new_frame: the root between two barriers.                  *)
lace_exec_in_new_frame(root) == lace_barrier \o root \o lace_barrier

(* lace_together_root, for every worker of the frame.                      *)
lace_together_root == <<"mark", "help">>

(* lace_yield after its copy of the task.                                  *)
Yielded(kind) ==
    lace_barrier \o
    lace_exec_in_new_frame(IF kind = "steal" THEN <<"steal">>
                                             ELSE lace_together_root)

(* lace_wrap_together once finished is set, and lace_run_newframe with     *)
(* lace_wrap_newframe for the worker that collects.                        *)
lace_wrap_together ==
    <<"set_together">> \o lace_barrier \o <<"clear">>
    \o lace_exec_in_new_frame(lace_together_root)
lace_run_newframe ==
    <<"glock", "set_steal">> \o lace_barrier \o <<"clear">>
    \o lace_exec_in_new_frame(<<"collect", "done">>) \o <<"gunlock">>

-----------------------------------------------------------------------------
up == state = "up"
Top(w) == IF st[w] = <<>> THEN "none" ELSE Head(st[w])[1]
At(w, name) == up /\ Top(w) = name
Local(w) == Head(st[w])[2]
Has(w, names) == \E i \in DOMAIN st[w] : st[w][i][1] \in names

(* The top step of w is done, and names (or steps) take its place.         *)
Pop(w) == st' = [st EXCEPT ![w] = Tail(@)]
Go(w, names) == st' = [st EXCEPT ![w] = Steps(names) \o Tail(@)]
Push(w, names) == st' = [st EXCEPT ![w] = Steps(names) \o @]

(* YIELD_NEWFRAME at the top step of w.                                    *)
YIELD_NEWFRAME(w) == /\ newframe # NoFrame
                     /\ Push(w, <<"copy">>)
                     /\ UNCHANGED <<appVars, mailVars, spawn_exit_lock, alive,
                                    nid, barVars, frameVars, gc, state>>

Init ==
    /\ app = [t \in Threads |-> "off"]
    /\ mine = [t \in Threads |-> NULL]
    /\ quit = [t \in Threads |-> 0]
    /\ task_type = [w \in Id |-> 0]
    /\ arg = [w \in Id |-> 0]
    /\ res = [w \in Id |-> 0]
    /\ owner = [w \in Id |-> NULL]
    /\ spawn_exit_lock = 0
    /\ alive = 0 /\ nid = 0
    /\ st = [w \in Id |-> <<>>]
    /\ newframe = NoFrame /\ done = 0 /\ finished = 0
    /\ count = 0 /\ leaving = 0 /\ wait = 0
    /\ gc = 0
    /\ state = "up"

-----------------------------------------------------------------------------
(* The application threads.                                                *)

(* ssa_thread_start: memset of tls, then lace_spawn_worker.                *)
ThreadStart(t) ==
    /\ up /\ app[t] = "off"
    /\ app' = [app EXCEPT ![t] = "lock"]
    /\ quit' = [quit EXCEPT ![t] = 0]
    /\ UNCHANGED <<mine, mailVars, spawn_exit_lock, alive, nid, st, barVars,
                   frameVars, gc, state>>

(* lace_spawn_worker: the compare-and-swap that ends the spinning ...      *)
MutSpawnLock(t) ==
    /\ up /\ app[t] = "lock"
    /\ app' = [app EXCEPT ![t] = "spawn"]
    /\ UNCHANGED <<mine, quit, mailVars, spawn_exit_lock, alive, nid, st,
                   barVars, frameVars, gc, state>>
SpawnLock(t) ==
    /\ up /\ app[t] = "lock" /\ spawn_exit_lock = 0
    /\ spawn_exit_lock' = 1
    /\ app' = [app EXCEPT ![t] = "spawn"]
    /\ UNCHANGED <<mine, quit, mailVars, alive, nid, st, barVars, frameVars,
                   gc, state>>

(* ... and the new worker, which has to release the lock.                  *)
SpawnWorker(t) ==
    /\ up /\ app[t] = "spawn" /\ nid < MaxId
    /\ owner' = [owner EXCEPT ![nid] = t]
    /\ mine' = [mine EXCEPT ![t] = nid]
    /\ st' = [st EXCEPT ![nid] = Steps(<<"init", "ready", "loop">>)]
    /\ app' = [app EXCEPT ![t] = "idle"]
    /\ UNCHANGED <<quit, task_type, arg, res, spawn_exit_lock, alive, nid,
                   barVars, frameVars, gc, state>>

(* ssa_tag_alloc / ssa_tag_combine: a request, and the end of the waiting. *)
Post(t) ==
    /\ up /\ app[t] = "idle"
    /\ arg' = [arg EXCEPT ![mine[t]] = 1 - @]
    /\ task_type' = [task_type EXCEPT ![mine[t]] = 1]
    /\ app' = [app EXCEPT ![t] = "wait"]
    /\ UNCHANGED <<mine, quit, res, owner, spawn_exit_lock, alive, nid, st,
                   barVars, frameVars, gc, state>>

Answered(t) ==
    /\ up /\ app[t] = "wait" /\ task_type[mine[t]] = 0
    /\ app' = [app EXCEPT ![t] = "idle"]
    /\ UNCHANGED <<mine, quit, mailVars, spawn_exit_lock, alive, nid, st,
                   barVars, frameVars, gc, state>>

(* ssa_thread_fini.                                                        *)
ThreadFini(t) ==
    /\ up /\ app[t] = "idle"
    /\ quit' = [quit EXCEPT ![t] = 1]
    /\ app' = [app EXCEPT ![t] = "quit"]
    /\ UNCHANGED <<mine, mailVars, spawn_exit_lock, alive, nid, st, barVars,
                   frameVars, gc, state>>

MutThreadGone(t) ==
    /\ up /\ app[t] = "quit"
    /\ app' = [app EXCEPT ![t] = "off"]
    /\ mine' = [mine EXCEPT ![t] = NULL]
    /\ UNCHANGED <<quit, mailVars, spawn_exit_lock, alive, nid, st, barVars,
                   frameVars, gc, state>>
ThreadGone(t) ==
    /\ up /\ app[t] = "quit" /\ quit[t] = 0
    /\ app' = [app EXCEPT ![t] = "off"]
    /\ mine' = [mine EXCEPT ![t] = NULL]
    /\ UNCHANGED <<quit, mailVars, spawn_exit_lock, alive, nid, st, barVars,
                   frameVars, gc, state>>

(* lace_stop, called by fini_callback when all threads are finished: it    *)
(* waits for the barrier and frees everything.  The loop that waits for    *)
(* lace_n_workers_alive, which is not volatile, does not bind the          *)
(* compiler; the build leaves it out, so it is no guard here.              *)
lace_stop ==
    /\ up
    /\ \A t \in Threads : app[t] = "off"
    /\ leaving = 0
    /\ state' = "stopped"
    /\ UNCHANGED <<appVars, mailVars, spawn_exit_lock, alive, nid, st,
                   barVars, frameVars, gc>>

-----------------------------------------------------------------------------
(* The life of a worker.                                                   *)

(* lace_worker_thread: the two counters, then the lock it was born with.   *)
WorkerInit(w) ==
    /\ At(w, "init")
    /\ nid' = nid + 1 /\ alive' = alive + 1
    /\ Pop(w)
    /\ UNCHANGED <<appVars, mailVars, spawn_exit_lock, barVars, frameVars,
                   gc, state>>

(* The releases of spawn_exit_lock: by a worker that has started, one that *)
(* has ended, and one that has collected.                                  *)
Unlock(w) ==
    /\ At(w, "ready") \/ At(w, "xunlock") \/ At(w, "gunlock")
    /\ spawn_exit_lock' = 0
    /\ Pop(w)
    /\ UNCHANGED <<appVars, mailVars, alive, nid, barVars, frameVars, gc, state>>

(* lace_steal_loop_ex: the next task, the end, or a frame.                 *)
MutExit == <<"release", "leave_alive">>
Exit == <<"xlock", "release", "leave_alive", "xunlock">>
MutTask == <<"work", "reply", "answer", "loop">>
Task == <<"work", "answer", "reply", "loop">>

lace_steal_loop_ex(w) ==
    /\ At(w, "loop")
    /\ \/ /\ quit[owner[w]] # 0
          /\ Go(w, Exit)
          /\ UNCHANGED <<appVars, mailVars, spawn_exit_lock, alive, nid,
                         barVars, frameVars, gc, state>>
       \/ /\ quit[owner[w]] = 0 /\ task_type[w] # 0
          /\ Go(w, Task)
          /\ UNCHANGED <<appVars, mailVars, spawn_exit_lock, alive, nid,
                         barVars, frameVars, gc, state>>
       \/ YIELD_NEWFRAME(w)

(* A BDD operation: it ends, meets a frame (sylvan_gc_test), or finds the  *)
(* table full in _mtbdd_makenode.                                          *)
Work(w) ==
    /\ At(w, "work")
    /\ \/ /\ Pop(w)
          /\ UNCHANGED <<appVars, mailVars, spawn_exit_lock, alive, nid,
                         barVars, frameVars, gc, state>>
       \/ YIELD_NEWFRAME(w)

TableFull(w) ==
    /\ At(w, "work")
    /\ Go(w, <<"gc", "retry", "work">>)
    /\ UNCHANGED <<appVars, mailVars, spawn_exit_lock, alive, nid, barVars,
                   frameVars, gc, state>>

(* After the collection: there is room now, or the process exits.          *)
Retry(w) ==
    /\ At(w, "retry")
    /\ Pop(w)
    /\ state' \in {"up", "exited"}
    /\ UNCHANGED <<appVars, mailVars, spawn_exit_lock, alive, nid, barVars,
                   frameVars, gc>>

(* t->res = ...; mfence(); t->task_type = 0.                               *)
Answer(w) ==
    /\ At(w, "answer")
    /\ res' = [res EXCEPT ![w] = arg[w]]
    /\ Pop(w)
    /\ UNCHANGED <<appVars, task_type, arg, owner, spawn_exit_lock, alive,
                   nid, barVars, frameVars, gc, state>>

Reply(w) ==
    /\ At(w, "reply")
    /\ task_type' = [task_type EXCEPT ![w] = 0]
    /\ Pop(w)
    /\ UNCHANGED <<appVars, arg, res, owner, spawn_exit_lock, alive, nid,
                   barVars, frameVars, gc, state>>

(* The end of lace_steal_loop_ex: it takes the lock, or joins the frame    *)
(* whose owner has it; then *quit = 0 and the counter.                     *)
MutExitLock(w) ==
    /\ At(w, "xlock")
    /\ spawn_exit_lock = 0
    /\ spawn_exit_lock' = 1
    /\ Pop(w)
    /\ UNCHANGED <<appVars, mailVars, alive, nid, barVars, frameVars, gc, state>>
ExitLock(w) ==
    /\ At(w, "xlock")
    /\ \/ /\ spawn_exit_lock = 0
          /\ spawn_exit_lock' = 1
          /\ Pop(w)
          /\ UNCHANGED <<appVars, mailVars, alive, nid, barVars, frameVars,
                         gc, state>>
       \/ spawn_exit_lock # 0 /\ YIELD_NEWFRAME(w)

ExitRelease(w) ==
    /\ At(w, "release")
    /\ quit' = [quit EXCEPT ![owner[w]] = 0]
    /\ Pop(w)
    /\ UNCHANGED <<app, mine, mailVars, spawn_exit_lock, alive, nid, barVars,
                   frameVars, gc, state>>

ExitAlive(w) ==
    /\ At(w, "leave_alive")
    /\ alive' = alive - 1
    /\ Pop(w)
    /\ UNCHANGED <<appVars, mailVars, spawn_exit_lock, nid, barVars,
                   frameVars, gc, state>>

-----------------------------------------------------------------------------
(* Collections and frames.                                                 *)

(* sylvan_gc: collect, or wait for the frame of the one who does.          *)
sylvan_gc(w) ==
    /\ At(w, "gc")
    /\ IF gc = 0
       THEN /\ gc' = 1 /\ done' = 0
            /\ Go(w, lace_run_newframe \o <<"gc_off">>)
       ELSE /\ Go(w, <<"await", "copy">>)
            /\ UNCHANGED <<gc, done>>
    /\ UNCHANGED <<appVars, mailVars, spawn_exit_lock, alive, nid, barVars,
                   newframe, finished, state>>

GcOff(w) ==
    /\ At(w, "gc_off")
    /\ gc' = 0
    /\ Pop(w)
    /\ UNCHANGED <<appVars, mailVars, spawn_exit_lock, alive, nid, barVars,
                   frameVars, state>>

MutAwaitFrame(w) ==
    /\ At(w, "await")
    /\ Pop(w)
    /\ UNCHANGED <<appVars, mailVars, spawn_exit_lock, alive, nid, barVars,
                   frameVars, gc, state>>
AwaitFrame(w) ==
    /\ At(w, "await") /\ newframe # NoFrame
    /\ Pop(w)
    /\ UNCHANGED <<appVars, mailVars, spawn_exit_lock, alive, nid, barVars,
                   frameVars, gc, state>>

(* lace_run_newframe spins for the lock and does not yield.                *)
GcLock(w) ==
    /\ At(w, "glock") /\ spawn_exit_lock = 0
    /\ spawn_exit_lock' = 1
    /\ Pop(w)
    /\ UNCHANGED <<appVars, mailVars, alive, nid, barVars, frameVars, gc, state>>

(* The compare-and-swap of lace_newframe.t; a worker that loses joins the  *)
(* other frame and tries again.                                            *)
SetFrame(w) ==
    /\ At(w, "set_steal") \/ At(w, "set_together")
    /\ \/ /\ newframe = NoFrame
          /\ newframe' = IF Top(w) = "set_steal" THEN "steal" ELSE "together"
          /\ Pop(w)
          /\ UNCHANGED <<appVars, mailVars, spawn_exit_lock, alive, nid,
                         barVars, done, finished, gc, state>>
       \/ YIELD_NEWFRAME(w)

ClearFrame(w) ==
    /\ At(w, "clear")
    /\ newframe' = NoFrame
    /\ Pop(w)
    /\ UNCHANGED <<appVars, mailVars, spawn_exit_lock, alive, nid, barVars,
                   done, finished, gc, state>>

(* sylvan_gc_go: caches and marks are cleared, and all workers mark their  *)
(* own references together; then lace_newframe_root sets *done.  The round *)
(* for the workers' regions (sylvan_table.c:382) repeats this one and is   *)
(* left out.                                                               *)
MutCollect(w) ==
    /\ At(w, "collect")
    /\ finished' = nid
    /\ Go(w, lace_wrap_together)
    /\ UNCHANGED <<appVars, mailVars, spawn_exit_lock, alive, nid, barVars,
                   newframe, done, gc, state>>
Collect(w) ==
    /\ At(w, "collect")
    /\ finished' = alive
    /\ Go(w, lace_wrap_together)
    /\ UNCHANGED <<appVars, mailVars, spawn_exit_lock, alive, nid, barVars,
                   newframe, done, gc, state>>

Done(w) ==
    /\ At(w, "done")
    /\ done' = 1
    /\ Pop(w)
    /\ UNCHANGED <<appVars, mailVars, spawn_exit_lock, alive, nid, barVars,
                   newframe, finished, gc, state>>

(* lace_yield: the copy of the frame's task, and the frame.                *)
lace_yield(w) ==
    /\ At(w, "copy") /\ newframe # NoFrame
    /\ Go(w, Yielded(newframe))
    /\ UNCHANGED <<appVars, mailVars, spawn_exit_lock, alive, nid, barVars,
                   frameVars, gc, state>>

(* lace_steal_loop_in: steal until done, or join the frame inside.         *)
MutStealLoopIn(w) ==
    /\ At(w, "steal")
    /\ \/ /\ done # 0
          /\ Pop(w)
       \/ /\ task_type[w] # 0
          /\ Push(w, <<"work", "answer", "reply">>)
    /\ UNCHANGED <<appVars, mailVars, spawn_exit_lock, alive, nid, barVars,
                   frameVars, gc, state>>
lace_steal_loop_in(w) ==
    /\ At(w, "steal")
    /\ \/ /\ done # 0
          /\ Pop(w)
          /\ UNCHANGED <<appVars, mailVars, spawn_exit_lock, alive, nid,
                         barVars, frameVars, gc, state>>
       \/ done = 0 /\ YIELD_NEWFRAME(w)

(* lace_together_root: mtbdd_refs_mark_task, the count, and helping.       *)
Mark(w) ==
    /\ At(w, "mark")
    /\ finished' = finished - 1
    /\ Pop(w)
    /\ UNCHANGED <<appVars, mailVars, spawn_exit_lock, alive, nid, barVars,
                   newframe, done, gc, state>>

Help(w) ==
    /\ At(w, "help")
    /\ \/ /\ finished = 0
          /\ Pop(w)
          /\ UNCHANGED <<appVars, mailVars, spawn_exit_lock, alive, nid,
                         barVars, frameVars, gc, state>>
       \/ finished # 0 /\ YIELD_NEWFRAME(w)

-----------------------------------------------------------------------------
(* lace_barrier.                                                           *)
Bar(w, steps) == st' = [st EXCEPT ![w] = steps \o Tail(@)]

BarRead(w) ==
    /\ At(w, "read")
    /\ Bar(w, <<<<"add", wait>>>>)
    /\ UNCHANGED <<appVars, mailVars, spawn_exit_lock, alive, nid, barVars,
                   frameVars, gc, state>>

MutLast == <<"flip", "reset">>
Last == <<"reset", "flip">>     \* what the last worker does for the others

MutBarAdd(w) ==
    /\ At(w, "add")
    /\ count' = count + 1
    /\ Bar(w, IF count' = nid
              THEN [i \in 1 .. 2 |-> <<Last[i], Local(w)>>] \o <<S("leave")>>
              ELSE <<<<"spin", Local(w)>>, S("leave")>>)
    /\ UNCHANGED <<appVars, mailVars, spawn_exit_lock, alive, nid, leaving,
                   wait, frameVars, gc, state>>
BarAdd(w) ==
    /\ At(w, "add")
    /\ count' = count + 1
    /\ Bar(w, IF count' = alive
              THEN [i \in 1 .. 2 |-> <<Last[i], Local(w)>>] \o <<S("leave")>>
              ELSE <<<<"spin", Local(w)>>, S("leave")>>)
    /\ UNCHANGED <<appVars, mailVars, spawn_exit_lock, alive, nid, leaving,
                   wait, frameVars, gc, state>>

(* The two stores need no interleaving: all others spin on wait.           *)
BarReset(w) ==
    /\ At(w, "reset")
    /\ count' = 0 /\ leaving' = alive
    /\ Pop(w)
    /\ UNCHANGED <<appVars, mailVars, spawn_exit_lock, alive, nid, wait,
                   frameVars, gc, state>>

BarFlip(w) ==
    /\ At(w, "flip")
    /\ wait' = 1 - Local(w)
    /\ Pop(w)
    /\ UNCHANGED <<appVars, mailVars, spawn_exit_lock, alive, nid, count,
                   leaving, frameVars, gc, state>>

BarSpin(w) ==
    /\ At(w, "spin") /\ wait # Local(w)
    /\ Pop(w)
    /\ UNCHANGED <<appVars, mailVars, spawn_exit_lock, alive, nid, barVars,
                   frameVars, gc, state>>

BarLeave(w) ==
    /\ At(w, "leave")
    /\ leaving' = leaving - 1
    /\ Pop(w)
    /\ UNCHANGED <<appVars, mailVars, spawn_exit_lock, alive, nid, count,
                   wait, frameVars, gc, state>>

-----------------------------------------------------------------------------
(* What the application decides, and what the code does then.              *)
Request(t) == ThreadStart(t) \/ Post(t) \/ ThreadFini(t)
AppStep(t) == SpawnLock(t) \/ SpawnWorker(t) \/ Answered(t) \/ ThreadGone(t)

LifeStep(w) ==
    \/ WorkerInit(w) \/ Unlock(w) \/ lace_steal_loop_ex(w)
    \/ Work(w) \/ Retry(w) \/ Answer(w) \/ Reply(w)
    \/ ExitLock(w) \/ ExitRelease(w) \/ ExitAlive(w)
FrameStep(w) ==
    \/ sylvan_gc(w) \/ GcOff(w) \/ AwaitFrame(w) \/ GcLock(w)
    \/ SetFrame(w) \/ ClearFrame(w) \/ Collect(w) \/ Done(w)
    \/ lace_yield(w) \/ lace_steal_loop_in(w) \/ Mark(w) \/ Help(w)
BarrierStep(w) ==
    \/ BarRead(w) \/ BarAdd(w) \/ BarReset(w) \/ BarFlip(w)
    \/ BarSpin(w) \/ BarLeave(w)
WorkerStep(w) == LifeStep(w) \/ FrameStep(w) \/ BarrierStep(w)

Next ==
    \/ \E t \in Threads : Request(t) \/ AppStep(t)
    \/ \E w \in Id : TableFull(w) \/ WorkerStep(w)
    \/ lace_stop

Spec == Init /\ [][Next]_vars

(* Threads are scheduled; requests and a full table are not owed to us.    *)
Fairness ==
    /\ \A t \in Threads : WF_vars(AppStep(t))
    /\ \A w \in Id : WF_vars(WorkerStep(w))
    /\ WF_vars(lace_stop)
FairSpec == Spec /\ Fairness

-----------------------------------------------------------------------------
(* Who has spawn_exit_lock: a thread that spawns, and until it is ready    *)
(* the worker it spawned; a worker that ends; a worker that collects.      *)
Holds(w) == Has(w, {"ready", "xunlock", "gunlock"}) /\ ~Has(w, {"xlock", "glock"})
Holders == {t \in Threads : app[t] = "spawn"} \cup {w \in Id : Holds(w)}

(* spawn_exit_lock is handed from a thread to its worker and released by   *)
(* the worker, through three code paths: at any time at most one thread or *)
(* worker is in the section it guards, and the word is 1 exactly then.     *)
LockOwner == Cardinality(Holders) = spawn_exit_lock

(* A worker waits in a barrier; it is inside a frame until it is released  *)
(* from the last one.                                                      *)
Waiting(w) == (Top(w) = "spin" /\ Local(w) = wait) \/ Top(w) = "reset"
InFrame(w) == /\ Waiting(w) \/ Has(w, {"read", "add", "reset", "flip"})
              /\ ~Has(w, {"glock"})

(* The number of workers does not change while a frame is set or a worker  *)
(* is inside one (a worker released from its last barrier may be late to   *)
(* leave): the comment on lace_exec_in_new_frame says that the lock        *)
(* keeps collections and spawning apart, and the barriers count on it.     *)
FrameStable ==
    [][newframe # NoFrame \/ (\E w \in Id : InFrame(w)) => alive' = alive]_vars

(* While a worker collects, from the root of the frame to its end, no      *)
(* worker executes an operation of its mailbox: a node it would create     *)
(* meanwhile could be swept.                                               *)
GcAlone ==
    (\E r \in Id : Top(r) \in {"collect", "mark", "help", "done"}) =>
        \A w \in Id : Top(w) \notin {"work", "answer", "reply", "loop"}

(* lace_yield never copies from NULL: the frame a worker saw is still set  *)
(* when it reads it.                                                       *)
CopySafe == up => \A w \in Id : Top(w) = "copy" => newframe # NoFrame

(* The words of the barrier count the workers in it: those that arrived,   *)
(* and those released that have not left.  A barrier is never entered      *)
(* while the previous one is being left with a stale count.                *)
Released(w) == (Top(w) = "spin" /\ Local(w) # wait) \/ Top(w) = "leave"
BarrierCount ==
    IF \E w \in Id : Top(w) = "flip"
    THEN count = 0 /\ leaving = alive
    ELSE /\ count = Cardinality({w \in Id : Waiting(w)})
         /\ leaving = Cardinality({w \in Id : Released(w)})

(* When a thread has left its wait, the result in its mailbox belongs to   *)
(* its last request, and its worker is not touching the mailbox.           *)
MailboxAnswer ==
    \A t \in Threads : app[t] = "idle" =>
        /\ res[mine[t]] = arg[mine[t]]
        /\ ~Has(mine[t], {"work", "answer", "reply"})

(* When lace_stop frees the mailboxes and the workers' memory, no worker   *)
(* will use them again, although it does not wait for the workers: at most *)
(* the counter and the lock are left for them to write.                    *)
StopSafe ==
    state = "stopped" =>
        \A w \in Id : Top(w) \in {"none", "leave_alive", "xunlock"}

(* A thread that ends gets its worker's acknowledgement, whatever the      *)
(* other workers do: ssa_thread_fini does not spin for ever.               *)
QuitAcked == \A t \in Threads : app[t] = "quit" ~> app[t] = "off" \/ ~up

(* A worker waits for a frame that nobody is going to set: the collection  *)
(* it met is past its frames.                                              *)
Stalled(w) == /\ At(w, "await") /\ newframe = NoFrame
              /\ ~\E r \in Id : Has(r, {"glock", "set_steal", "collect",
                                        "set_together"})

(* Every request is answered, unless the process exits or the worker       *)
(* stalls; so no deadlock is left in the lock, the frames and the barriers.*)
AnsweredOrStalled ==
    \A t \in Threads :
        app[t] = "wait" ~> app[t] # "wait" \/ ~up \/ \E w \in Id : Stalled(w)

(* Collections end: gc returns to 0 and with it the lock.                  *)
GcEnds == gc = 1 ~> gc = 0 \/ ~up

(* sylvan_gc: "wait for new frame to appear".                              *)
FrameAppears == \A w \in Id : Top(w) = "await" ~> Top(w) # "await" \/ ~up
=============================================================================
