---------------------------- MODULE SystemCalls ----------------------------
(***************************************************************************)
(* A thread at a system call: the callbacks sysenter_save and sysexit_save *)
(* of src/libdft_api.cpp around every call of Kernel.  After the call      *)
(* libdft has cleared the tags of the ranges in cleared.                   *)
(***************************************************************************)
EXTENDS Kernel
CONSTANT NoCall
VARIABLES call, cleared
CallInit == call = NoCall /\ cleared = {}
SystemCall(nr) == \E c \in Calls(nr) : call' = c /\ cleared' = Cleared(c)
CallNext == call = NoCall /\ \E nr \in Names : SystemCall(nr)

(* Calls whose row or hook leaves out memory the kernel writes. *)
Stale == {"poll", "mmap", "ioctl", "recvfrom", "recvmsg", "clone", "semctl",
          "msgrcv", "fcntl", "readlink", "arch_prctl", "quotactl", "capget",
          "get_mempolicy", "mq_timedreceive", "pselect6", "ppoll", "move_pages",
          "epoll_pwait", "recvmmsg", "name_to_handle_at", "preadv", "statx",
          "getrandom"}
(* Calls whose row or hook clears more than a successful call writes. *)
Over == {"mmap", "rt_sigaction", "rt_sigprocmask", "select", "shmctl", "nanosleep",
         "connect", "bind", "accept", "getsockname", "getpeername", "sendto",
         "recvfrom", "sendmsg", "recvmsg", "semctl", "times", "getgroups",
         "rt_sigqueueinfo", "_sysctl", "getxattr", "lgetxattr", "fgetxattr",
         "listxattr", "llistxattr", "flistxattr", "sched_getaffinity",
         "io_getevents", "timer_create", "clock_nanosleep", "mq_timedreceive",
         "pselect6", "signalfd", "accept4", "rt_tgsigqueueinfo", "perf_event_open",
         "recvmmsg", "open_by_handle_at", "getcpu"}
(* The calls without a hook: what the row says is cleared after a failed   *)
(* call too.                                                               *)
Unhooked == {nr \in DOMAIN syscall_desc : syscall_desc[nr].post = "none"}
CleanAfter(c) == Within(KernelWrites(c), Cleared(c))
KeptAfter(c) == Within(Used(Cleared(c)), KernelWrites(c))
(* Every call that is listed does deviate. *)
ASSUME StaleAssumption == \A nr \in Stale : \E c \in Calls(nr) : ~CleanAfter(c)
ASSUME FailedAssumption == \A nr \in Unhooked : syscall_desc[nr].map_args # <<>> =>
                              \E c \in Calls(nr) : c.ret < 0 /\ Used(Cleared(c)) # {}
ASSUME OverAssumption == \A nr \in Over : \E c \in Calls(nr) : c.ret >= 0 /\ ~KeptAfter(c)

(* Old tags never survive in memory that the kernel has overwritten: every *)
(* byte a call writes has lost its tag at the exit, but for the calls in   *)
(* Stale.                                                                  *)
OutputClean == call # NoCall /\ call.nr \notin Stale => Within(KernelWrites(call), cleared)

(* No tag is lost by a call that did not write the byte: nothing outside   *)
(* the written memory is cleared, but for the calls in Over and, when they *)
(* fail, those without a hook, which the test of an unsigned ret misses.   *)
RestKept == (call # NoCall /\ call.nr \notin (IF call.ret < 0 THEN Unhooked ELSE Over))
               => Within(Used(cleared), KernelWrites(call))
=============================================================================
