------------------------------- MODULE Kernel -------------------------------
(***************************************************************************)
(* Reference for SyscallDesc: the memory that Linux on x86-64 writes in a  *)
(* system call, after the manual pages, and the calls to look at.          *)
(***************************************************************************)
EXTENDS SyscallDesc, FiniteSets

(* Calls that, when they succeed, fill objects of fixed size behind their  *)
(* arguments, if those are given.                                          *)
Fixed ==
    Rows({"stat", "fstat", "lstat"}, 1 :> 144) @@ Rows({"newfstatat"}, 2 :> 144)
    @@ Rows({"rt_sigaction"}, 2 :> 32) @@ Rows({"rt_sigprocmask"}, 2 :> 8)
    @@ Rows({"pipe", "pipe2"}, 0 :> 8) @@ Rows({"socketpair"}, 3 :> 8)
    @@ Rows({"getitimer"}, 1 :> 32) @@ Rows({"setitimer"}, 2 :> 32)
    @@ Rows({"sendfile"}, 2 :> 8) @@ Rows({"splice"}, 1 :> 8 @@ 3 :> 8)
    @@ Rows({"wait4"}, 1 :> 4 @@ 3 :> 144) @@ Rows({"waitid"}, 2 :> 128 @@ 4 :> 144)
    @@ Rows({"uname"}, 0 :> 390) @@ Rows({"gettimeofday"}, 0 :> 16 @@ 1 :> 8)
    @@ Rows({"getrlimit"}, 1 :> 16) @@ Rows({"prlimit64"}, 3 :> 16)
    @@ Rows({"getrusage"}, 1 :> 144) @@ Rows({"sysinfo"}, 0 :> 112)
    @@ Rows({"times"}, 0 :> 32) @@ Rows({"time"}, 0 :> 8)
    @@ Rows({"getresuid", "getresgid"}, 0 :> 4 @@ 1 :> 4 @@ 2 :> 4)
    @@ Rows({"rt_sigtimedwait"}, 1 :> 128) @@ Rows({"sigaltstack"}, 1 :> 24)
    @@ Rows({"ustat"}, 1 :> 32) @@ Rows({"statfs", "fstatfs"}, 1 :> 120)
    @@ Rows({"sched_getparam"}, 1 :> 4) @@ Rows({"sched_rr_get_interval"}, 1 :> 16)
    @@ Rows({"adjtimex"}, 0 :> 208) @@ Rows({"clock_adjtime"}, 1 :> 208)
    @@ Rows({"io_setup"}, 1 :> 8) @@ Rows({"io_cancel"}, 2 :> 32)
    @@ Rows({"timer_create"}, 2 :> 4) @@ Rows({"timer_settime"}, 3 :> 32)
    @@ Rows({"timer_gettime", "timerfd_gettime"}, 1 :> 32)
    @@ Rows({"timerfd_settime"}, 3 :> 32)
    @@ Rows({"clock_gettime", "clock_getres"}, 1 :> 16)
    @@ Rows({"mq_getsetattr"}, 2 :> 64) @@ Rows({"get_robust_list"}, 1 :> 8 @@ 2 :> 8)
    @@ Rows({"getcpu"}, 0 :> 4 @@ 1 :> 4) @@ Rows({"sched_getattr"}, 1 :> 48)
    @@ Rows({"arch_prctl"}, 1 :> 8) @@ Rows({"clone"}, 2 :> 4 @@ 3 :> 4)
    @@ Rows({"capget"}, 1 :> 24) @@ Rows({"ioctl"}, 2 :> 8)
    @@ Rows({"name_to_handle_at"}, 2 :> 16 @@ 3 :> 4) @@ Rows({"statx"}, 4 :> 256)
    @@ Rows({"select"}, 1 :> 8 @@ 2 :> 8 @@ 3 :> 8 @@ 4 :> 16)
    @@ Rows({"pselect6"}, 1 :> 8 @@ 2 :> 8 @@ 3 :> 8 @@ 4 :> 16)

(* Calls that return the number of bytes they have put behind an argument. *)
Counted ==
    Rows({"read", "pread64", "getdents", "getdents64", "readlink",
          "lookup_dcookie"}, 1)
    @@ Rows({"readlinkat", "sched_getaffinity"}, 2)
    @@ Rows({"getcwd", "getrandom"}, 0)

Shorter(a, b) == IF a <= b THEN a ELSE b
At(c, i, n) == Given(c.arg[i], Range(c.arg[i], 0, n))
Address(c, i) == Given(c.arg[i], At(c, i, Shorter(c.mem.cap, c.mem.len))
                                 \cup At(c, i + 1, 4))
Message(k, m, cap) ==
    Given(m.name, Range(m.name, 0, Shorter(cap, m.namelen))
                  \cup Range(<<"msg_namelen", k>>, 0, 4))
    \cup Given(m.control, Range(m.control, 0, m.controllen))
    \cup Range(<<"msg_controllen", k>>, 0, 8) \cup Range(<<"msg_flags", k>>, 0, 4)

(* n bytes spread over buffers of the lengths iov: byte j goes to the      *)
(* first buffer that has room for it.                                      *)
Room(iov, k) == Cardinality(UNION {{<<i, j>> : j \in 1 .. iov[i]} : i \in 1 .. k})
Spread(name, iov, n) ==
    UNION {Range(<<name, k>>, 0, Cardinality({j \in 1 .. n : Room(iov, k - 1) < j /\ j <= Room(iov, k)}))
           : k \in 1 .. Len(iov)}

(* QCMD: the command moves up by a byte, as an int of 32 bits. *)
QCMD(q) == 256 * (IF Quota[q] < 2^23 THEN Quota[q] ELSE Quota[q] - 2^24)

(* What a call that has not failed writes, other than Fixed and Counted. *)
Special(c) ==
    CASE c.nr \in {"poll", "ppoll"} ->
            UNION {Range(<<"revents", i>>, 0, 2) : i \in 1 .. c.arg[1]}
            \cup (IF c.nr = "ppoll" THEN At(c, 2, 16) ELSE {})
      [] c.nr = "mmap" -> Range(<<"map">>, 0, PAGE_SZ *
                                ((c.arg[1] + PAGE_SZ - 1) \div PAGE_SZ))
      [] c.nr \in {"readv", "preadv"} -> Spread("iov", c.mem.iov, c.ret)
      [] c.nr = "mincore" -> At(c, 2, (c.arg[1] + PAGE_SZ - 1) \div PAGE_SZ)
      [] c.nr = "msgctl" -> CASE c.arg[1] \in {"IPC_STAT", "STAT"} -> At(c, 2, 120)
                              [] c.arg[1] \in {"IPC_INFO", "INFO"} -> At(c, 2, 32)
                              [] OTHER -> {}
      [] c.nr = "shmctl" -> CASE c.arg[1] \in {"IPC_STAT", "STAT"} -> At(c, 2, 112)
                              [] c.arg[1] = "IPC_INFO" -> At(c, 2, 72)
                              [] c.arg[1] = "INFO" -> At(c, 2, 48)
                              [] OTHER -> {}
      [] c.nr = "semctl" -> CASE c.arg[2] \in {"IPC_STAT", "STAT"} -> At(c, 3, 104)
                              [] c.arg[2] \in {"IPC_INFO", "INFO"} -> At(c, 3, 40)
                              [] OTHER -> {}
      [] c.nr \in {"accept", "accept4", "getsockname", "getpeername"} -> Address(c, 1)
      [] c.nr = "recvfrom" -> At(c, 1, c.ret) \cup Address(c, 4)
      [] c.nr = "recvmsg" -> Message(1, c.mem.msg, c.mem.cap)
                             \cup Spread("iov", c.mem.iov, c.ret)
      [] c.nr = "recvmmsg" ->
            UNION {Message(k, c.mem.msg, c.mem.cap) \cup Range(<<"msg_len", k>>, 0, 4)
                   \cup Spread("iov", c.mem.iov, c.mem.len) : k \in 1 .. c.ret}
            \cup At(c, 4, 16)
      [] c.nr = "getsockopt" -> At(c, 3, c.mem.len) \cup At(c, 4, 4)
      [] c.nr = "msgrcv" -> At(c, 1, c.ret + 8)
      [] c.nr = "fcntl" -> CASE c.arg[1] \in {"F_GETLK", "F_OFD_GETLK"} -> At(c, 2, 32)
                             [] c.arg[1] = "F_GETOWN_EX" -> At(c, 2, 8)
                             [] OTHER -> {}
      [] c.nr = "syslog" -> IF c.arg[0] \in 2 .. 4 THEN At(c, 1, c.ret) ELSE {}
      [] c.nr = "getgroups" -> IF c.arg[0] = 0 THEN {} ELSE At(c, 1, 4 * c.ret)
      [] c.nr = "rt_sigpending" -> At(c, 0, c.arg[1])
      [] c.nr = "modify_ldt" -> At(c, 1, c.ret)
      [] c.nr = "_sysctl" -> Given(c.mem.opt, Range(c.mem.opt, 0, c.mem.len)
                                              \cup Range(<<"oldlenp">>, 0, 8))
      [] c.nr = "quotactl" -> UNION {At(c, 3, QuotaSize[q]) : q \in
                                     {q \in DOMAIN Quota : c.arg[0] = QCMD(q)}}
      [] c.nr \in {"getxattr", "lgetxattr", "fgetxattr"} ->
            IF c.arg[3] = 0 THEN {} ELSE At(c, 2, c.ret)
      [] c.nr \in {"listxattr", "llistxattr", "flistxattr"} ->
            IF c.arg[2] = 0 THEN {} ELSE At(c, 1, c.ret)
      [] c.nr = "io_getevents" -> At(c, 3, 32 * c.ret)
      [] c.nr \in {"epoll_wait", "epoll_pwait"} -> At(c, 1, 12 * c.ret)
      [] c.nr = "get_mempolicy" ->
            (IF "MPOL_F_MEMS_ALLOWED" \in c.arg[4] THEN {} ELSE At(c, 0, 4))
            \cup (IF "MPOL_F_NODE" \in c.arg[4] THEN {} ELSE At(c, 1, c.arg[2]))
      [] c.nr = "mq_timedreceive" -> At(c, 1, c.ret) \cup At(c, 3, 4)
      [] c.nr = "move_pages" -> At(c, 4, 4 * c.arg[1])
      [] OTHER -> {}

(* An interrupted sleep fails and returns the time that is left. *)
KernelWrites(c) ==
    CASE c.nr \in {"nanosleep", "clock_nanosleep"} ->
            IF c.ret < 0 THEN At(c, IF c.nr = "nanosleep" THEN 1 ELSE 3, 16) ELSE {}
      [] c.nr \notin {"nanosleep", "clock_nanosleep"} /\ c.ret < 0 -> {}
      [] c.ret >= 0 /\ c.nr \in DOMAIN Fixed ->
            UNION {At(c, i, Fixed[c.nr][i]) : i \in DOMAIN Fixed[c.nr]}
      [] c.ret >= 0 /\ c.nr \in DOMAIN Counted -> At(c, Counted[c.nr], c.ret)
      [] OTHER -> Special(c)

(* The values of the arguments that are not pointers. *)
Ctls == {"IPC_STAT", "STAT", "IPC_INFO", "INFO", "IPC_RMID"}
Numbers(nr) ==
    CASE nr = "mmap" -> {(1 :> n) @@ (3 :> f) :
                         n \in 3 .. 5, f \in {"MAP_SHARED", "MAP_GROWSDOWN"}}
      [] nr \in {"poll", "ppoll", "move_pages"} -> {1 :> 2}
      [] nr = "mincore" -> {1 :> n : n \in 3 .. 5}
      [] nr \in {"msgctl", "shmctl"} -> {1 :> cmd : cmd \in Ctls}
      [] nr = "semctl" -> {2 :> cmd : cmd \in Ctls}
      [] nr = "fcntl" -> {1 :> cmd : cmd \in
                          {"F_GETLK", "F_OFD_GETLK", "F_GETOWN_EX", "F_DUPFD"}}
      [] nr = "syslog" -> {0 :> type : type \in 1 .. 5}
      [] nr = "getgroups" -> {0 :> n : n \in {0, 4}}
      [] nr = "rt_sigpending" -> {1 :> 8}
      [] nr = "quotactl" -> {0 :> QCMD(q) : q \in DOMAIN Quota}
      [] nr \in {"getxattr", "lgetxattr", "fgetxattr"} -> {3 :> n : n \in {0, 4}}
      [] nr \in {"listxattr", "llistxattr", "flistxattr"} -> {2 :> n : n \in {0, 4}}
      [] nr = "get_mempolicy" -> {(2 :> n) @@ (4 :> f) : n \in {8, 16}, f \in
                                  {{}, {"MPOL_F_ADDR"}, {"MPOL_F_NODE"},
                                   {"MPOL_F_ADDR", "MPOL_F_NODE"},
                                   {"MPOL_F_MEMS_ALLOWED"}}}
      [] OTHER -> {NoArgs}

(* The memory behind the arguments; it differs where a call looks at it. *)
OneMemory == [cap |-> 4, len |-> 3, opt |-> NULL, iov |-> <<1, 2>>,
              msg |-> [name |-> NULL, namelen |-> 3, control |-> NULL,
                       controllen |-> 5]]
Memories(nr) ==
    IF nr \in {"accept", "accept4", "getsockname", "getpeername", "recvfrom",
               "recvmsg", "recvmmsg", "getsockopt", "_sysctl"}
    THEN {[OneMemory EXCEPT !.len = n, !.opt = o, !.msg.name = p, !.msg.namelen = n,
                            !.msg.control = q]
          : n \in {3, 6}, o \in {NULL, <<"opt">>}, p \in {NULL, <<"name">>},
            q \in {NULL, <<"control">>}}
    ELSE {OneMemory}

(* Calls with at most one argument NULL, that fail, return 0 or return 2;  *)
(* an earlier call has left pointers in the context.                       *)
Args(numbers, null) ==
    [i \in 0 .. 5 |-> IF i \in DOMAIN numbers THEN numbers[i]
                      ELSE IF i = null THEN NULL ELSE <<"arg", i>>]
Calls(nr) ==
    {[nr |-> nr, ret |-> r, arg |-> Args(n, null), mem |-> m,
      old |-> [i \in 0 .. 5 |-> <<"old", i>>]]
     : r \in {-4, 0, 2}, n \in Numbers(nr), null \in 0 .. 6, m \in Memories(nr)}
Names == DOMAIN syscall_desc \cup {"statx", "getrandom"}

(* Every byte of the ranges ws lies in one of the ranges rs. *)
Within(ws, rs) == \A w \in ws : \E r \in rs : r.obj = w.obj /\ r.lo <= w.lo
                                                          /\ w.hi <= r.hi
(* Ranges of memory the program uses. *)
Used(rs) == {r \in rs : r.obj # NULL}
=============================================================================
