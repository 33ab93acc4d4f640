----------------------------- MODULE SyscallDesc -----------------------------
(***************************************************************************)
(* What libdft does around a system call (src/libdft_api.cpp) with its     *)
(* descriptors and default callbacks (src/syscall_desc.cpp): it saves the  *)
(* arguments at the entry and clears, at the exit, the tags of the memory  *)
(* it takes the kernel to have written.                                    *)
(*                                                                         *)
(* A call is a record: nr, the number of its name; ret, the signed value   *)
(* in rax; arg, the six argument registers; old, what syscall_ctx.arg held *)
(* before; mem, the memory the arguments point to, after the call (cap the *)
(* room for an answer, len its length, opt an optional pointer, iov the    *)
(* lengths of a vector of buffers, msg a message header).  An              *)
(* argument is a number or a pointer, a pointer is a tuple that names the  *)
(* object, <<>> is NULL.  A range of memory is an object and two offsets.  *)
(***************************************************************************)
EXTENDS Integers, Sequences, TLC

NULL == <<>>
Range(p, lo, n) == IF n > 0 THEN {[obj |-> p, lo |-> lo, hi |-> lo + n]} ELSE {}
(* sizeof of the C types on x86-64. *)
SZ == [stat |-> 144, sigaction |-> 152, sigset_t |-> 128, int |-> 4,
       fd_set |-> 128, timeval |-> 16, timezone |-> 8, timespec |-> 16,
       itimerval |-> 32, itimerspec |-> 32, off_t |-> 8, loff_t |-> 8,
       sockaddr |-> 16, msghdr |-> 56, rusage |-> 144, utsname |-> 390,
       rlimit |-> 16, sysinfo |-> 112, uid_t |-> 4, gid_t |-> 4,
       siginfo_t |-> 128, stack_t |-> 24, ustat |-> 32, statfs |-> 120,
       sched_param |-> 4, timex |-> 208, time_t |-> 8, cpu_set_t |-> 128,
       aio_context_t |-> 8, io_event |-> 32, timer_t |-> 8, mq_attr |-> 64,
       pointer |-> 8, size_t |-> 8, long |-> 8, short |-> 2,
       perf_event_attr |-> 112, file_handle |-> 8, getcpu_cache |-> 128,
       sched_attr |-> 48, epoll_event |-> 12, flock |-> 32, f_owner_ex |-> 8,
       msqid_ds |-> 120, msginfo |-> 32, shmid_ds |-> 112, shminfo |-> 72,
       semid_ds |-> 104, seminfo |-> 40]
(* 4096 in the code; only the rounding matters. *)
PAGE_SZ == 4

(* A descriptor: the number of arguments, whether they are saved, the      *)
(* sizes of what the arguments return, the callback after the call.        *)
Rows(names, row) == [n \in names |-> row]
NoArgs == [i \in {} |-> 0]
Map(n, sizes) == [nargs |-> n, save |-> TRUE, map_args |-> sizes, post |-> "none"]
Post(n, hook) == [nargs |-> n, save |-> TRUE, map_args |-> NoArgs, post |-> hook]
Plain == [nargs |-> 0, save |-> FALSE, map_args |-> NoArgs, post |-> "none"]

(* System calls 0 to 62. *)
syscall_desc_0 ==
    Rows({"read"}, Post(3, "post_read_hook"))
    @@ Rows({"stat", "fstat", "lstat"}, Map(2, 1 :> SZ.stat))
    @@ Rows({"poll"}, Post(3, "post_poll_hook"))
    @@ Rows({"mmap"}, Post(6, "post_mmap_hook"))
    @@ Rows({"rt_sigaction"}, Map(3, 2 :> SZ.sigaction))
    @@ Rows({"rt_sigprocmask"}, Map(4, 1 :> SZ.sigset_t @@ 2 :> SZ.sigset_t))
    @@ Rows({"ioctl"}, Map(3, NoArgs))
    @@ Rows({"pread64"}, Post(4, "post_read_hook"))
    @@ Rows({"readv"}, Post(3, "post_readv_hook"))
    @@ Rows({"pipe"}, Map(1, 0 :> SZ.int * 2))
    @@ Rows({"select"}, Map(5, 1 :> SZ.fd_set @@ 2 :> SZ.fd_set
                     @@ 3 :> SZ.fd_set @@ 4 :> SZ.timeval))
    @@ Rows({"mincore"}, Post(3, "post_mincore_hook"))
    @@ Rows({"shmctl"}, Post(3, "post_shmctl_hook"))
    @@ Rows({"nanosleep"}, Map(2, 0 :> SZ.timespec @@ 1 :> SZ.timespec))
    @@ Rows({"getitimer"}, Map(2, 1 :> SZ.itimerval))
    @@ Rows({"setitimer"}, Map(3, 2 :> SZ.itimerval))
    @@ Rows({"sendfile"}, Map(4, 2 :> SZ.off_t))
    @@ Rows({"connect", "bind"}, Map(3, 1 :> SZ.sockaddr))
    @@ Rows({"accept", "getsockname", "getpeername"}, Post(3, "post_accept_hook"))
    @@ Rows({"sendto"}, Map(6, 4 :> SZ.sockaddr))
    @@ Rows({"recvfrom"}, Post(6, "post_recvfrom_hook"))
    @@ Rows({"sendmsg"}, Map(3, 1 :> SZ.msghdr))
    @@ Rows({"recvmsg"}, Post(3, "post_recvmsg_hook"))
    @@ Rows({"socketpair"}, Map(4, 3 :> SZ.int * 2))
    @@ Rows({"setsockopt"}, Map(5, NoArgs))
    @@ Rows({"getsockopt"}, Post(5, "post_getsockopt_hook"))
    @@ Rows({"clone"}, Map(4, NoArgs))
    @@ Rows({"wait4"}, Map(4, 1 :> SZ.int @@ 3 :> SZ.rusage))
    @@ Rows({"write", "open", "close", "lseek", "mprotect", "munmap", "brk",
             "rt_sigreturn", "pwrite64", "writev", "access", "sched_yield",
             "mremap", "msync", "madvise", "shmget", "shmat", "dup", "dup2",
             "pause", "alarm", "getpid", "socket", "shutdown", "listen", "fork",
             "vfork", "execve", "exit", "kill"}, Plain)

(* System calls 63 to 121. *)
syscall_desc_63 ==
    Rows({"uname"}, Map(1, 0 :> SZ.utsname))
    @@ Rows({"semctl"}, Post(4, "post_semctl_hook"))
    @@ Rows({"shmdt"}, Map(1, NoArgs))
    @@ Rows({"msgrcv"}, Post(5, "post_msgrcv_hook"))
    @@ Rows({"msgctl"}, Post(3, "post_msgctl_hook"))
    @@ Rows({"fcntl"}, Post(3, "post_fcntl_hook"))
    @@ Rows({"getdents"}, Post(3, "post_getdents_hook"))
    @@ Rows({"getcwd"}, Post(2, "post_getcwd_hook"))
    @@ Rows({"readlink"}, Map(3, NoArgs))
    @@ Rows({"gettimeofday"}, Map(2, 0 :> SZ.timeval @@ 1 :> SZ.timezone))
    @@ Rows({"getrlimit"}, Map(2, 1 :> SZ.rlimit))
    @@ Rows({"getrusage"}, Map(2, 1 :> SZ.rusage))
    @@ Rows({"sysinfo", "times"}, Map(1, 0 :> SZ.sysinfo))
    @@ Rows({"syslog"}, Post(3, "post_syslog_hook"))
    @@ Rows({"getgroups"}, Post(2, "post_getgroups_hook"))
    @@ Rows({"getresuid"}, Map(3, 0 :> SZ.uid_t @@ 1 :> SZ.uid_t
                     @@ 2 :> SZ.uid_t))
    @@ Rows({"getresgid"}, Map(3, 0 :> SZ.gid_t @@ 1 :> SZ.gid_t
                     @@ 2 :> SZ.gid_t))
    @@ Rows({"semget", "semop", "msgget", "msgsnd", "flock", "fsync", "fdatasync",
             "truncate", "ftruncate", "chdir", "fchdir", "rename", "mkdir",
             "rmdir", "creat", "link", "unlink", "symlink", "chmod", "fchmod",
             "chown", "fchown", "lchown", "umask", "ptrace", "getuid", "getgid",
             "setuid", "setgid", "geteuid", "getegid", "setpgid", "getppid",
             "getpgrp", "setsid", "setreuid", "setregid", "setgroups", "setresuid",
             "setresgid", "getpgid"}, Plain)

(* System calls 122 to 180. *)
syscall_desc_122 ==
    Rows({"rt_sigpending"}, Post(2, "post_rt_sigpending_hook"))
    @@ Rows({"rt_sigtimedwait"}, Map(4, 1 :> SZ.siginfo_t))
    @@ Rows({"rt_sigqueueinfo"}, Map(3, 2 :> SZ.siginfo_t))
    @@ Rows({"sigaltstack"}, Map(2, 1 :> SZ.stack_t))
    @@ Rows({"ustat"}, Map(2, 1 :> SZ.ustat))
    @@ Rows({"statfs", "fstatfs"}, Map(2, 1 :> SZ.statfs))
    @@ Rows({"sched_getparam"}, Map(2, 1 :> SZ.sched_param))
    @@ Rows({"sched_rr_get_interval"}, Map(2, 1 :> SZ.timespec))
    @@ Rows({"modify_ldt"}, Post(3, "post_modify_ldt_hook"))
    @@ Rows({"_sysctl"}, Post(1, "post__sysctl_hook"))
    @@ Rows({"arch_prctl"}, Map(2, NoArgs))
    @@ Rows({"adjtimex"}, Map(1, 0 :> SZ.timex))
    @@ Rows({"quotactl"}, Post(4, "post_quotactl_hook"))
    @@ Rows({"setfsuid", "setfsgid", "getsid", "capget", "capset", "rt_sigsuspend",
             "utime", "mknod", "uselib", "personality", "sysfs", "getpriority",
             "setpriority", "sched_setparam", "sched_setscheduler",
             "sched_getscheduler", "sched_get_priority_max",
             "sched_get_priority_min", "mlock", "munlock", "mlockall",
             "munlockall", "vhangup", "pivot_root", "prctl", "setrlimit", "chroot",
             "sync", "acct", "settimeofday", "mount", "umount2", "swapon",
             "swapoff", "reboot", "sethostname", "setdomainname", "iopl", "ioperm",
             "create_module", "init_module", "delete_module", "get_kernel_syms",
             "query_module", "nfsservctl"}, Plain)

(* System calls 181 to 239. *)
syscall_desc_181 ==
    Rows({"getxattr", "lgetxattr", "fgetxattr"}, Post(4, "post_getxattr_hook"))
    @@ Rows({"listxattr", "llistxattr", "flistxattr"}, Post(3, "post_listxattr_hook"))
    @@ Rows({"time"}, Map(1, 0 :> SZ.time_t))
    @@ Rows({"sched_getaffinity"}, Map(3, 2 :> SZ.cpu_set_t))
    @@ Rows({"io_setup"}, Map(2, 1 :> SZ.aio_context_t))
    @@ Rows({"io_getevents"}, Post(4, "post_io_getevents_hook"))
    @@ Rows({"io_cancel"}, Map(3, 2 :> SZ.io_event))
    @@ Rows({"lookup_dcookie"}, Post(3, "post_lookup_dcookie_hook"))
    @@ Rows({"getdents64"}, Post(3, "post_getdents_hook"))
    @@ Rows({"timer_create"}, Map(3, 2 :> SZ.timer_t))
    @@ Rows({"timer_settime"}, Map(4, 3 :> SZ.itimerspec))
    @@ Rows({"timer_gettime"}, Map(2, 1 :> SZ.itimerspec))
    @@ Rows({"clock_gettime", "clock_getres"}, Map(2, 1 :> SZ.timespec))
    @@ Rows({"clock_nanosleep"}, Map(4, 3 :> SZ.timespec))
    @@ Rows({"epoll_wait"}, Post(4, "post_epoll_wait_hook"))
    @@ Rows({"get_mempolicy"}, Post(5, "post_get_mempolicy_hook"))
    @@ Rows({"getpmsg", "putpmsg", "afs_syscall", "tuxcall", "security", "gettid",
             "readahead", "setxattr", "lsetxattr", "fsetxattr", "removexattr",
             "lremovexattr", "fremovexattr", "tkill", "futex", "sched_setaffinity",
             "set_thread_area", "io_destroy", "io_submit", "get_thread_area",
             "epoll_create", "epoll_ctl_old", "epoll_wait_old", "remap_file_pages",
             "set_tid_address", "restart_syscall", "semtimedop", "fadvise64",
             "timer_getoverrun", "timer_delete", "clock_settime", "exit_group",
             "epoll_ctl", "tgkill", "utimes", "vserver", "mbind", "set_mempolicy"}, Plain)

(* System calls 240 to 280. *)
syscall_desc_240 ==
    Rows({"mq_timedreceive"}, Post(5, "post_mq_timedreceive_hook"))
    @@ Rows({"mq_getsetattr"}, Map(3, 2 :> SZ.mq_attr))
    @@ Rows({"waitid"}, Map(5, 2 :> SZ.siginfo_t @@ 4 :> SZ.rusage))
    @@ Rows({"newfstatat"}, Map(4, 2 :> SZ.stat))
    @@ Rows({"readlinkat"}, Post(4, "post_readlinkat_hook"))
    @@ Rows({"pselect6"}, Map(6, 1 :> SZ.fd_set @@ 2 :> SZ.fd_set
                     @@ 3 :> SZ.fd_set))
    @@ Rows({"ppoll"}, Post(5, "post_poll_hook"))
    @@ Rows({"get_robust_list"}, Map(3, 1 :> SZ.pointer @@ 2 :> SZ.size_t))
    @@ Rows({"splice"}, Map(6, 1 :> SZ.loff_t @@ 3 :> SZ.loff_t))
    @@ Rows({"move_pages"}, Map(6, 4 :> SZ.int))
    @@ Rows({"mq_open", "mq_unlink", "mq_timedsend", "mq_notify", "kexec_load",
             "add_key", "request_key", "keyctl", "ioprio_set", "ioprio_get",
             "inotify_init", "inotify_add_watch", "inotify_rm_watch",
             "migrate_pages", "openat", "mkdirat", "mknodat", "fchownat",
             "futimesat", "unlinkat", "renameat", "linkat", "symlinkat",
             "fchmodat", "faccessat", "unshare", "set_robust_list", "tee",
             "sync_file_range", "vmsplice", "utimensat"}, Plain)

(* System calls 281 to 315. *)
syscall_desc_281 ==
    Rows({"epoll_pwait"}, Map(6, NoArgs))
    @@ Rows({"signalfd"}, Post(3, "post_epoll_wait_hook"))
    @@ Rows({"timerfd_settime"}, Map(4, 3 :> SZ.itimerspec))
    @@ Rows({"timerfd_gettime"}, Map(2, 1 :> SZ.itimerspec))
    @@ Rows({"accept4"}, Post(4, "post_accept_hook"))
    @@ Rows({"dup3"}, Map(3, NoArgs))
    @@ Rows({"pipe2"}, Map(2, 0 :> SZ.int * 2))
    @@ Rows({"rt_tgsigqueueinfo"}, Map(4, 3 :> SZ.siginfo_t))
    @@ Rows({"perf_event_open"}, Map(5, 0 :> SZ.perf_event_attr))
    @@ Rows({"recvmmsg"}, Post(5, "post_recvmmsg_hook"))
    @@ Rows({"prlimit64"}, Map(4, 3 :> SZ.rlimit))
    @@ Rows({"name_to_handle_at"}, Map(5, 2 :> SZ.file_handle @@ 3 :> SZ.int))
    @@ Rows({"open_by_handle_at"}, Map(3, 2 :> SZ.file_handle))
    @@ Rows({"clock_adjtime"}, Map(2, 1 :> SZ.timex))
    @@ Rows({"getcpu"}, Map(3, 0 :> SZ.int @@ 1 :> SZ.int
                     @@ 2 :> SZ.getcpu_cache))
    @@ Rows({"sched_getattr"}, Map(4, 1 :> SZ.sched_attr))
    @@ Rows({"timerfd_create", "eventfd", "fallocate", "signalfd4", "eventfd2",
             "epoll_create1", "inotify_init1", "preadv", "pwritev",
             "fanotify_init", "fanotify_mark", "syncfs", "sendmmsg", "setns",
             "process_vm_readv", "process_vm_writev", "kcmp", "finit_module",
             "sched_setattr"}, Plain)

syscall_desc == syscall_desc_0 @@ syscall_desc_63 @@ syscall_desc_122
                @@ syscall_desc_181 @@ syscall_desc_240 @@ syscall_desc_281

(* The callbacks: the memory whose tags they clear.  c.arg holds what      *)
(* sysenter_save left in the context.                                      *)
Positive(c, ranges) == IF c.ret <= 0 THEN {} ELSE ranges
Success(c, ranges) == IF c.ret < 0 THEN {} ELSE ranges
Given(p, ranges) == IF p = NULL THEN {} ELSE ranges
tagmap_clrn(p, n) == Range(p, 0, n)

post_read_hook(c) == Positive(c, tagmap_clrn(c.arg[1], c.ret))
post_getgroups_hook(c) ==
    Positive(c, Given(c.arg[1], tagmap_clrn(c.arg[1], SZ.gid_t * c.ret)))
post_readlinkat_hook(c) == Positive(c, tagmap_clrn(c.arg[2], c.ret))

(* Only -EPERM equals MAP_FAILED; a range that starts at another error     *)
(* lies above the addresses of the tag directory.                          *)
MapRounded(len) == IF len < PAGE_SZ THEN PAGE_SZ
                   ELSE len + PAGE_SZ - (len % PAGE_SZ)
post_mmap_hook(c) ==
    LET offset == MapRounded(c.arg[1])
        base == IF c.arg[3] = "MAP_GROWSDOWN" THEN -offset ELSE 0
    IN  IF c.ret < 0 THEN {} ELSE Range(<<"map">>, base, offset)

(* The ranges of tot bytes spread over buffers of the lengths iov. *)
Total(iov) == LET s[k \in 0 .. Len(iov)] == IF k = 0 THEN 0 ELSE s[k - 1] + iov[k]
            IN  s
(* Mutant: the last buffer is taken to be full. *)
WholeBuffers(name, iov, tot) ==
    UNION {IF tot > Total(iov)[k - 1] THEN tagmap_clrn(<<name, k>>, iov[k]) ELSE {}
           : k \in 1 .. Len(iov)}
Scatter(name, iov, tot) ==
    UNION {LET left == tot - Total(iov)[k - 1]
           IN  tagmap_clrn(<<name, k>>, IF left >= iov[k] THEN iov[k] ELSE left)
           : k \in 1 .. Len(iov)}
post_readv_hook(c) == Positive(c, Scatter("iov", c.mem.iov, c.ret))
post_epoll_wait_hook(c) ==
    Positive(c, tagmap_clrn(c.arg[1], SZ.epoll_event * c.ret))
post_poll_hook(c) ==
    Positive(c, UNION {tagmap_clrn(<<"revents", i>>, SZ.short) : i \in 1 .. c.arg[1]})
post_mq_timedreceive_hook(c) ==
    Positive(c, tagmap_clrn(c.arg[1], c.ret)
                \cup Given(c.arg[3], tagmap_clrn(c.arg[3], SZ.size_t)))

post_get_mempolicy_hook(c) ==
    LET flags == c.arg[4]
        mode == tagmap_clrn(c.arg[0], SZ.int)
        nodes == tagmap_clrn(c.arg[1], SZ.long)
    IN  Success(c, CASE flags = {} -> mode \cup nodes
                     [] "MPOL_F_MEMS_ALLOWED" \in flags -> nodes
                     [] flags = {"MPOL_F_ADDR"} ->
                            Given(c.arg[0], mode) \cup Given(c.arg[1], nodes)
                     [] OTHER -> mode)
post_lookup_dcookie_hook(c) == Positive(c, tagmap_clrn(c.arg[1], c.ret))
post_io_getevents_hook(c) ==
    Positive(c, tagmap_clrn(c.arg[3], SZ.io_event * c.ret)
                \cup Given(c.arg[4], tagmap_clrn(c.arg[4], SZ.timespec)))
post_listxattr_hook(c) ==
    Positive(c, Given(c.arg[1], tagmap_clrn(c.arg[1], c.ret)))
post_getxattr_hook(c) ==
    Positive(c, Given(c.arg[2], tagmap_clrn(c.arg[2], c.ret)))
post_getdents_hook(c) == Positive(c, tagmap_clrn(c.arg[1], c.ret))
(* Mutant: the last, partial page does not count. *)
WholePages(c) == Success(c, tagmap_clrn(c.arg[2], c.arg[1] \div PAGE_SZ))
post_mincore_hook(c) ==
    Success(c, tagmap_clrn(c.arg[2], (c.arg[1] + PAGE_SZ - 1) \div PAGE_SZ))
post_getcwd_hook(c) == Positive(c, tagmap_clrn(c.arg[0], c.ret))
post_rt_sigpending_hook(c) == Success(c, tagmap_clrn(c.arg[0], c.arg[1]))

(* The commands of quotactl before QCMD shifts them by a byte and adds the *)
(* type of quota, with the sizes of their answers.                         *)
Quota == [Q_GETFMT |-> 8388612, Q_GETINFO |-> 8388613, Q_GETQUOTA |-> 8388615,
          Q_XGETQUOTA |-> 22531, Q_XGETQSTAT |-> 22533]
QuotaSize == [Q_GETFMT |-> 4, Q_GETINFO |-> 24, Q_GETQUOTA |-> 72,
              Q_XGETQUOTA |-> 112, Q_XGETQSTAT |-> 80]
post_quotactl_hook(c) ==
    Success(c, UNION {tagmap_clrn(c.arg[3], QuotaSize[q])
                      : q \in {q \in DOMAIN Quota : c.arg[0] = Quota[q]}})
post_modify_ldt_hook(c) == Positive(c, tagmap_clrn(c.arg[1], c.ret))
post_fcntl_hook(c) ==
    Success(c, CASE c.arg[1] = "F_GETLK" -> tagmap_clrn(c.arg[2], SZ.flock)
                 [] c.arg[1] = "F_GETOWN_EX" -> tagmap_clrn(c.arg[2], SZ.f_owner_ex)
                 [] OTHER -> {})
post_syslog_hook(c) ==
    Positive(c, IF c.arg[0] \in 2 .. 4 THEN tagmap_clrn(c.arg[1], c.ret) ELSE {})
post__sysctl_hook(c) ==
    Success(c, tagmap_clrn(<<"newval">>, c.mem.cap)
               \cup Given(c.mem.opt, tagmap_clrn(c.mem.opt, c.mem.len)
                                     \cup tagmap_clrn(<<"oldlenp">>, SZ.size_t)))

(* The header of message k: name and control buffer may be absent. *)
Header(k, m) ==
    Given(m.name, tagmap_clrn(m.name, m.namelen)
                  \cup tagmap_clrn(<<"msg_namelen", k>>, SZ.int))
    \cup Given(m.control, tagmap_clrn(m.control, m.controllen)
                          \cup tagmap_clrn(<<"msg_controllen", k>>, SZ.int))
    \cup tagmap_clrn(<<"msg_flags", k>>, SZ.int)
post_recvmmsg_hook(c) ==
    Success(c, UNION {Header(k, c.mem.msg)
                      \cup tagmap_clrn(<<"msg_len", k>>, SZ.int)
                      \cup Scatter("iov", c.mem.iov, c.mem.len) : k \in 1 .. c.ret}
               \cup tagmap_clrn(c.arg[4], SZ.timespec))
post_recvmsg_hook(c) ==
    Positive(c, Header(1, c.mem.msg) \cup Scatter("iov", c.mem.iov, c.ret))

Ctl(c, cmd, p, stat, ds, info) ==
    Success(c, CASE cmd \in {"IPC_STAT", stat} -> tagmap_clrn(p, SZ[ds])
                 [] cmd \in {"IPC_INFO", "INFO"} -> tagmap_clrn(p, SZ[info])
                 [] OTHER -> {})
post_msgctl_hook(c) == Ctl(c, c.arg[1], c.arg[2], "STAT", "msqid_ds", "msginfo")
post_shmctl_hook(c) == Ctl(c, c.arg[1], c.arg[2], "STAT", "shmid_ds", "shminfo")
(* The union semun is looked up behind a pointer in a fifth argument. *)
post_semctl_hook(c) ==
    Ctl(c, c.arg[2], <<"buf", c.arg[4]>>, "STAT", "semid_ds", "seminfo")
post_msgrcv_hook(c) == Positive(c, tagmap_clrn(c.arg[1], c.ret + SZ.long))
post_accept_hook(c) ==
    Success(c, Given(c.arg[1], tagmap_clrn(c.arg[1], c.mem.len)
                               \cup tagmap_clrn(c.arg[2], SZ.int)))
post_recvfrom_hook(c) ==
    Positive(c, tagmap_clrn(c.arg[1], c.ret)
                \cup Given(c.arg[4], tagmap_clrn(c.arg[4], c.mem.len)
                                     \cup tagmap_clrn(c.arg[5], SZ.int)))
post_getsockopt_hook(c) ==
    Success(c, tagmap_clrn(c.arg[3], c.mem.len) \cup tagmap_clrn(c.arg[4], SZ.int))

(* The callback a descriptor names. *)
CallPost(hook, c) ==
    CASE hook = "post_read_hook" -> post_read_hook(c)
      [] hook = "post_getgroups_hook" -> post_getgroups_hook(c)
      [] hook = "post_readlinkat_hook" -> post_readlinkat_hook(c)
      [] hook = "post_mmap_hook" -> post_mmap_hook(c)
      [] hook = "post_readv_hook" -> post_readv_hook(c)
      [] hook = "post_epoll_wait_hook" -> post_epoll_wait_hook(c)
      [] hook = "post_poll_hook" -> post_poll_hook(c)
      [] hook = "post_mq_timedreceive_hook" -> post_mq_timedreceive_hook(c)
      [] hook = "post_get_mempolicy_hook" -> post_get_mempolicy_hook(c)
      [] hook = "post_lookup_dcookie_hook" -> post_lookup_dcookie_hook(c)
      [] hook = "post_io_getevents_hook" -> post_io_getevents_hook(c)
      [] hook = "post_listxattr_hook" -> post_listxattr_hook(c)
      [] hook = "post_getxattr_hook" -> post_getxattr_hook(c)
      [] hook = "post_getdents_hook" -> post_getdents_hook(c)
      [] hook = "post_mincore_hook" -> post_mincore_hook(c)
      [] hook = "post_getcwd_hook" -> post_getcwd_hook(c)
      [] hook = "post_rt_sigpending_hook" -> post_rt_sigpending_hook(c)
      [] hook = "post_quotactl_hook" -> post_quotactl_hook(c)
      [] hook = "post_modify_ldt_hook" -> post_modify_ldt_hook(c)
      [] hook = "post_fcntl_hook" -> post_fcntl_hook(c)
      [] hook = "post_syslog_hook" -> post_syslog_hook(c)
      [] hook = "post__sysctl_hook" -> post__sysctl_hook(c)
      [] hook = "post_recvmmsg_hook" -> post_recvmmsg_hook(c)
      [] hook = "post_msgctl_hook" -> post_msgctl_hook(c)
      [] hook = "post_shmctl_hook" -> post_shmctl_hook(c)
      [] hook = "post_semctl_hook" -> post_semctl_hook(c)
      [] hook = "post_msgrcv_hook" -> post_msgrcv_hook(c)
      [] hook = "post_accept_hook" -> post_accept_hook(c)
      [] hook = "post_recvfrom_hook" -> post_recvfrom_hook(c)
      [] hook = "post_getsockopt_hook" -> post_getsockopt_hook(c)
      [] hook = "post_recvmsg_hook" -> post_recvmsg_hook(c)

(* The arguments in the context after the entry: those beyond nargs, and   *)
(* all of them when nothing is saved, are what an earlier call left.       *)
sysenter_save(c) ==
    LET d == syscall_desc[c.nr]
    IN  [i \in 0 .. 5 |-> IF d.save /\ i < d.nargs THEN c.arg[i] ELSE c.old[i]]

(* The memory whose tags are cleared at the exit.  The result is stored    *)
(* in an unsigned word, so the test for a failed call is never true.       *)
sysexit_save(c, arg) ==
    LET d == syscall_desc[c.nr]
    IN  CASE ~d.save -> {}
          [] d.save /\ d.post # "none" -> CallPost(d.post, [c EXCEPT !.arg = arg])
          [] OTHER -> UNION {Given(arg[i], tagmap_clrn(arg[i], d.map_args[i]))
                             : i \in DOMAIN d.map_args}

(* A number beyond the table is passed to the exit as -1: nothing happens. *)
Cleared(c) == IF c.nr \in DOMAIN syscall_desc
              THEN sysexit_save(c, sysenter_save(c)) ELSE {}
=============================================================================
