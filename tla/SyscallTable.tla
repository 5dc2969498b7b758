----------------------------- MODULE SyscallTable ------------------------------
(***************************************************************************)
(* The table of system calls (syscalls.cpp): number, name and the C types  *)
(* of the arguments, as sequences of the words of a declaration.  Some     *)
(* types and most names from number 322 on have lost letters; they are     *)
(* kept as they stand.  num_args is the number of types in every entry.    *)
(***************************************************************************)
EXTENDS Integers, SequencesExt

Row(nr, name, types) == [nr |-> nr, name |-> name, num_args |-> Len(types), arg_types |-> types]

Ptr(t) == Append(t, "*")
Const(t) == <<"const">> \o t
User(t) == Append(t, "__user")
Struct(s) == <<"struct", s>>

CInt == <<"int">>
UInt == <<"unsigned", "int">>
Unsigned == <<"unsigned">>
Long == <<"long">>
ULong == <<"unsigned", "long">>
SizeT == <<"size_t">>
Pid == <<"pid_t">>
Uid == <<"uid_t">>
Gid == <<"gid_t">>
Loff == <<"loff_t">>
Void == <<"void">>
Char == <<"char">>
CharPtr == Ptr(Char)
Path == Const(CharPtr)
UserStrings == Const(Ptr(User(<<"char", "__user", "*", "const">>)))

-----------------------------------------------------------------------------
Calls0 ==
  <<Row(0, "read", <<UInt, CharPtr, SizeT>>), Row(1, "write", <<UInt, Path, SizeT>>),
    Row(2, "open", <<Path, CInt, CInt>>), Row(3, "close", <<UInt>>),
    Row(4, "stat", <<Path, Ptr(Struct("stat"))>>), Row(5, "fstat", <<UInt, Ptr(Struct("stat"))>>),
    Row(6, "lstat", <<Ptr(<<"fconst", "char">>), Ptr(Struct("stat"))>>),
    Row(7, "poll", <<Ptr(Struct("poll_fd")), UInt, Long>>),
    Row(8, "lseek", <<UInt, <<"off_t">>, UInt>>),
    Row(9, "mmap", <<ULong, ULong, ULong, ULong, ULong, ULong>>),
    Row(10, "mprotect", <<ULong, SizeT, ULong>>), Row(11, "munmap", <<ULong, SizeT>>),
    Row(12, "brk", <<ULong>>),
    Row(13, "rt_sigaction", <<CInt, Const(Ptr(Struct("sigaction"))), Ptr(Struct("sigaction")),
        SizeT>>),
    Row(14, "rt_sigprocmask", <<CInt, Ptr(<<"sigset_t">>), Ptr(<<"sigset_t">>), SizeT>>),
    Row(15, "rt_sigreturn", <<ULong>>), Row(16, "ioctl", <<UInt, UInt, ULong>>),
    Row(17, "pread64", <<ULong, CharPtr, SizeT, Loff>>),
    Row(18, "pwrite64", <<UInt, Path, SizeT, Loff>>),
    Row(19, "readv", <<ULong, Const(Ptr(Struct("iovec"))), ULong>>),
    Row(20, "writev", <<ULong, Const(Ptr(Struct("iovec"))), ULong>>)>>

Calls21 ==
  <<Row(21, "access", <<Path, CInt>>), Row(22, "pipe", <<Ptr(CInt)>>),
    Row(23, "select", <<CInt, Ptr(<<"fd_set">>), Ptr(<<"fd_set">>), <<>>,
        Ptr(Struct("timeval"))>>), Row(24, "sched_yield", <<>>),
    Row(25, "mremap", <<ULong, ULong, ULong, ULong, ULong>>),
    Row(26, "msync", <<ULong, SizeT, CInt>>),
    Row(27, "mincore", <<ULong, SizeT, Ptr(<<"unsigned", "char">>)>>),
    Row(28, "madvise", <<ULong, SizeT, CInt>>), Row(29, "shmget", <<<<"key_t">>, SizeT, CInt>>),
    Row(30, "shmat", <<CInt, CharPtr, CInt>>),
    Row(31, "shmctl", <<CInt, CInt, Ptr(Struct("shmid_ds"))>>), Row(32, "dup", <<UInt>>),
    Row(33, "dup2", <<UInt, UInt>>), Row(34, "pause", <<>>),
    Row(35, "nanosleep", <<Ptr(Struct("timespec")), Ptr(Struct("timespec"))>>),
    Row(36, "getitimer", <<CInt, Ptr(Struct("itimerval"))>>), Row(37, "alarm", <<UInt>>),
    Row(38, "setitimer", <<CInt, Ptr(Struct("itimerval")), Ptr(Struct("itimerval"))>>),
    Row(39, "getpid", <<>>), Row(40, "sendfile", <<CInt, CInt, Ptr(<<"off_t">>), SizeT>>),
    Row(41, "socket", <<CInt, CInt, CInt>>),
    Row(42, "connect", <<CInt, Ptr(Struct("sockaddr")), CInt>>),
    Row(43, "accept", <<CInt, Ptr(Struct("sockaddr")), Ptr(CInt)>>)>>

Calls44 ==
  <<Row(44, "sendto", <<CInt, Ptr(Void), SizeT, Unsigned, Ptr(Struct("sockaddr")), CInt>>),
    Row(45, "recvfrom", <<CInt, Ptr(Void), SizeT, Unsigned, Ptr(Struct("sockaddr")),
        Ptr(CInt)>>), Row(46, "sendmsg", <<CInt, Ptr(Struct("msghdr")), Unsigned>>),
    Row(47, "recvmsg", <<CInt, Ptr(Struct("msghdr")), UInt>>),
    Row(48, "shutdown", <<CInt, CInt>>), Row(49, "bind", <<CInt, Ptr(Struct("sockaddr")), CInt>>),
    Row(50, "listen", <<CInt, CInt>>),
    Row(51, "getsockname", <<CInt, Ptr(Struct("sockaddr")), Ptr(CInt)>>),
    Row(52, "getpeername", <<CInt, Ptr(Struct("sockaddr")), Ptr(CInt)>>),
    Row(53, "socketpair", <<CInt, CInt, CInt, Ptr(CInt)>>),
    Row(54, "setsockopt", <<CInt, CInt, CInt, CharPtr, CInt>>),
    Row(55, "getsockopt", <<CInt, CInt, CInt, CharPtr, Ptr(CInt)>>),
    Row(56, "clone", <<ULong, ULong, Ptr(Void), Ptr(Void), UInt>>), Row(57, "fork", <<>>),
    Row(58, "vfork", <<>>),
    Row(59, "execve", <<Path, Const(<<"char", "*", "const">>), Const(<<"char", "*",
        "const">>)>>), Row(60, "exit", <<CInt>>),
    Row(61, "wait4", <<Pid, Ptr(CInt), CInt, Ptr(Struct("rusage"))>>),
    Row(62, "kill", <<Pid, CInt>>), Row(63, "uname", <<Ptr(Struct("old_utsname"))>>),
    Row(64, "semget", <<<<"key_t">>, CInt, CInt>>)>>

Calls65 ==
  <<Row(65, "semop", <<CInt, Ptr(Struct("sembuf")), Unsigned>>),
    Row(66, "semctl", <<CInt, CInt, CInt, <<"union", "semun">>>>), Row(67, "shmdt", <<CharPtr>>),
    Row(68, "msgget", <<<<"key_t">>, CInt>>),
    Row(69, "msgsnd", <<CInt, Ptr(Struct("msgbuf")), SizeT, CInt>>),
    Row(70, "msgrcv", <<CInt, Ptr(Struct("msgbuf")), SizeT, Long, CInt>>),
    Row(71, "msgctl", <<CInt, CInt, Ptr(Struct("msqid_ds"))>>),
    Row(72, "fcntl", <<UInt, UInt, ULong>>), Row(73, "flock", <<UInt, UInt>>),
    Row(74, "fsync", <<UInt>>), Row(75, "fdatasync", <<UInt>>),
    Row(76, "truncate", <<Path, Long>>), Row(77, "ftruncate", <<UInt, ULong>>),
    Row(78, "getdents", <<UInt, Ptr(Struct("linux_dirent")), UInt>>),
    Row(79, "getcwd", <<CharPtr, ULong>>), Row(80, "chdir", <<Path>>),
    Row(81, "fchdir", <<UInt>>), Row(82, "rename", <<Path, Path>>),
    Row(83, "mkdir", <<Path, CInt>>), Row(84, "rmdir", <<Path>>),
    Row(85, "creat", <<Path, CInt>>), Row(86, "link", <<Path, Path>>),
    Row(87, "unlink", <<Path>>), Row(88, "symlink", <<Path, Path>>)>>

Calls89 ==
  <<Row(89, "readlink", <<Path, CharPtr, CInt>>), Row(90, "chmod", <<Path, <<"mode_t">>>>),
    Row(91, "fchmod", <<UInt, <<"mode_t">>>>), Row(92, "chown", <<Path, Uid, Gid>>),
    Row(93, "fchown", <<UInt, Uid, Gid>>), Row(94, "lchown", <<Path, Uid, Gid>>),
    Row(95, "umask", <<CInt>>),
    Row(96, "gettimeofday", <<Ptr(Struct("timeval")), Ptr(Struct("timezone"))>>),
    Row(97, "getrlimit", <<UInt, Ptr(Struct("rlimit"))>>),
    Row(98, "getrusage", <<CInt, Ptr(Struct("rusage"))>>),
    Row(99, "sysinfo", <<Ptr(Struct("sysinfo"))>>), Row(100, "times", <<Ptr(Struct("tms"))>>),
    Row(101, "ptrace", <<Long, Long, ULong, ULong>>), Row(102, "getuid", <<>>),
    Row(103, "syslog", <<CInt, CharPtr, CInt>>), Row(104, "getgid", <<>>),
    Row(105, "setuid", <<Uid>>), Row(106, "setgid", <<Gid>>), Row(107, "geteuid", <<>>),
    Row(108, "getegid", <<>>), Row(109, "setpgid", <<Pid, Pid>>), Row(110, "getppid", <<>>),
    Row(111, "getpgrp", <<>>), Row(112, "setsid", <<>>), Row(113, "setreuid", <<Uid, Uid>>),
    Row(114, "setregid", <<Gid, Gid>>)>>

Calls115 ==
  <<Row(115, "getgroups", <<CInt, Ptr(Gid)>>), Row(116, "setgroups", <<CInt, Ptr(Gid)>>),
    Row(117, "setresuid", <<Ptr(Uid), Ptr(Uid), Ptr(Uid)>>),
    Row(118, "getresuid", <<Ptr(Uid), Ptr(Uid), Ptr(Uid)>>),
    Row(119, "setresgid", <<Gid, Gid, Gid>>),
    Row(120, "getresgid", <<Ptr(Gid), Ptr(Gid), Ptr(Gid)>>), Row(121, "getpgid", <<Pid>>),
    Row(122, "setfsuid", <<Uid>>), Row(123, "setfsgid", <<Gid>>), Row(124, "getsid", <<Pid>>),
    Row(125, "capget", <<<<"cap_user_header_t">>, <<"cap_user_data_t">>>>),
    Row(126, "capset", <<<<"cap_user_header_t">>, Const(<<"cap_user_data_t">>)>>),
    Row(127, "rt_sigpending", <<Ptr(<<"sigset_t">>), SizeT>>),
    Row(128, "rt_sigtimedwait", <<Const(Ptr(<<"sigset_t">>)), Ptr(<<"siginfo_t">>),
        Const(Ptr(Struct("timespec"))), SizeT>>),
    Row(129, "rt_sigqueueinfo", <<Pid, CInt, Ptr(<<"siginfo_t">>)>>),
    Row(130, "rt_sigsuspend", <<Ptr(<<"sigset_t">>), SizeT>>),
    Row(131, "sigaltstack", <<Const(Ptr(<<"stack_t">>)), Ptr(<<"stack_t">>)>>),
    Row(132, "utime", <<CharPtr, Ptr(Struct("utimbuf"))>>),
    Row(133, "mknod", <<Path, <<"umode_t">>, Unsigned>>), Row(134, "uselib", <<>>),
    Row(135, "personality", <<UInt>>), Row(136, "ustat", <<Unsigned, Ptr(Struct("ustat"))>>),
    Row(137, "statfs", <<Path, Ptr(Struct("statfs"))>>),
    Row(138, "fstatfs", <<UInt, Ptr(Struct("statfs"))>>)>>

Calls139 ==
  <<Row(139, "sysfs", <<CInt, ULong, ULong>>), Row(140, "getpriority", <<CInt, CInt>>),
    Row(141, "setpriority", <<CInt, CInt, CInt>>),
    Row(142, "sched_setparam", <<Pid, Ptr(Struct("sched_param"))>>),
    Row(143, "sched_getparam", <<Pid, Ptr(Struct("sched_param"))>>),
    Row(144, "sched_setscheduler", <<Pid, CInt, Ptr(Struct("sched_param"))>>),
    Row(145, "sched_getscheduler", <<Pid>>), Row(146, "sched_get_priority_max", <<CInt>>),
    Row(147, "sched_get_priority_min", <<CInt>>),
    Row(148, "sched_rr_get_interval", <<Pid, Ptr(Struct("timespec"))>>),
    Row(149, "mlock", <<ULong, SizeT>>), Row(150, "munlock", <<ULong, SizeT>>),
    Row(151, "mlockall", <<CInt>>), Row(152, "munlockall", <<>>), Row(153, "vhangup", <<>>),
    Row(154, "modify_ldt", <<CInt, Ptr(Void), ULong>>), Row(155, "pivot_root", <<Path, Path>>),
    Row(156, "_sysctl", <<Ptr(Struct("__sysctl_args"))>>),
    Row(157, "prctl", <<CInt, ULong, ULong, ULong>>),
    Row(158, "arch_prctl", <<Ptr(Struct("task_struct")), CInt, Ptr(ULong)>>),
    Row(159, "adjtimex", <<Ptr(Struct("timex"))>>),
    Row(160, "setrlimit", <<UInt, Ptr(Struct("rlimit"))>>), Row(161, "chroot", <<Path>>),
    Row(162, "sync", <<>>), Row(163, "acct", <<Path>>)>>

Calls164 ==
  <<Row(164, "settimeofday", <<Ptr(Struct("timeval")), Ptr(Struct("timezone"))>>),
    Row(165, "mount", <<CharPtr, CharPtr, CharPtr, ULong, Ptr(Void)>>),
    Row(166, "umount2", <<Path, CInt>>), Row(167, "swapon", <<Path, CInt>>),
    Row(168, "swapoff", <<Path>>), Row(169, "reboot", <<CInt, CInt, UInt, Ptr(Void)>>),
    Row(170, "sethostname", <<CharPtr, CInt>>), Row(171, "setdomainname", <<CharPtr, CInt>>),
    Row(172, "iopl", <<UInt, Ptr(Struct("pt_regs"))>>),
    Row(173, "ioperm", <<ULong, ULong, CInt>>), Row(174, "create_module", <<>>),
    Row(175, "init_module", <<Ptr(Void), ULong, Path>>),
    Row(176, "delete_module", <<Const(Ptr(<<"chat">>)), UInt>>),
    Row(177, "get_kernel_syms", <<>>), Row(178, "query_module", <<>>),
    Row(179, "quotactl", <<UInt, Path, <<"qid_t">>, Ptr(Void)>>), Row(180, "nfsservctl", <<>>),
    Row(181, "getpmsg", <<>>), Row(182, "putpmsg", <<>>), Row(183, "afs_syscall", <<>>),
    Row(184, "tuxcall", <<>>), Row(185, "security", <<>>), Row(186, "gettid", <<>>),
    Row(187, "readahead", <<CInt, Loff, SizeT>>),
    Row(188, "setxattr", <<Path, Path, Const(Ptr(Void)), SizeT, CInt>>)>>

Calls189 ==
  <<Row(189, "lsetxattr", <<Path, Path, Const(Ptr(Void)), SizeT, CInt>>),
    Row(190, "fsetxattr", <<CInt, Path, Const(Ptr(Void)), SizeT, CInt>>),
    Row(191, "getxattr", <<Path, Path, Ptr(Void), SizeT>>),
    Row(192, "lgetxattr", <<Path, Path, Ptr(Void), SizeT>>),
    Row(193, "fgetxattr", <<CInt, Const(Ptr(<<"har">>)), Ptr(Void), SizeT>>),
    Row(194, "listxattr", <<Path, CharPtr, SizeT>>),
    Row(195, "llistxattr", <<Path, CharPtr, SizeT>>),
    Row(196, "flistxattr", <<CInt, CharPtr, SizeT>>), Row(197, "removexattr", <<Path, Path>>),
    Row(198, "lremovexattr", <<Path, Path>>), Row(199, "fremovexattr", <<CInt, Path>>),
    Row(200, "tkill", <<Pid, <<"ing">>>>), Row(201, "time", <<Ptr(<<"time_t">>)>>),
    Row(202, "futex", <<Ptr(<<"u32">>), CInt, <<"u32">>, Ptr(Struct("timespec")),
        Ptr(<<"u32">>), <<"u32">>>>), Row(203, "sched_setaffinity", <<Pid, UInt, Ptr(ULong)>>),
    Row(204, "sched_getaffinity", <<Pid, UInt, Ptr(ULong)>>), Row(205, "set_thread_area", <<>>),
    Row(206, "io_setup", <<Unsigned, Ptr(<<"aio_context_t">>)>>),
    Row(207, "io_destroy", <<<<"aio_context_t">>>>),
    Row(208, "io_getevents", <<<<"aio_context_t">>, Long, Long, Ptr(Struct("io_event"))>>),
    Row(209, "io_submit", <<<<"aio_context_t">>, Long, Ptr(Struct("iocb"))>>)>>

Calls210 ==
  <<Row(210, "io_cancel", <<<<"aio_context_t">>, Ptr(Struct("iocb")), Ptr(Struct("io_event"))>>),
    Row(211, "get_thread_area", <<>>), Row(212, "lookup_dcookie", <<<<"u64">>, Long, Long>>),
    Row(213, "epoll_create", <<CInt>>), Row(214, "epoll_ctl_old", <<>>),
    Row(215, "epoll_wait_old", <<>>),
    Row(216, "remap_file_pages", <<ULong, ULong, ULong, ULong, ULong>>),
    Row(217, "getdents64", <<UInt, Ptr(Struct("linux_dirent64")), UInt>>),
    Row(218, "set_tid_address", <<Ptr(CInt)>>), Row(219, "restart_syscall", <<>>),
    Row(220, "semtimedop", <<CInt, Ptr(Struct("sembuf")), Unsigned,
        Const(Ptr(Struct("timespec")))>>), Row(221, "fadvise64", <<CInt, Loff, SizeT, CInt>>),
    Row(222, "timer_create", <<Const(<<"clockid_t">>), Ptr(Struct("sigevent")),
        Ptr(<<"timer_t">>)>>),
    Row(223, "timer_settime", <<<<"timer_t">>, CInt, Const(Ptr(Struct("itimerspec"))),
        Ptr(Struct("itimerspec"))>>),
    Row(224, "timer_gettime", <<<<"timer_t">>, Ptr(Struct("itimerspec"))>>),
    Row(225, "timer_getoverrun", <<<<"timer_t">>>>), Row(226, "timer_delete", <<<<"timer_t">>>>),
    Row(227, "clock_settime", <<Const(<<"clockid_t">>), Const(Ptr(Struct("timespec")))>>),
    Row(228, "clock_gettime", <<Const(<<"clockid_t">>), Ptr(Struct("timespec"))>>),
    Row(229, "clock_getres", <<Const(<<"clockid_t">>), Ptr(Struct("timespec"))>>),
    Row(230, "clock_nanosleep", <<Const(<<"clockid_t">>), CInt, Const(Ptr(Struct("timespec"))),
        Ptr(Struct("timespec"))>>), Row(231, "exit_group", <<CInt>>),
    Row(232, "epoll_wait", <<CInt, Ptr(Struct("epoll_event")), CInt, CInt>>)>>

Calls233 ==
  <<Row(233, "epoll_ctl", <<CInt, CInt, CInt, Ptr(Struct("epoll_event"))>>),
    Row(234, "tgkill", <<Pid, Pid, CInt>>),
    Row(235, "utimes", <<CharPtr, Ptr(Struct("timeval"))>>), Row(236, "vserver", <<>>),
    Row(237, "mbind", <<ULong, ULong, ULong, Ptr(ULong), ULong, Unsigned>>),
    Row(238, "set_mempolicy", <<CInt, Ptr(ULong), ULong>>),
    Row(239, "get_mempolicy", <<Ptr(CInt), Ptr(ULong), ULong, ULong, ULong>>),
    Row(240, "mq_open", <<Path, CInt, <<"mode_t">>, Ptr(Struct("mq_attr"))>>),
    Row(241, "mq_unlink", <<Path>>),
    Row(242, "mq_timedsend", <<<<"mqd_t">>, Path, SizeT, UInt, Const(Ptr(<<"stuct",
        "timespec">>))>>),
    Row(243, "mq_timedreceive", <<<<"mqd_t">>, CharPtr, SizeT, Ptr(UInt),
        Const(Ptr(Struct("timespec")))>>),
    Row(244, "mq_notify", <<<<"mqd_t">>, Const(Ptr(Struct("sigevent")))>>),
    Row(245, "mq_getsetattr", <<<<"mqd_t">>, Const(Ptr(Struct("mq_attr"))),
        Ptr(Struct("mq_attr"))>>),
    Row(246, "kexec_load", <<ULong, ULong, Ptr(Struct("kexec_segment")), ULong>>),
    Row(247, "waitid", <<CInt, Pid, Ptr(Struct("siginfo")), CInt, Ptr(Struct("rusage"))>>),
    Row(248, "add_key", <<Path, Path, Const(Ptr(Void)), SizeT>>),
    Row(249, "request_key", <<Path, Path, Path, <<"key_serial_t">>>>),
    Row(250, "keyctl", <<CInt, ULong, ULong, ULong, ULong>>),
    Row(251, "ioprio_set", <<CInt, CInt, CInt>>)>>

Calls252 ==
  <<Row(252, "ioprio_get", <<CInt, CInt>>), Row(253, "inotify_init", <<>>),
    Row(254, "inotify_add_watch", <<CInt, Path, <<"u32">>>>),
    Row(255, "inotify_rm_watch", <<CInt, <<"__s32">>>>),
    Row(256, "migrate_pages", <<Pid, ULong, Const(Ptr(ULong)), Const(Ptr(ULong))>>),
    Row(257, "openat", <<CInt, Path, CInt, CInt>>), Row(258, "mkdirat", <<CInt, Path, CInt>>),
    Row(259, "mknodat", <<CInt, Path, CInt, Unsigned>>),
    Row(260, "fchownat", <<CInt, Path, Uid, Gid, CInt>>),
    Row(261, "futimesat", <<CInt, Path, Ptr(Struct("timeval"))>>),
    Row(262, "newfstatat", <<CInt, Path, Ptr(Struct("stat")), CInt>>),
    Row(263, "unlinkat", <<CInt, Path, CInt>>), Row(264, "renameat", <<CInt, Path, CInt, Path>>),
    Row(265, "linkat", <<CInt, Path, CInt, Path, CInt>>),
    Row(266, "symlinkat", <<Path, CInt, Path>>),
    Row(267, "readlinkat", <<CInt, Path, CharPtr, CInt>>),
    Row(268, "fchmodat", <<CInt, Path, <<"mode_t">>>>),
    Row(269, "faccessat", <<CInt, Path, CInt>>),
    Row(270, "pselect6", <<CInt, Ptr(<<"fd_set">>), Ptr(<<"fd_set">>), Ptr(<<"fd_set">>),
        Ptr(Struct("timespec")), Ptr(Void)>>)>>

Calls271 ==
  <<Row(271, "ppoll", <<Ptr(Struct("pollfd")), UInt, Ptr(Struct("timespec")),
        Const(Ptr(<<"sigset_t">>)), SizeT>>), Row(272, "unshare", <<ULong>>),
    Row(273, "set_robust_list", <<Ptr(Struct("robust_list_head")), SizeT>>),
    Row(274, "get_robust_list", <<CInt, Ptr(Struct("robust_list_head")), Ptr(SizeT)>>),
    Row(275, "splice", <<CInt, Ptr(Loff), CInt, Ptr(Loff), SizeT, UInt>>),
    Row(276, "tee", <<CInt, CInt, SizeT, UInt>>),
    Row(277, "sync_file_range", <<Long, Loff, Loff, Long>>),
    Row(278, "vmsplice", <<CInt, Const(Ptr(Struct("iovec"))), ULong, UInt>>),
    Row(279, "move_pages", <<Pid, ULong, Const(Ptr(Void)), Const(Ptr(CInt)), Ptr(CInt), CInt>>),
    Row(280, "utimensat", <<CInt, Path, Ptr(Struct("timespec")), CInt>>),
    Row(281, "epoll_pwait", <<CInt, Ptr(Struct("epoll_event")), CInt, CInt,
        Const(Ptr(<<"sigset_t">>)), SizeT>>),
    Row(282, "signalfd", <<CInt, Ptr(<<"sigset_t">>), SizeT>>),
    Row(283, "timerfd_create", <<CInt, CInt>>), Row(284, "eventfd", <<UInt>>),
    Row(285, "fallocate", <<Long, Long, Loff, Loff>>),
    Row(286, "timerfd_settime", <<CInt, CInt, Const(Ptr(Struct("itimerspec"))),
        Ptr(Struct("itimerspec"))>>),
    Row(287, "timerfd_gettime", <<CInt, Ptr(Struct("itimerspec"))>>),
    Row(288, "accept4", <<CInt, Ptr(Struct("sockaddr")), Ptr(CInt), CInt>>),
    Row(289, "signalfd4", <<CInt, Ptr(<<"sigset_t">>), SizeT, CInt>>)>>

Calls290 ==
  <<Row(290, "eventfd2", <<UInt, CInt>>), Row(291, "epoll_create1", <<CInt>>),
    Row(292, "dup3", <<UInt, UInt, CInt>>), Row(293, "pipe2", <<Ptr(CInt), CInt>>),
    Row(294, "inotify_init1", <<CInt>>),
    Row(295, "preadv", <<ULong, Const(Ptr(Struct("iovec"))), ULong, ULong, ULong>>),
    Row(296, "pwritev", <<ULong, Const(Ptr(Struct("iovec"))), ULong, ULong, ULong>>),
    Row(297, "rt_tgsigqueueinfo", <<Pid, Pid, CInt, Ptr(<<"siginfo_t">>)>>),
    Row(298, "perf_event_open", <<Ptr(Struct("perf_event_attr")), Pid, CInt, CInt, ULong>>),
    Row(299, "recvmmsg", <<CInt, Ptr(Struct("msghdr")), UInt, UInt, Ptr(Struct("timespec"))>>),
    Row(300, "fanotify_init", <<UInt, UInt>>),
    Row(301, "fanotify_mark", <<Long, Long, <<"__u64">>, Long, Long>>),
    Row(302, "prlimit64", <<Pid, UInt, Const(Ptr(Struct("rlimit64"))),
        Ptr(Struct("rlimit64"))>>),
    Row(303, "name_to_handle_at", <<CInt, Path, Ptr(Struct("file_handle")), Ptr(CInt), CInt>>),
    Row(304, "open_by_handle_at", <<CInt, Path, Ptr(Struct("file_handle")), Ptr(CInt), CInt>>),
    Row(305, "clock_adjtime", <<<<"clockid_t">>, Ptr(Struct("timex"))>>),
    Row(306, "syncfs", <<CInt>>),
    Row(307, "sendmmsg", <<CInt, Ptr(Struct("mmsghdr")), UInt, UInt>>),
    Row(308, "setns", <<CInt, CInt>>),
    Row(309, "getcpu", <<Ptr(Unsigned), Ptr(Unsigned), Ptr(Struct("getcpu_cache"))>>)>>

Calls310 ==
  <<Row(310, "process_vm_readv", <<Pid, Const(Ptr(Struct("iovec"))), ULong,
        Const(Ptr(Struct("iovec"))), ULong, ULong>>),
    Row(311, "process_vm_writev", <<Pid, Const(Ptr(Struct("iovec"))), ULong,
        Const(Ptr(Struct("iovcc"))), ULong, ULong>>),
    Row(312, "kcmp", <<Pid, Pid, CInt, ULong, ULong>>),
    Row(313, "finit_module", <<CInt, Const(Ptr(User(Char))), CInt>>),
    Row(314, "sched_setattr", <<Pid, Ptr(User(Struct("sched_attr"))), UInt>>),
    Row(315, "sched_getattr", <<Pid, Ptr(User(Struct("sched_attr"))), UInt, UInt>>),
    Row(316, "renameat2", <<CInt, Const(Ptr(User(Char))), CInt, Const(Ptr(User(Char))), UInt>>),
    Row(317, "seccomp", <<UInt, UInt, Const(Ptr(User(Char)))>>),
    Row(318, "getrandom", <<Ptr(User(Char)), SizeT, UInt>>),
    Row(319, "memfd_create", <<Const(Ptr(User(Char))), UInt>>),
    Row(320, "kexec_file_load", <<CInt, CInt, ULong, Const(Ptr(User(Char))), ULong>>),
    Row(321, "bpf", <<CInt, Ptr(<<"union", "bpf_attr">>), UInt>>),
    Row(322, "_execveat", <<CInt, Const(Ptr(User(Char))), Const(Ptr(User(<<"char", "__user",
        "*", "const">>))), UserStrings, CInt>>),
    Row(323, "faultfd", <<CInt>>), Row(324, "arrier", <<CInt, CInt>>),
    Row(325, "k2", <<ULong, SizeT, CInt>>),
    Row(326, "_file_range", <<CInt, Ptr(User(Loff)), CInt, Ptr(User(Loff)), SizeT, UInt>>),
    Row(327, "dv2", <<ULong, Const(Ptr(User(Struct("iovec")))), ULong, ULong, ULong, CInt>>)>>

Calls328 ==
  <<Row(328, "tev2", <<ULong, Const(Ptr(User(Struct("iovec")))), ULong, ULong, ULong, CInt>>),
    Row(329, "_mprotect", <<>>), Row(330, "_alloc", <<>>), Row(331, "_free", <<>>),
    Row(332, "x", <<>>), Row(333, "getevents", <<>>), Row(334, "", <<>>),
    Row(335, "_mprotect", <<>>)>>

-----------------------------------------------------------------------------
Entries ==
  Calls0 \o Calls21 \o Calls44 \o Calls65 \o Calls89 \o Calls115 \o Calls139
      \o Calls164 \o Calls189 \o Calls210 \o Calls233 \o Calls252 \o Calls271
      \o Calls290 \o Calls310 \o Calls328
=============================================================================
