------------------------------- MODULE System -------------------------------
(***************************************************************************)
(* The end of a run of the system, subsys/sys/sys.c, and the file systems  *)
(* it leaves behind, subsys/sys/fs/fs.c.                                   *)
(*                                                                         *)
(* Any thread may ask for a reset or a shutdown, also while another is at  *)
(* it.  It calls the shutdown callbacks in order, of which shutdown_cb()   *)
(* unmounts the file systems of the fstab one by one; a callback may wait  *)
(* for ever.  A reset arms a timer first, whose interrupt resets the       *)
(* system whatever the callbacks are doing.  Other threads make            *)
(* directories meanwhile; the directories survive a restart.               *)
(***************************************************************************)
EXTENDS Naturals, Sequences, FiniteSets, SequencesExt

CONSTANTS
    Callers,      \* threads that ask for a reset or a shutdown
    Handlers,     \* the shutdown callbacks in order, shutdown_cb as its mount points
    FileSystems,  \* the mount points of the fstab
    Makers,       \* threads that make directories
    Paths,        \* the directories they make: mount point, name, name, ...
    MaxFailures,  \* bound: operations the disk refuses
    MaxBoots      \* bound: restarts

ASSUME SystemAssumption ==
    /\ IsFiniteSet(Callers) /\ IsFiniteSet(Makers)
    /\ Handlers \in Seq(ToSet(Handlers)) /\ FileSystems \subseteq ToSet(Handlers)
    /\ \A p \in Paths : p \in Seq(ToSet(p)) /\ Len(p) > 1 /\ p[1] \in FileSystems
    /\ MaxFailures \in Nat /\ MaxBoots \in Nat

VARIABLES
    state,      \* "up", "rebooting", or "off": powered off or spinning
    request,    \* of each caller: "none", "reset" or "shutdown"
    todo,       \* callbacks it has still to call
    hung,       \* callers in a callback that does not return
    timer,      \* whether reset_timer runs
    mounted,    \* file systems that are mounted
    dirs,       \* directories that exist
    maker,      \* of each maker: its last path or <<>>, the length of the prefix it is
                \* at, whether fs_opendir() failed for that, and what it returned, if it did
    failures, boots,
    \* Bookkeeping for the properties.
    unmountFailed,  \* file systems whose fs_unmount() failed although mounted
    fired,          \* whether the timer caused the restart
    refused,        \* makers of whose path the disk refused to open, close or make a part
    overtaken       \* makers that found a part missing which another made before them

shutdownVars == <<state, request, todo, hung, timer, unmountFailed, fired>>
mkdirVars == <<dirs, maker, refused, overtaken>>
systemVars == <<shutdownVars, mounted, mkdirVars, failures, boots>>

-----------------------------------------------------------------------------
(* sys_reset() and sys_shutdown(), up to the first callback. *)

SysReset(t) ==
    /\ state = "up" /\ request[t] = "none"
    /\ timer' = TRUE
    /\ request' = [request EXCEPT ![t] = "reset"]
    /\ todo' = [todo EXCEPT ![t] = Handlers]
    /\ UNCHANGED <<state, hung, unmountFailed, fired, mounted, mkdirVars, failures, boots>>

SysShutdown(t) ==
    /\ state = "up" /\ request[t] = "none"
    /\ request' = [request EXCEPT ![t] = "shutdown"]
    /\ todo' = [todo EXCEPT ![t] = Handlers]
    /\ UNCHANGED <<state, hung, timer, unmountFailed, fired, mounted, mkdirVars, failures, boots>>

Calling(t) == state = "up" /\ t \notin hung /\ todo[t] # <<>>
Called(t) == state = "up" /\ request[t] # "none" /\ t \notin hung /\ todo[t] = <<>>

(* Faulty: an unmount that fails ends the shutdown callback. *)
CallbackToFailure(t) ==
    LET h == Head(todo[t]) IN
    /\ Calling(t)
    /\ \/ /\ h \notin FileSystems \/ h \in mounted
          /\ mounted' = mounted \ {h}
          /\ todo' = [todo EXCEPT ![t] = Tail(@)]
          /\ UNCHANGED <<unmountFailed, failures>>
       \/ /\ h \in FileSystems \ mounted
          /\ todo' = [todo EXCEPT ![t] = SelectSeq(@, LAMBDA f : f \notin FileSystems)]
          /\ UNCHANGED <<mounted, unmountFailed, failures>>
       \/ /\ h \in mounted /\ failures < MaxFailures
          /\ failures' = failures + 1
          /\ unmountFailed' = unmountFailed \cup {h}
          /\ todo' = [todo EXCEPT ![t] = SelectSeq(@, LAMBDA f : f \notin FileSystems)]
          /\ UNCHANGED mounted
    /\ UNCHANGED <<state, request, hung, timer, fired, mkdirVars, boots>>

(* A callback returns.  fs_unmount() of what is not mounted, or what the    *)
(* disk refuses, fails, which shutdown_cb() only logs.                      *)
Callback(t) ==
    LET h == Head(todo[t]) IN
    /\ Calling(t)
    /\ todo' = [todo EXCEPT ![t] = Tail(@)]
    /\ \/ mounted' = mounted \ {h} /\ UNCHANGED <<unmountFailed, failures>>
       \/ /\ h \in mounted /\ failures < MaxFailures
          /\ failures' = failures + 1
          /\ unmountFailed' = unmountFailed \cup {h}
          /\ UNCHANGED mounted
    /\ UNCHANGED <<state, request, hung, timer, fired, mkdirVars, boots>>

Hang(t) ==
    /\ Calling(t)
    /\ hung' = hung \cup {t}
    /\ UNCHANGED <<state, request, todo, timer, unmountFailed, fired, mounted, mkdirVars,
                   failures, boots>>

(* Another thread may run between k_timer_stop() and the irq_lock() of reset(). *)
StopTimer(t) ==
    /\ Called(t) /\ request[t] = "reset"
    /\ timer' = FALSE
    /\ request' = [request EXCEPT ![t] = "stopped"]
    /\ UNCHANGED <<state, todo, hung, unmountFailed, fired, mounted, mkdirVars, failures, boots>>

Reset(t) ==
    /\ Called(t) /\ request[t] = "stopped"
    /\ state' = "rebooting"
    /\ UNCHANGED <<request, todo, hung, timer, unmountFailed, fired, mounted, mkdirVars,
                   failures, boots>>

PowerOff(t) ==
    /\ Called(t) /\ request[t] = "shutdown"
    /\ state' = "off"
    /\ UNCHANGED <<request, todo, hung, timer, unmountFailed, fired, mounted, mkdirVars,
                   failures, boots>>

(* Faulty: the timer leaves a thread alone that is calling callbacks. *)
ResetCbUnlessCalling ==
    /\ state = "up" /\ timer /\ \A t \in Callers : todo[t] = <<>>
    /\ state' = "rebooting" /\ fired' = TRUE
    /\ UNCHANGED <<request, todo, hung, timer, unmountFailed, mounted, mkdirVars, failures, boots>>

(* reset_cb(), from the timer's interrupt. *)
ResetCb ==
    /\ state = "up" /\ timer
    /\ state' = "rebooting" /\ fired' = TRUE
    /\ UNCHANGED <<request, todo, hung, timer, unmountFailed, mounted, mkdirVars, failures, boots>>

-----------------------------------------------------------------------------
(* fs_mkdir_p(), a step for fs_opendir() and one for fs_mkdir(). *)

AtStart(path) == [path |-> path, at |-> 2, missing |-> FALSE, result |-> "none"]
IdleMaker == AtStart(<<>>)
Making(m) == maker[m].path # <<>> /\ maker[m].result = "none"

Prefix(m) == SubSeq(maker[m].path, 1, maker[m].at)

MkdirP(m) ==
    /\ state = "up" /\ ~Making(m)
    /\ \E p \in Paths : maker' = [maker EXCEPT ![m] = AtStart(p)]
    /\ refused' = refused \ {m} /\ overtaken' = overtaken \ {m}
    /\ UNCHANGED <<shutdownVars, mounted, dirs, failures, boots>>

Return(m, r) == maker' = [maker EXCEPT ![m].missing = FALSE, ![m].result = r]

(* The next prefix, or the end of the path. *)
Advance(m) ==
    IF maker[m].at < Len(maker[m].path)
      THEN maker' = [maker EXCEPT ![m].at = @ + 1, ![m].missing = FALSE]
      ELSE Return(m, "ok")

Missing(m) == maker' = [maker EXCEPT ![m].missing = TRUE]

DiskRefuses(m) ==
    /\ failures < MaxFailures /\ failures' = failures + 1
    /\ refused' = refused \cup {m}

(* A directory that is there is opened and closed, which the disk may       *)
(* refuse: then it is taken for missing, or fs_mkdir_p() returns.           *)
OpenDir(m) ==
    LET there == maker[m].path[1] \in mounted /\ Prefix(m) \in dirs IN
    /\ state = "up" /\ Making(m) /\ ~maker[m].missing
    /\ \/ there /\ Advance(m) /\ UNCHANGED <<refused, failures>>
       \/ ~there /\ Missing(m) /\ UNCHANGED <<refused, failures>>
       \/ there /\ DiskRefuses(m) /\ (Missing(m) \/ Return(m, "failed"))
    /\ UNCHANGED <<shutdownVars, mounted, dirs, overtaken, boots>>

(* A directory can be made in one that exists, and only once. *)
CanMake(p) ==
    /\ p[1] \in mounted /\ p \notin dirs
    /\ Len(p) = 2 \/ SubSeq(p, 1, Len(p) - 1) \in dirs

Make(m, p) ==
    /\ CanMake(p)
    /\ dirs' = dirs \cup {p}
    /\ overtaken' = overtaken \cup {n \in Makers \ {m} : maker[n].missing /\ Prefix(n) = p}
    /\ Advance(m)
    /\ UNCHANGED <<failures, refused>>

MkDirFails(m, p) ==
    /\ \/ ~CanMake(p) /\ UNCHANGED <<failures, refused>>
       \/ DiskRefuses(m)
    /\ Return(m, "failed")
    /\ UNCHANGED <<dirs, overtaken>>

(* Faulty: the whole path is made when the first part of it is missing. *)
MkDirWhole(m) ==
    /\ state = "up" /\ maker[m].missing
    /\ Make(m, maker[m].path) \/ MkDirFails(m, maker[m].path)
    /\ UNCHANGED <<shutdownVars, mounted, boots>>

MkDir(m) ==
    /\ state = "up" /\ maker[m].missing
    /\ Make(m, Prefix(m)) \/ MkDirFails(m, Prefix(m))
    /\ UNCHANGED <<shutdownVars, mounted, boots>>

-----------------------------------------------------------------------------
SystemInit ==
    /\ state = "up" /\ request = [t \in Callers |-> "none"]
    /\ todo = [t \in Callers |-> <<>>] /\ hung = {} /\ timer = FALSE
    /\ mounted = FileSystems /\ dirs = {} /\ maker = [m \in Makers |-> IdleMaker]
    /\ failures = 0 /\ boots = 0
    /\ unmountFailed = {} /\ fired = FALSE /\ refused = {} /\ overtaken = {}

(* The start of the next run mounts the file systems. *)
Boot ==
    /\ state = "rebooting" /\ boots < MaxBoots
    /\ boots' = boots + 1
    /\ state' = "up" /\ request' = [t \in Callers |-> "none"]
    /\ todo' = [t \in Callers |-> <<>>] /\ hung' = {} /\ timer' = FALSE
    /\ mounted' = FileSystems /\ maker' = [m \in Makers |-> IdleMaker]
    /\ unmountFailed' = {} /\ fired' = FALSE /\ refused' = {} /\ overtaken' = {}
    /\ UNCHANGED <<dirs, failures>>

Finish(t) == Callback(t) \/ StopTimer(t) \/ Reset(t) \/ PowerOff(t)

Step ==
    \/ \E t \in Callers : SysReset(t) \/ SysShutdown(t) \/ Hang(t) \/ Finish(t)
    \/ ResetCb
    \/ \E m \in Makers : MkdirP(m) \/ OpenDir(m) \/ MkDir(m)

SystemNext == Step \/ Boot

(* A caller that does not hang goes on (a callback that hangs waits, and    *)
(* lets the others run), and the timer fires.                               *)
SystemFairness ==
    /\ \A t \in Callers : WF_systemVars(Finish(t))
    /\ WF_systemVars(ResetCb)

SystemSpec == SystemInit /\ [][SystemNext]_systemVars /\ SystemFairness

-----------------------------------------------------------------------------
(* Properties. *)

(* The state is well typed. *)
SystemTypeOK ==
    /\ state \in {"up", "rebooting", "off"}
    /\ request \in [Callers -> {"none", "reset", "stopped", "shutdown"}]
    /\ hung \subseteq Callers /\ timer \in BOOLEAN /\ mounted \subseteq FileSystems
    /\ \A m \in Makers : maker[m].result \in {"none", "ok", "failed"}

(* When the system goes down no file system is left mounted, but for one    *)
(* that refused, or if the timer cut the callbacks short; although several  *)
(* threads may be shutting it down, each at another callback.               *)
CleanEnd == state # "up" /\ ~fired => mounted \subseteq unmountFailed

(* A reset takes place whatever the callbacks and the other threads do; a   *)
(* shutdown, which arms no timer, unless its own thread hangs.              *)
GoesDown ==
    \A t \in Callers :
      request[t] # "none" ~>
        state # "up" \/ (t \in hung /\ \A u \in Callers : request[u] # "reset")

(* fs_mkdir_p() fails only if its file system is not mounted any more, if   *)
(* the disk refused one of its own operations, or if another thread made a  *)
(* directory of its path between its look for that one and its fs_mkdir();  *)
(* so it never lacks a parent, however many make the same directories.      *)
MkdirFailsOnlyByRace ==
    \A m \in Makers :
      maker[m].result = "failed" /\ maker[m].path[1] \in mounted => m \in refused \cup overtaken
=============================================================================
