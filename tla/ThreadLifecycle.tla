--------------------------- MODULE ThreadLifecycle ---------------------------
(***************************************************************************)
(* Threads (source/thread.c).  A libctru thread is one heap block that     *)
(* holds its descriptor, its stack and its thread-local storage, and a     *)
(* kernel thread that runs on it.  Who frees the block depends on two      *)
(* flags, detached and finished, that the thread and its creator read and  *)
(* write without a lock.                                                   *)
(*                                                                         *)
(* The kernel is external: svcCreateThread starts the thread before its    *)
(* caller has stored the handle it returns (source/svc.s), and a handle is *)
(* signalled when the kernel thread has exited.                            *)
(***************************************************************************)
EXTENDS FiniteSets

CONSTANTS
  Children,      \* the threads created
  Creator,       \* the thread that creates them and calls the thread API
  FreedMemoryKept,   \* does a freed block keep its content until the
                     \*   thread that ran on it has exited?  The heap does
                     \*   not promise it
  Uses           \* how threads are used:
                 \*   "join"    attached, joined, asked for its code and freed
                 \*   "poll"    the same without waiting, then with a join
                 \*   "detach"  attached, then detached
                 \*   "detached"  created detached
                 \*   "joinDetached"  created detached and joined nonetheless

ASSUME ThreadAssumption ==
  /\ IsFiniteSet(Children)
  /\ Creator \notin Children
  /\ FreedMemoryKept \in BOOLEAN
  /\ Uses \subseteq {"join", "poll", "detach", "detached", "joinDetached"}

VARIABLES
  mem,        \* child -> its heap block: "none", "live", "freed", "freedTwice"
  handle,     \* child -> the stored handle: "unset", "open" or "closed"
  detached,   \* child -> t->detached
  finished,   \* child -> t->finished
  rc,         \* child -> t->rc: "unset", or "code" once threadExit stored it
  kernel,     \* child -> the kernel thread: "none", "running" or "exited"
  pc,         \* where each thread is, by the names below
  subject,    \* the child the creator's current call is about
  use,        \* child -> the member of Uses chosen for it
  got         \* history: child -> "none", or what threadGetExitCode returned

vars == <<mem, handle, detached, finished, rc, kernel, pc, subject, use, got>>

ChildPlaces ==
  {"none", "body", "finish", "decide", "freeClose", "freeBlock",
   "storeRc", "svcExit", "exited"}
\* "join", "joined", "free" and "detach" come before the first read of
\* threadJoin, threadGetExitCode, threadFree and threadDetach.
CreatorPlaces ==
  {"idle", "storeHandle", "join", "joinWait", "joined", "readCode", "free",
   "freeClose", "freeBlock", "detach", "detachSet"}

Init ==
  /\ mem = [c \in Children |-> "none"]
  /\ handle = [c \in Children |-> "unset"]
  /\ detached = [c \in Children |-> FALSE]
  /\ finished = [c \in Children |-> FALSE]
  /\ rc = [c \in Children |-> "unset"]
  /\ kernel = [c \in Children |-> "none"]
  /\ pc = [t \in Children \cup {Creator} |-> IF t = Creator THEN "idle" ELSE "none"]
  /\ subject = Creator
  /\ use \in [Children -> Uses]
  /\ got = [c \in Children |-> "none"]

Goto(t, place) == pc' = [pc EXCEPT ![t] = place]

\* svcCloseHandle on a handle not stored yet, or closed already, closes nothing
\* or what has its value by then; "lost" tells the second.
CloseHandle(c) ==
  handle' = [handle EXCEPT ![c] = CASE @ = "unset" -> "unset"
                                    [] @ = "open" -> "closed"
                                    [] OTHER -> "lost"]

\* What a read of a flag of the descriptor of c may find.
Read(c, flag) == IF mem[c] = "live" \/ FreedMemoryKept THEN {flag[c]} ELSE BOOLEAN

Free(c) ==
  mem' = [mem EXCEPT ![c] = IF @ = "live" THEN "freed" ELSE "freedTwice"]

-----------------------------------------------------------------------------
(***************************************************************************)
(* Slips the code avoids, each for the action named with it.               *)
(***************************************************************************)

\* For DetachRead: the thread is marked before it is known not to have
\* finished.
DetachReadMarksFirst ==
  /\ pc[Creator] = "detach"
  /\ detached' = [detached EXCEPT ![subject] = TRUE]
  /\ Goto(Creator, IF finished[subject] THEN "free" ELSE "idle")
  /\ UNCHANGED <<mem, handle, finished, rc, kernel, subject, use, got>>

\* For Decide: the flag is not looked at.
DecideAttached(c) ==
  /\ pc[c] = "decide"
  /\ Goto(c, "storeRc")
  /\ UNCHANGED <<mem, handle, detached, finished, rc, kernel, subject, use, got>>

\* For FreeRead: a thread is freed whether it has finished or not.
FreeReadUnchecked ==
  /\ pc[Creator] = "free"
  /\ Goto(Creator, "freeClose")
  /\ UNCHANGED <<mem, handle, detached, finished, rc, kernel, subject, use, got>>

-----------------------------------------------------------------------------
\* The thread itself: _thread_begin and threadExit.

\* The entry point returns or calls threadExit, which sets finished first ...
Finish(c) ==
  /\ pc[c] = "body"
  /\ finished' = [finished EXCEPT ![c] = TRUE]
  /\ Goto(c, "decide")
  /\ UNCHANGED <<mem, handle, detached, rc, kernel, subject, use, got>>

\* ... then reads detached (a creator that has seen finished may have freed the
\* descriptor by then) ...
Decide(c) ==
  /\ pc[c] = "decide"
  /\ \E d \in Read(c, detached) : Goto(c, IF d THEN "freeClose" ELSE "storeRc")
  /\ UNCHANGED <<mem, handle, detached, finished, rc, kernel, subject, use, got>>

\* ... and leaves its exit code ...
StoreRc(c) ==
  /\ pc[c] = "storeRc"
  /\ rc' = [rc EXCEPT ![c] = "code"]
  /\ Goto(c, "svcExit")
  /\ UNCHANGED <<mem, handle, detached, finished, kernel, subject, use, got>>

\* ... or calls threadFree on itself (finished is set, by the thread).
CloseOwn(c) ==
  /\ pc[c] = "freeClose"
  /\ CloseHandle(c)
  /\ Goto(c, "freeBlock")
  /\ UNCHANGED <<mem, detached, finished, rc, kernel, subject, use, got>>

FreeOwn(c) ==
  /\ pc[c] = "freeBlock"
  /\ Free(c)
  /\ Goto(c, "svcExit")
  /\ UNCHANGED <<handle, detached, finished, rc, kernel, subject, use, got>>

SvcExitThread(c) ==
  /\ pc[c] = "svcExit"
  /\ kernel' = [kernel EXCEPT ![c] = "exited"]
  /\ Goto(c, "exited")
  /\ UNCHANGED <<mem, handle, detached, finished, rc, subject, use, got>>

-----------------------------------------------------------------------------
\* The creator.

\* threadCreate fills the block in and starts the thread.  When one of its
\* allocations fails it returns NULL and nothing is left behind.
Create(c) ==
  /\ pc[Creator] = "idle"
  /\ mem[c] = "none"
  /\ mem' = [mem EXCEPT ![c] = "live"]
  /\ detached' = [detached EXCEPT ![c] = use[c] \in {"detached", "joinDetached"}]
  /\ finished' = [finished EXCEPT ![c] = FALSE]
  /\ kernel' = [kernel EXCEPT ![c] = "running"]
  /\ pc' = [pc EXCEPT ![c] = "body", ![Creator] = "storeHandle"]
  /\ subject' = c
  /\ UNCHANGED <<handle, rc, use, got>>

\* svcCreateThread stores the handle, and the caller decides what comes next.
StoreHandle ==
  /\ pc[Creator] = "storeHandle"
  /\ handle' = [handle EXCEPT ![subject] = "open"]
  /\ Goto(Creator, CASE use[subject] = "detach" -> "detach"
                     [] use[subject] \in {"join", "joinDetached"} -> "join"
                     [] use[subject] = "poll" -> "joined"
                     [] OTHER -> "idle")
  /\ UNCHANGED <<mem, detached, finished, rc, kernel, subject, use, got>>

\* threadJoin returns at once if the thread says it has finished (a detached
\* one may have freed its descriptor by then) ...
JoinRead ==
  /\ pc[Creator] = "join"
  /\ \E f \in Read(subject, finished) :
       Goto(Creator, IF f THEN "joined" ELSE "joinWait")
  /\ UNCHANGED <<mem, handle, detached, finished, rc, kernel, subject, use, got>>

\* ... and waits for the kernel thread to exit otherwise ...
JoinWait ==
  /\ pc[Creator] = "joinWait"
  /\ kernel[subject] = "exited"
  /\ Goto(Creator, "joined")
  /\ UNCHANGED <<mem, handle, detached, finished, rc, kernel, subject, use, got>>

\* ... or until the timeout, after which the creator tries again.
JoinTimeout ==
  /\ pc[Creator] = "joinWait"
  /\ Goto(Creator, "join")
  /\ UNCHANGED <<mem, handle, detached, finished, rc, kernel, subject, use, got>>

\* threadGetExitCode reads finished, and the code if it is set.  Nobody asks
\* for the exit code of a detached thread.
ReadFinished ==
  /\ pc[Creator] = "joined"
  /\ Goto(Creator, CASE use[subject] = "joinDetached" -> "idle"
                     [] use[subject] # "joinDetached" /\ finished[subject] -> "readCode"
                     [] OTHER -> "free")
  /\ UNCHANGED <<mem, handle, detached, finished, rc, kernel, subject, use, got>>

ReadCode ==
  /\ pc[Creator] = "readCode"
  /\ got' = [got EXCEPT ![subject] = rc[subject]]
  /\ Goto(Creator, "free")
  /\ UNCHANGED <<mem, handle, detached, finished, rc, kernel, subject, use>>

\* threadFree by the creator, which does nothing to a thread that has not
\* finished; a creator that was polling joins the thread then.
FreeRead ==
  /\ pc[Creator] = "free"
  /\ Goto(Creator, IF finished[subject] THEN "freeClose" ELSE "join")
  /\ UNCHANGED <<mem, handle, detached, finished, rc, kernel, subject, use, got>>

FreeClose ==
  /\ pc[Creator] = "freeClose"
  /\ CloseHandle(subject)
  /\ Goto(Creator, "freeBlock")
  /\ UNCHANGED <<mem, detached, finished, rc, kernel, subject, use, got>>

FreeBlock ==
  /\ pc[Creator] = "freeBlock"
  /\ Free(subject)
  /\ Goto(Creator, "idle")
  /\ UNCHANGED <<handle, detached, finished, rc, kernel, subject, use, got>>

\* threadDetach, of an attached thread, frees it if it has finished and marks it
\* if it runs.
DetachRead ==
  /\ pc[Creator] = "detach"
  /\ Goto(Creator, CASE detached[subject] -> "idle"
                     [] ~detached[subject] /\ finished[subject] -> "free"
                     [] OTHER -> "detachSet")
  /\ UNCHANGED <<mem, handle, detached, finished, rc, kernel, subject, use, got>>

DetachSet ==
  /\ pc[Creator] = "detachSet"
  /\ detached' = [detached EXCEPT ![subject] = TRUE]
  /\ Goto(Creator, "idle")
  /\ UNCHANGED <<mem, handle, finished, rc, kernel, subject, use, got>>

-----------------------------------------------------------------------------

ChildProceeds(c) ==
  Finish(c) \/ Decide(c) \/ StoreRc(c) \/ CloseOwn(c) \/ FreeOwn(c) \/ SvcExitThread(c)

CreatorProceeds ==
  \/ StoreHandle \/ JoinRead \/ JoinWait \/ ReadFinished \/ ReadCode
  \/ FreeRead \/ FreeClose \/ FreeBlock \/ DetachRead \/ DetachSet

Next ==
  \/ \E c \in Children : Create(c) \/ ChildProceeds(c)
  \/ CreatorProceeds \/ JoinTimeout

\* The kernel runs every runnable thread, and the entry points return.
Fairness ==
  /\ \A c \in Children : WF_vars(ChildProceeds(c))
  /\ WF_vars(CreatorProceeds)

Spec == Init /\ [][Next]_vars /\ Fairness

-----------------------------------------------------------------------------

\* Every variable has its type; no handle is closed after it was closed.
TypeOK ==
  /\ mem \in [Children -> {"none", "live", "freed", "freedTwice"}]
  /\ handle \in [Children -> {"unset", "open", "closed"}]
  /\ detached \in [Children -> BOOLEAN]
  /\ finished \in [Children -> BOOLEAN]
  /\ rc \in [Children -> {"unset", "code"}]
  /\ kernel \in [Children -> {"none", "running", "exited"}]
  /\ pc \in [Children \cup {Creator} -> ChildPlaces \cup CreatorPlaces]
  /\ subject \in Children \cup {Creator}
  /\ use \in [Children -> Uses]
  /\ got \in [Children -> {"none", "unset", "code"}]

\* Whether the thread, threadFree or threadDetach frees the block, only one of
\* them does, although they decide by flags they read at different times.
FreedAtMostOnce == \A c \in Children : mem[c] # "freedTwice"

\* Nobody frees a thread that has not set finished.
FreedOnlyIfFinished == \A c \in Children : mem[c] \notin {"none", "live"} => finished[c]

\* A block is freed once, and not before its thread has finished, whoever frees it.
FreedOnceFinished == FreedAtMostOnce /\ FreedOnlyIfFinished

\* A thread that is joined, or created detached, is freed in the end.
EventuallyFreed ==
  \A c \in Children :
    mem[c] = "live" /\ use[c] # "detach" ~> mem[c] = "freed"

\* "Retrieves the exit code of a finished libctru thread" (thread.h:61): after
\* a join, the code is the one the thread exited with.
ExitCodeIsRight == \A c \in Children : got[c] \in {"none", "code"}

\* "Changes a thread's status from attached to detached" (thread.h:82), and a
\* detached thread "is automatically freed when it finishes" (thread.h:39).
DetachedIsFreed ==
  \A c \in Children :
    use[c] = "detach" /\ kernel[c] = "exited" ~> mem[c] = "freed"
=============================================================================
