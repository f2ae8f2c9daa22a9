------------------------------ MODULE WalSync ------------------------------
(***************************************************************************)
(* storage/wal: the background thread of SYNC_PERIODIC against the writer  *)
(* that appends and in the end destroys the WALWriter.                     *)
(*                                                                         *)
(* The condition variable is modelled by its contract: wait_for releases   *)
(* the mutex and blocks in one step, and returns holding it after a        *)
(* notification, a timeout or for no reason; its predicate form waits      *)
(* again unless the predicate holds or the time is over.                   *)
(***************************************************************************)
EXTENDS Naturals

CONSTANT MaxWrites  \* bound: appends before the destruction

ASSUME WalSyncAssumption == MaxWrites \in Nat

VARIABLES
    thread,   \* where run_periodic_sync is
    dtor,     \* where ~WALWriter is; "none": not begun
    owner,    \* who holds sync_cv_mutex_
    stop,     \* stop_sync_
    open,     \* fd_ >= 0
    written,  \* appends whose write(2) returned
    flushed   \* the longest prefix of them an fsync covered

syncVars == <<thread, dtor, owner, stop, open, written, flushed>>

SyncInit ==
    /\ thread = "check"
    /\ dtor = "none"
    /\ owner = "nobody"
    /\ stop = FALSE
    /\ open = TRUE
    /\ written = 0
    /\ flushed = 0

-----------------------------------------------------------------------------
WriteReturns ==
    /\ dtor = "none"
    /\ written < MaxWrites
    /\ written' = written + 1
    /\ UNCHANGED <<thread, dtor, owner, stop, open, flushed>>

-----------------------------------------------------------------------------
(* run_periodic_sync                                                       *)

\* Mutant: while (true).
CheckNever ==
    /\ thread = "check"
    /\ thread' = "lock"
    /\ UNCHANGED <<dtor, owner, stop, open, written, flushed>>

Check ==
    /\ thread = "check"
    /\ thread' = IF stop THEN "ended" ELSE "lock"
    /\ UNCHANGED <<dtor, owner, stop, open, written, flushed>>

Lock ==
    /\ thread = "lock"
    /\ owner = "nobody"
    /\ owner' = "thread"
    /\ thread' = "test"
    /\ UNCHANGED <<dtor, stop, open, written, flushed>>

\* The predicate of wait_for, read with the mutex held.
Test ==
    /\ thread = "test"
    /\ thread' = IF stop THEN "fsync" ELSE "block"
    /\ UNCHANGED <<dtor, owner, stop, open, written, flushed>>

Block ==
    /\ thread = "block"
    /\ owner' = "nobody"
    /\ thread' = "waiting"
    /\ UNCHANGED <<dtor, stop, open, written, flushed>>

\* Mutant: wait for wait_for.
TimeoutNever == FALSE

Timeout ==
    /\ thread = "waiting"
    /\ thread' = "timedOut"
    /\ UNCHANGED <<dtor, owner, stop, open, written, flushed>>

SpuriousWakeup ==
    /\ thread = "waiting"
    /\ thread' = "lock"
    /\ UNCHANGED <<dtor, owner, stop, open, written, flushed>>

LockAfterTimeout ==
    /\ thread = "timedOut"
    /\ owner = "nobody"
    /\ owner' = "thread"
    /\ thread' = "fsync"
    /\ UNCHANGED <<dtor, stop, open, written, flushed>>

\* fsync, and the unlock at the end of the loop body.
Fsync ==
    /\ thread = "fsync"
    /\ flushed' = IF open THEN written ELSE flushed
    /\ owner' = "nobody"
    /\ thread' = "check"
    /\ UNCHANGED <<dtor, stop, open, written>>

-----------------------------------------------------------------------------
(* ~WALWriter                                                              *)

Destroy ==
    /\ dtor = "none"
    /\ owner = "nobody"
    /\ owner' = "dtor"
    /\ dtor' = "store"
    /\ UNCHANGED <<thread, stop, open, written, flushed>>

Store ==
    /\ dtor = "store"
    /\ stop' = TRUE
    /\ owner' = "nobody"
    /\ dtor' = "notify"
    /\ UNCHANGED <<thread, open, written, flushed>>

\* Mutant: notify_all is forgotten.
NotifyNobody ==
    /\ dtor = "notify"
    /\ dtor' = "join"
    /\ UNCHANGED <<thread, owner, stop, open, written, flushed>>

Notify ==
    /\ dtor = "notify"
    /\ thread' = IF thread = "waiting" THEN "lock" ELSE thread
    /\ dtor' = "join"
    /\ UNCHANGED <<owner, stop, open, written, flushed>>

\* Mutant: the thread is detached.
JoinNot ==
    /\ dtor = "join"
    /\ dtor' = "sync"
    /\ UNCHANGED <<thread, owner, stop, open, written, flushed>>

Join ==
    /\ dtor = "join"
    /\ thread = "ended"
    /\ dtor' = "sync"
    /\ UNCHANGED <<thread, owner, stop, open, written, flushed>>

FinalSync ==
    /\ dtor = "sync"
    /\ flushed' = written
    /\ dtor' = "close"
    /\ UNCHANGED <<thread, owner, stop, open, written>>

CloseFile ==
    /\ dtor = "close"
    /\ open' = FALSE
    /\ dtor' = "gone"
    /\ UNCHANGED <<thread, owner, stop, written, flushed>>

-----------------------------------------------------------------------------
ThreadStep ==
    \/ Check \/ Lock \/ Test \/ Block \/ Timeout \/ LockAfterTimeout \/ Fsync

Teardown == Store \/ Notify \/ Join \/ FinalSync \/ CloseFile

SyncNext == WriteReturns \/ ThreadStep \/ SpuriousWakeup \/ Destroy \/ Teardown

SyncSpec == SyncInit /\ [][SyncNext]_syncVars

\* Both threads are scheduled.  The deadline of wait_for is fixed when it is
\* called and wakeups do not move it, so a thread that waits again and again
\* times out.  Nothing makes a program write or destroy.
SyncSpecFair ==
    /\ SyncSpec
    /\ WF_syncVars(ThreadStep)
    /\ SF_syncVars(Timeout)
    /\ WF_syncVars(Teardown)

-----------------------------------------------------------------------------
(* Properties                                                              *)

\* Type invariant.
SyncTypeOK ==
    /\ thread \in {"check", "lock", "test", "block", "waiting", "timedOut", "fsync", "ended"}
    /\ dtor \in {"none", "store", "notify", "join", "sync", "close", "gone"}
    /\ owner \in {"nobody", "thread", "dtor"}
    /\ stop \in BOOLEAN
    /\ open \in BOOLEAN
    /\ written \in Nat
    /\ flushed \in Nat

\* No lost wakeup: a destructor that joins never finds the thread asleep, or
\* about to fall asleep, for another interval.
NoLostWakeup == dtor = "join" => thread \notin {"block", "waiting"}

\* Nobody uses the descriptor after it was closed (its number may be that of
\* the next segment's log by then), and nothing is left unsynced behind it.
ClosedIsFinal == ~open => thread = "ended" /\ flushed = written

\* Whatever was written is on the disk some time later, whether the writer goes
\* on or is destroyed.
WritesReachDisk == \A n \in 1 .. MaxWrites : written >= n ~> flushed >= n

\* A destructor returns.
DestructorReturns == dtor = "store" ~> dtor = "gone"
=============================================================================
