--------------------------- MODULE ThreadIdentity ---------------------------
(***************************************************************************)
(* The life of a ThreadIdentity: creation, reuse and reclamation           *)
(* (absl/synchronization/internal/create_thread_identity.cc and            *)
(* absl/base/internal/thread_identity.cc, TLS mode), under the wait and    *)
(* wakeup of Mutex::Block and Mutex::Wakeup, whose last step posts to the  *)
(* semaphore of an identity that its thread may have left by then.         *)
(***************************************************************************)
EXTENDS Integers, Sequences, FiniteSets

CONSTANTS
    Threads, Identities, None,
    MaxPosts,   \* bound: posts that may be in flight or unconsumed
    Iterations  \* PTHREAD_DESTRUCTOR_ITERATIONS: runs of the TLS destructor

VARIABLES
    thread_identity_ptr,       \* thread-local
    key,                       \* value under thread_identity_pthread_key
    thread_identity_freelist,  \* a stack
    allocated,                 \* identities LowLevelAlloc has handed out
    state,                     \* PerThreadSynch::state of each identity
    sem,                       \* its semaphore
    pc, local,                 \* each thread and the identity in its hands
    runs,                      \* runs of the destructor for a dying thread
    queue,                     \* identities queued on some Mutex
    dequeued,                  \* taken off the queue, state not yet stored
    posting                    \* Posts not yet made, per identity

vars == <<thread_identity_ptr, key, thread_identity_freelist, allocated, state,
          sem, pc, local, runs, queue, dequeued, posting>>

tls    == <<thread_identity_ptr, key>>
pool   == <<thread_identity_freelist, allocated>>
wakers == <<queue, dequeued, posting>>

Init ==
    /\ thread_identity_ptr = [t \in Threads |-> None]
    /\ key = [t \in Threads |-> None]
    /\ thread_identity_freelist = << >> /\ allocated = {}
    /\ state = [i \in Identities |-> "kAvailable"]
    /\ sem = [i \in Identities |-> 0]
    /\ pc = [t \in Threads |-> "run"]
    /\ local = [t \in Threads |-> None]
    /\ runs = [t \in Threads |-> 0]
    /\ queue = {} /\ dequeued = {} /\ posting = [i \in Identities |-> 0]

Goto(t, p) == pc' = [pc EXCEPT ![t] = p]

\* NewThreadIdentity under freelist_lock, or an allocation with its one-time
\* initialization of the semaphore.  A dying thread may come here again from
\* the destructor of another thread-local variable.
NewThreadIdentity(t) ==
    /\ pc[t] \in {"run", "dying"} /\ thread_identity_ptr[t] = None
    /\ \/ /\ thread_identity_freelist # << >>
          /\ local' = [local EXCEPT ![t] = Head(thread_identity_freelist)]
          /\ thread_identity_freelist' = Tail(thread_identity_freelist)
          /\ UNCHANGED <<allocated, sem>>
       \/ /\ thread_identity_freelist = << >>
          /\ \E i \in Identities \ allocated :
               /\ local' = [local EXCEPT ![t] = i]
               /\ allocated' = allocated \cup {i}
               /\ sem' = [sem EXCEPT ![i] = 0]
          /\ UNCHANGED thread_identity_freelist
    /\ Goto(t, IF pc[t] = "run" THEN "create" ELSE "create_dying")
    /\ UNCHANGED <<tls, state, runs, wakers>>

\* ResetThreadIdentityBetweenReuse, which leaves the semaphore alone, and
\* SetCurrentThreadIdentity.
SetCurrentThreadIdentity(t) ==
    /\ pc[t] \in {"create", "create_dying"}
    /\ state' = [state EXCEPT ![local[t]] = "kAvailable"]
    /\ key' = [key EXCEPT ![t] = local[t]]
    /\ thread_identity_ptr' = [thread_identity_ptr EXCEPT ![t] = local[t]]
    /\ local' = [local EXCEPT ![t] = None]
    /\ Goto(t, IF pc[t] = "create" THEN "run" ELSE "dying")
    /\ UNCHANGED <<pool, sem, runs, wakers>>

(***************************************************************************)
(* Waiting, as in Mutex::Block                                             *)
(***************************************************************************)

\* The thread queues itself.
Block(t) ==
    /\ pc[t] = "run" /\ thread_identity_ptr[t] # None
    /\ \E i \in {thread_identity_ptr[t]} :
         /\ state' = [state EXCEPT ![i] = "kQueued"]
         /\ queue' = queue \cup {i}
    /\ Goto(t, "check")
    /\ UNCHANGED <<tls, pool, sem, local, runs, dequeued, posting>>

\* Mutant: the loop does not look at the state again.
BlockCheckOnce(t) ==
    /\ pc[t] = "check"
    /\ \E i \in {thread_identity_ptr[t]} :
         Goto(t, IF state[i] = "kQueued" /\ sem[i] = 0 THEN "wait" ELSE "run")
    /\ UNCHANGED <<tls, pool, state, sem, local, runs, wakers>>

BlockCheck(t) ==
    /\ pc[t] = "check"
    /\ Goto(t, IF state[thread_identity_ptr[t]] = "kQueued" THEN "wait" ELSE "run")
    /\ UNCHANGED <<tls, pool, state, sem, local, runs, wakers>>

\* DecrementSynchSem returns true.
BlockWoken(t) ==
    /\ pc[t] = "wait"
    /\ \E i \in {thread_identity_ptr[t]} :
         /\ sem[i] > 0
         /\ sem' = [sem EXCEPT ![i] = @ - 1]
    /\ Goto(t, "check")
    /\ UNCHANGED <<tls, pool, state, local, runs, wakers>>

\* It times out: the thread leaves the queue if it is still there (TryRemove),
\* and otherwise waits on without a timeout.
BlockTimeout(t) ==
    /\ pc[t] = "wait"
    /\ \E i \in {thread_identity_ptr[t]} :
         /\ queue' = queue \ {i}
         /\ state' = IF i \in queue THEN [state EXCEPT ![i] = "kAvailable"] ELSE state
    /\ Goto(t, "check")
    /\ UNCHANGED <<tls, pool, sem, local, runs, dequeued, posting>>

\* An unlocker takes a waiter off the queue,
Dequeue(i) ==
    /\ i \in queue /\ sem[i] + posting[i] < MaxPosts
    /\ queue' = queue \ {i}
    /\ dequeued' = dequeued \cup {i}
    /\ UNCHANGED <<tls, pool, state, sem, pc, local, runs, posting>>

\* Mutant: nobody is posted to.
WakeupStoreNoPost(i) ==
    /\ i \in dequeued
    /\ state' = [state EXCEPT ![i] = "kAvailable"]
    /\ dequeued' = dequeued \ {i}
    /\ UNCHANGED <<tls, pool, sem, pc, local, runs, queue, posting>>

\* stores kAvailable, after which the waiter may go,
WakeupStore(i) ==
    /\ i \in dequeued
    /\ state' = [state EXCEPT ![i] = "kAvailable"]
    /\ dequeued' = dequeued \ {i}
    /\ posting' = [posting EXCEPT ![i] = @ + 1]
    /\ UNCHANGED <<tls, pool, sem, pc, local, runs, queue>>

\* and posts.
WakeupPost(i) ==
    /\ posting[i] > 0
    /\ posting' = [posting EXCEPT ![i] = @ - 1]
    /\ sem' = [sem EXCEPT ![i] = @ + 1]
    /\ UNCHANGED <<tls, pool, state, pc, local, runs, queue, dequeued>>

(***************************************************************************)
(* The end of a thread                                                     *)
(***************************************************************************)
Exit(t) ==
    /\ pc[t] = "run"
    /\ Goto(t, "dying")
    /\ runs' = [runs EXCEPT ![t] = 0]
    /\ UNCHANGED <<tls, pool, state, sem, local, wakers>>

\* Mutant: the identity goes to the free list while the thread still has it.
ClearCurrentThreadIdentityLate(t) ==
    /\ pc[t] = "dying" /\ key[t] # None /\ runs[t] < Iterations
    /\ runs' = [runs EXCEPT ![t] = @ + 1]
    /\ local' = [local EXCEPT ![t] = key[t]]
    /\ key' = [key EXCEPT ![t] = None]
    /\ Goto(t, "reclaim")
    /\ UNCHANGED <<thread_identity_ptr, pool, state, sem, wakers>>

\* The TLS destructor runs: ReclaimThreadIdentity clears the pointer,
ClearCurrentThreadIdentity(t) ==
    /\ pc[t] = "dying" /\ key[t] # None /\ runs[t] < Iterations
    /\ runs' = [runs EXCEPT ![t] = @ + 1]
    /\ local' = [local EXCEPT ![t] = key[t]]
    /\ key' = [key EXCEPT ![t] = None]
    /\ thread_identity_ptr' = [thread_identity_ptr EXCEPT ![t] = None]
    /\ Goto(t, "reclaim")
    /\ UNCHANGED <<pool, state, sem, wakers>>

\* and puts the identity on the free list.
ReclaimThreadIdentity(t) ==
    /\ pc[t] = "reclaim"
    /\ thread_identity_freelist' = <<local[t]>> \o thread_identity_freelist
    /\ local' = [local EXCEPT ![t] = None]
    /\ Goto(t, "dying")
    /\ UNCHANGED <<tls, allocated, state, sem, runs, wakers>>

\* The thread is gone, and with it an identity that no destructor run was left
\* for; another thread starts in its place.
NewThread(t) ==
    /\ pc[t] = "dying" /\ (key[t] = None \/ runs[t] = Iterations)
    /\ Goto(t, "run")
    /\ key' = [key EXCEPT ![t] = None]
    /\ thread_identity_ptr' = [thread_identity_ptr EXCEPT ![t] = None]
    /\ runs' = [runs EXCEPT ![t] = 0]
    /\ UNCHANGED <<pool, state, sem, local, wakers>>

WaitStep(t) == BlockCheck(t) \/ BlockWoken(t)

WakeStep(i) == WakeupStore(i) \/ WakeupPost(i)

Next ==
    \/ \E t \in Threads :
         \/ NewThreadIdentity(t) \/ SetCurrentThreadIdentity(t)
         \/ Block(t) \/ WaitStep(t) \/ BlockTimeout(t)
         \/ Exit(t) \/ ClearCurrentThreadIdentity(t) \/ ReclaimThreadIdentity(t)
         \/ NewThread(t)
    \/ \E i \in Identities : Dequeue(i) \/ WakeStep(i)

\* A waiter goes on when it can, and a waker that has begun finishes.
Spec ==
    /\ Init /\ [][Next]_vars
    /\ \A t \in Threads : WF_vars(WaitStep(t))
    /\ \A i \in Identities : WF_vars(WakeStep(i))

-----------------------------------------------------------------------------

Owned(i) == {t \in Threads : i \in {thread_identity_ptr[t], key[t], local[t]}}

Listed(i) == \E n \in 1..Len(thread_identity_freelist) : thread_identity_freelist[n] = i

TypeOK ==
    /\ thread_identity_ptr \in [Threads -> Identities \cup {None}]
    /\ state \in [Identities -> {"kAvailable", "kQueued"}]
    /\ sem \in [Identities -> 0..MaxPosts] /\ posting \in [Identities -> 0..MaxPosts]
    /\ thread_identity_freelist \in Seq(allocated)
    /\ queue \subseteq allocated /\ dequeued \subseteq allocated

(***************************************************************************)
(* An identity has one owner at a time: it is in the hands of at most one  *)
(* thread, and of none while it is on the free list, also when destructors *)
(* of other thread-local variables ask for an identity after the first was *)
(* reclaimed.                                                              *)
(***************************************************************************)
OneOwner ==
    \A i \in allocated :
        /\ Cardinality(Owned(i)) <= 1
        /\ Listed(i) => Owned(i) = {}

(***************************************************************************)
(* A waker that has yet to store kAvailable finds the waiter it dequeued   *)
(* still waiting, never the next owner of a reused identity.  (The post    *)
(* after the store may well come to the next owner.)                       *)
(***************************************************************************)
StoreHitsItsWaiter ==
    \A i \in queue \cup dequeued :
        \E t \in Threads : thread_identity_ptr[t] = i /\ pc[t] \in {"check", "wait"}

(***************************************************************************)
(* A thread that was let go is never left asleep: a token is there or on   *)
(* its way, whether a stale one of a previous owner or its own.            *)
(***************************************************************************)
LateEnough ==
    \A t \in Threads : \A i \in Identities :
        pc[t] = "wait" /\ thread_identity_ptr[t] = i /\ state[i] = "kAvailable" =>
            sem[i] + posting[i] > 0
=============================================================================
