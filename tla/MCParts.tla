---------------------------- MODULE MCParts ----------------------------
(***************************************************************************)
(* The word of the Mutex, call_once, the synchronization objects, thread   *)
(* identities, flags, the hash table and the data structures of            *)
(* MCStructures, each checked on its own: a behaviour is one of one part,  *)
(* and the other parts rest in an initial state.  The n-th processes of    *)
(* all parts share one fairness condition, since only those of the chosen  *)
(* part ever step.                                                         *)
(***************************************************************************)
EXTENDS MutexWord, MCOnce, MCObjects, MCIdentities, MCFlags, MCStructures

VARIABLES hash_set, hash_limits, hash_elements, erases

\* GetFlag against two other calls, for each way to store a flag, and three
\* different calls that change the flag or its callback.
FlagCalls ==
    {[kind |-> k, callback |-> FALSE, op |-> f] :
        k \in {"kOneWordAtomic", "kSequenceLocked", "kAlignedBuffer"},
        f \in {<<"Get", "Get", "Write">>, <<"Get", "Get", "SetDefault">>,
               <<"Get", "Write", "Write">>, <<"Get", "Write", "SetDefault">>,
               <<"Get", "Write", "Restore">>, <<"Get", "SetDefault", "Restore">>}}
    \cup
    {[kind |-> "kOneWordAtomic", callback |-> b, op |-> f] :
        b \in BOOLEAN,
        f \in {<<"Write", "SetIfDefault", "SetDefault">>,
               <<"Write", "SetIfDefault", "SetCallback">>,
               <<"SetValue", "SetDefault", "Restore">>,
               <<"Write", "Restore", "SetCallback">>,
               <<"Write", "Restore", "Restore">>}}

(* Bounds of the hash table.  The first starts empty; the others with a     *)
(* table of 15 slots that is nearly full or full up to its load factor, and *)
(* continue with a larger table or with DropDeletesWithoutResize.           *)

HashValues == {0, 1153}
Counts(n, m) == [h \in HashValues |-> IF h = 0 THEN n ELSE m]
Forwards == [h \in HashValues |-> FALSE]
Backwards(S) == [h \in HashValues |-> h \in S]
Elements(n, m) == [k \in 1..(n + m) |-> IF k <= n THEN 0 ELSE 1153]

FromEmpty ==
    [buckets |-> 0, initial |-> << >>, counts |-> Counts(3, 2), erases |-> 2,
     capacity |-> 15, sizes |-> {0, 4, 7}, rehashes |-> BOOLEAN, salts |-> {0, 6},
     directions |-> {Forwards}]
ToLarger ==
    [buckets |-> 15, initial |-> Elements(11, 0), counts |-> Counts(11, 3), erases |-> 2,
     capacity |-> 31, sizes |-> {}, rehashes |-> {FALSE}, salts |-> {4},
     directions |-> {Forwards, Backwards({0})}]
ToTombstones ==
    [buckets |-> 15, initial |-> Elements(11, 3), counts |-> Counts(0, 5), erases |-> 4,
     capacity |-> 15, sizes |-> {}, rehashes |-> {FALSE}, salts |-> {0},
     directions |-> {Backwards({0}), Backwards(HashValues)}]

hashVars == <<hash_set, hash_limits, hash_elements, erases>>

HS == INSTANCE RawHashSet WITH
        kWidth <- 8, Hashes <- HashValues, Limits <- {FromEmpty, ToLarger, ToTombstones},
        c <- hash_set, limits <- hash_limits, elements <- hash_elements

allVars == <<part, vars, onceVars, objectVars, identityVars, flagVars, hashVars,
             structureVars>>

Parts == {"MutexWord", "CallOnce", "SyncObjects", "ThreadIdentity", "Flag",
          "RawHashSet"} \cup Structures

\* A part with several initial states rests in this one.
SyncObjectsAtRest == object = "Barrier" /\ workers = {}
FlagAtRest == kind = "kOneWordAtomic" /\ op = <<"Get", "Get", "Write">>
HashSetAtRest == hash_limits = FromEmpty /\ hash_set = HS!Fresh(0, 0, 0)

InitAll ==
    /\ part \in Parts
    /\ \/ part = "SyncObjects"
       \/ part # "SyncObjects" /\ SyncObjectsAtRest
    /\ \/ part = "Flag"
       \/ part # "Flag" /\ FlagAtRest
    /\ \/ part = "RawHashSet"
       \/ part # "RawHashSet" /\ HashSetAtRest
    /\ Init /\ CO!Init /\ SO!Init /\ TI!Init /\ Fl!Init /\ HS!Init
    /\ InitStructures

NextMutexWord ==
    /\ part = "MutexWord" /\ Next
    /\ UNCHANGED <<part, onceVars, objectVars, identityVars, flagVars, hashVars, structureVars>>

Active(p, step) == part = p /\ step /\ UNCHANGED <<part, structureVars>>

OnlyCallOnce(step) ==
    Active("CallOnce", step) /\ UNCHANGED <<vars, objectVars, identityVars, flagVars, hashVars>>
OnlySyncObjects(step) ==
    Active("SyncObjects", step) /\ UNCHANGED <<vars, onceVars, identityVars, flagVars, hashVars>>
OnlyThreadIdentity(step) ==
    Active("ThreadIdentity", step) /\ UNCHANGED <<vars, onceVars, objectVars, flagVars, hashVars>>
OnlyFlag(step) ==
    Active("Flag", step) /\ UNCHANGED <<vars, onceVars, objectVars, identityVars, hashVars>>
NextHashSet ==
    Active("RawHashSet", HS!Next)
    /\ UNCHANGED <<vars, onceVars, objectVars, identityVars, flagVars>>
OnlyStructures ==
    NextStructures /\ UNCHANGED <<vars, onceVars, objectVars, identityVars, flagVars, hashVars>>

NextAll ==
    \/ NextMutexWord
    \/ OnlyCallOnce(CO!Next)
    \/ OnlySyncObjects(SO!Next)
    \/ OnlyThreadIdentity(TI!Next)
    \/ OnlyFlag(Fl!Next)
    \/ NextHashSet
    \/ OnlyStructures

Process(n) ==
    \/ n \in Callers /\ OnlyCallOnce(CO!Step(n))
    \/ OnlySyncObjects(SO!Step(n))
    \/ n \in Waiters /\ OnlyThreadIdentity(TI!WaitStep(n))
    \/ n \in Identities /\ OnlyThreadIdentity(TI!WakeStep(n))
    \/ n \in FlagUsers /\ OnlyFlag(Fl!Step(n))

SpecAll == InitAll /\ [][NextAll]_allVars /\ \A n \in 1..4 : WF_allVars(Process(n))

-----------------------------------------------------------------------------

\* RawHashSet: find reaches every element, growth_left counts elements and
\* tombstones, and the cloned control bytes agree with the originals.
HashSetInv ==
    part = "RawHashSet" =>
        HS!TypeOK /\ HS!EveryElementFound /\ HS!GrowthIsCounted /\ HS!ClonesAgree

\* The call of the n-th process that has to return, and whether it has.
Called(n) ==
    CASE part = "CallOnce"       -> n \in Callers /\ once_pc[n] = "impl"
      [] part = "ThreadIdentity" -> n \in Waiters /\ ti_pc[n] \in {"check", "wait"}
                                    /\ thread_identity_ptr[n] \in dequeued
      [] part = "SyncObjects"    -> TRUE
      [] part = "Flag"           -> n \in FlagUsers
      [] OTHER                   -> FALSE
Returned(n) ==
    CASE part = "CallOnce"       -> thrown > 0
                                    \/ (n \in Callers /\ once_pc[n] \in {"idle", "thrown"})
      [] part = "ThreadIdentity" -> n \in Waiters /\ ti_pc[n] = "run"
      [] part = "SyncObjects"    -> so_pc[n] \in SO!Finished
      [] part = "Flag"           -> n \in FlagUsers /\ fl_pc[n] = "done"
      [] OTHER                   -> FALSE

\* A call_once ends unless an invocation throws, a dequeued thread gets out of
\* Block, and every call on a synchronization object or a flag returns.
EveryCallReturns == [](\A n \in 1..4 : Called(n) => <>Returned(n))
=============================================================================
