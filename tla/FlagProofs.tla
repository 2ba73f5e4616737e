----------------------------- MODULE FlagProofs -----------------------------
(***************************************************************************)
(* What MCFlags states of a flag, proved for any number of threads and any *)
(* calls: FlagInv and FlagSteps.                                           *)
(*                                                                         *)
(* The argument.  A store happens under data_guard_ held exclusively, so   *)
(* that the sequence lock is odd exactly while a thread is inside          *)
(* StoreValue, the last store is the value, and the modification counter   *)
(* tells two values apart (FlagLock, FlagOnce, FlagStores, FlagParity,     *)
(* FlagSaved).  The callback runs without data_guard_; what it read is     *)
(* out of date only while another thread is still to run the callback      *)
(* (FlagGuard, FlagFresh).  Without a callback the lock is held to the end *)
(* of the call, and a value that was set is marked modified (FlagMarked).  *)
(***************************************************************************)
EXTENDS MCFlags, FiniteSetTheorems, TLAPS

\* The cardinality that the instance takes from FiniteSets.
LEMMA FlagCardinality == \A S : Fl!Cardinality(S) = Cardinality(S)
  BY DEF Fl!Cardinality, Cardinality

Ops == {"Get", "Write", "SetValue", "SetIfDefault", "SetDefault", "Restore", "SetCallback"}

ReaderPoints == {"Get", "DataGuard", "MarkInitialized", "Read", "ReaderLock", "ReadLocked", "done"}
SetterPoints == {"DataGuard", "MarkInitialized", "Lock", "Locked", "Stored", "Callback",
                 "CallbackRead", "CallbackUse", "Relock", "Finish", "done"}

FlagTypes ==
    /\ kind \in {"kOneWordAtomic", "kSequenceLocked", "kAlignedBuffer"}
    /\ op \in [FlagUsers -> Ops]
    /\ fl_pc \in [FlagUsers -> ReaderPoints \cup SetterPoints]
    /\ \A t \in FlagUsers : fl_pc[t] \in IF op[t] = "Get" THEN ReaderPoints ELSE SetterPoints
    /\ init_control \in {"kOnceInit", "kOnceRunning", "kOnceDone"}
    /\ data_guard \in [FlagUsers -> {"free", "kShared", "kExclusive"}]
    /\ guard \in FlagUsers \cup {NoUser}
    /\ lock_ \in Int /\ value \in Int /\ stores \in Seq(Int)
    /\ got \in [FlagUsers -> Int] /\ from \in [FlagUsers -> Nat]
    /\ saved = [t \in FlagUsers |-> saved[t]]

\* What each thread holds of data_guard_, and that a writer is alone.
FlagLock ==
    /\ \A t \in FlagUsers :
         /\ data_guard[t] = "kExclusive" <=>
              \/ fl_pc[t] \in {"Locked", "Stored", "Finish"}
              \/ fl_pc[t] = "ReadLocked" /\ kind # "kSequenceLocked"
         /\ data_guard[t] = "kShared" <=> fl_pc[t] = "ReadLocked" /\ kind = "kSequenceLocked"
    /\ \A t, u \in FlagUsers : data_guard[t] = "kExclusive" /\ data_guard[u] # "free" => t = u

\* Nothing happens before Init, and one thread runs it.
FlagOnce ==
    /\ init_control = "kOnceInit" => value = -1 /\ stores = << >>
    /\ init_control = "kOnceDone" => lock_ >= 0
    /\ init_control # "kOnceInit" => value # -1
    /\ init_control # "kOnceDone" =>
         /\ lock_ = -1 /\ seen = 0
         /\ \A t \in FlagUsers :
              /\ saved[t] = << >>
              /\ fl_pc[t] \in {"Get", "DataGuard", "MarkInitialized", "done"}
    /\ \A t \in FlagUsers : fl_pc[t] = "MarkInitialized" => init_control = "kOnceRunning"
    /\ \A t, u \in FlagUsers :
         fl_pc[t] = "MarkInitialized" /\ fl_pc[u] = "MarkInitialized" => t = u

\* The value is the last store, and a value that is not the uninitialized one
\* is a positive number.
FlagStores ==
    /\ value # -1 => value > 0 /\ Len(stores) > 0 /\ stores[Len(stores)] = value
    /\ \A t \in FlagUsers : from[t] <= Len(stores)

\* The sequence lock is odd while a thread is inside StoreValue.
FlagParity ==
    kind = "kSequenceLocked" /\ init_control = "kOnceDone" =>
        (Fl!Odd(lock_) <=> \E t \in FlagUsers : fl_pc[t] = "Stored")

\* A saved state is no newer than the flag, and has its value if the
\* modification counters agree.
FlagSaved ==
    \A t \in FlagUsers :
        /\ saved[t] # << >> =>
             /\ saved[t].value \in Int /\ saved[t].value > 0
             /\ saved[t].counter \in Int /\ saved[t].counter <= lock_ \div 2
             /\ saved[t].counter = lock_ \div 2 => saved[t].value = value
        /\ op[t] = "Restore" /\ fl_pc[t] \in {"Stored", "Callback", "CallbackRead", "CallbackUse",
                                              "Relock", "Finish"} => saved[t] # << >>

FlagBits ==
    /\ modified_ \in BOOLEAN /\ on_command_line_ \in BOOLEAN
    /\ callback_ \in BOOLEAN /\ user_set \in BOOLEAN
    /\ \A t \in FlagUsers :
         saved[t] # << >> =>
             /\ saved[t].modified \in BOOLEAN /\ saved[t].on_command_line \in BOOLEAN
             /\ saved[t].user_set \in BOOLEAN

\* callback_->guard is held by the thread in the callback.
FlagGuard ==
    /\ \A t \in FlagUsers : fl_pc[t] \in {"CallbackRead", "CallbackUse"} <=> guard = t
    /\ \A t \in FlagUsers :
         fl_pc[t] \in {"Callback", "CallbackRead", "CallbackUse", "Relock"} => callback_
    /\ seen # 0 => callback_

\* What a callback has read, and what the last one saw, is the value unless a
\* callback is still to come.
FlagFresh ==
    /\ \A t \in FlagUsers :
         fl_pc[t] = "CallbackUse" =>
            got[t] = value \/ \E u \in FlagUsers : fl_pc[u] \in {"Stored", "Callback"}
    /\ seen # 0 =>
         \/ seen = value
         \/ \E u \in FlagUsers : fl_pc[u] \in {"Stored", "Callback", "CallbackRead", "CallbackUse"}

\* Without a callback, a value that a client set is marked modified.
FlagMarked ==
    ~callback_ =>
        /\ user_set => modified_
        /\ \A t \in FlagUsers :
             /\ saved[t] # << >> /\ saved[t].user_set => saved[t].modified
             /\ op[t] = "SetDefault" /\ fl_pc[t] \in {"Stored", "Finish"} => ~user_set
             /\ op[t] = "Restore" /\ fl_pc[t] = "Finish" /\ user_set => saved[t].user_set

\* The inductive invariant.
FlagIInv ==
    /\ FlagTypes /\ FlagLock /\ FlagOnce /\ FlagStores /\ FlagParity /\ FlagSaved /\ FlagBits
    /\ FlagGuard /\ FlagFresh /\ FlagMarked /\ Fl!ReadsAreCurrent

-----------------------------------------------------------------------------
(***************************************************************************)
(* Lemmas about the operators                                              *)
(***************************************************************************)

\* The sequence counter and the modification counter, which is half of it.
LEMMA Counters ==
    ASSUME NEW n \in Int
    PROVE  /\ n \div 2 \in Int
           /\ Fl!Odd(n) => ~Fl!Odd(n + 1) /\ (n + 1) \div 2 = n \div 2 + 1
           /\ ~Fl!Odd(n) => Fl!Odd(n + 1) /\ (n + 1) \div 2 = n \div 2
           /\ (n + 2) \div 2 = n \div 2 + 1
  BY DEF Fl!Odd

\* What StoreValue stores is a positive number.
LEMMA StoreSourcePositive ==
    ASSUME FlagTypes, FlagSaved, NEW t \in FlagUsers,
           op[t] = "Restore" => saved[t] # << >>
    PROVE  Fl!StoreSource(t) \in Int /\ Fl!StoreSource(t) > 0
<1>1. CASE op[t] = "Restore"
  BY <1>1 DEF Fl!StoreSource, FlagSaved
<1>2. CASE op[t] # "Restore"
  <2> DEFINE I == 1..Len(stores)
             S == {stores[i] : i \in I}
  <2>1. IsFiniteSet(I)
    <3>1. Len(stores) \in Int
      BY DEF FlagTypes
    <3> QED BY <3>1, FS_Interval
  <2>2. IsFiniteSet(S)
    <3>1. [i \in I |-> stores[i]] \in Surjection(I, S)
      BY DEF Surjection
    <3> QED BY <2>1, <3>1, FS_Surjection
  <2>3. Cardinality(S) \in Nat
    BY <2>2, FS_CardinalityType
  <2>4. Fl!StoreSource(t) = Cardinality(S) + 1
    BY <1>2, FlagCardinality DEF Fl!StoreSource
  <2> QED
    <3> HIDE DEF S
    <3> QED BY <2>3, <2>4
<1> QED BY <1>1, <1>2

\* A store is the last of the stores.
LEMMA LastStore ==
    ASSUME NEW s \in Seq(Int), NEW x \in Int
    PROVE  /\ Append(s, x) \in Seq(Int) /\ Len(Append(s, x)) = Len(s) + 1 /\ Len(s) \in Nat
           /\ Append(s, x)[Len(s) + 1] = x
           /\ \A i \in 1..Len(s) : Append(s, x)[i] = s[i]
  OBVIOUS

\* What can be read without the lock is initialized.
LEMMA ReadableIsInitialized ==
    ASSUME FlagTypes, FlagOnce, Fl!Readable
    PROVE  value # -1
<1>1. CASE value # Fl!Uninitialized
  BY <1>1 DEF Fl!Uninitialized
<1>2. CASE ~Fl!Odd(lock_)
  <2>1. lock_ # -1
    BY <1>2 DEF Fl!Odd
  <2> QED BY <2>1 DEF FlagOnce
<1> QED BY <1>1, <1>2 DEF Fl!Readable

\* A step of one thread that removes no store keeps what the other reads found.
LEMMA ReadsStayCurrent ==
    ASSUME FlagTypes, Fl!ReadsAreCurrent, NEW t \in FlagUsers, op' = op,
           Len(stores') \in Nat, Len(stores) <= Len(stores'),
           \A i \in 1..Len(stores) : stores'[i] = stores[i],
           \A u \in FlagUsers :
              u # t => fl_pc'[u] = fl_pc[u] /\ got'[u] = got[u] /\ from'[u] = from[u],
           op[t] = "Get" /\ fl_pc'[t] = "done" =>
              \E i \in 1..Len(stores') : i >= from'[t] /\ stores'[i] = got'[t]
    PROVE  Fl!ReadsAreCurrent'
<1>1. Len(stores) \in Nat
  BY DEF FlagTypes
<1>2. ASSUME NEW u \in FlagUsers, op[u] = "Get", fl_pc'[u] = "done"
      PROVE  \E i \in 1..Len(stores') : i >= from'[u] /\ stores'[i] = got'[u]
  <2>1. CASE u # t
    <3>1. PICK i \in 1..Len(stores) : i >= from[u] /\ stores[i] = got[u]
      BY <1>2, <2>1 DEF Fl!ReadsAreCurrent
    <3>2. i \in 1..Len(stores')
      BY <1>1
    <3> QED BY <2>1, <3>1, <3>2
  <2>2. CASE u = t
    BY <1>2, <2>2
  <2> QED BY <2>1, <2>2
<1> QED BY <1>2 DEF Fl!ReadsAreCurrent

\* What a read finds is the last store.
LEMMA ValueIsCurrent ==
    ASSUME FlagTypes, FlagStores, value # -1, NEW n \in Nat, n <= Len(stores)
    PROVE  \E i \in 1..Len(stores) : i >= n /\ stores[i] = value
<1>1. Len(stores) \in Nat /\ Len(stores) > 0 /\ stores[Len(stores)] = value
  BY DEF FlagTypes, FlagStores
<1>2. Len(stores) \in 1..Len(stores)
  BY <1>1
<1> QED BY <1>1, <1>2

-----------------------------------------------------------------------------
(***************************************************************************)
(* The invariant                                                           *)
(***************************************************************************)

\* The initial states satisfy it.
LEMMA FlagInitInv == Fl!Init => FlagIInv
<1> SUFFICES ASSUME Fl!Init PROVE FlagIInv
  OBVIOUS
<1> USE FlagAssumption DEF Fl!Init, Fl!Lock!Init, Fl!Uninitialized
<1>0. /\ kind \in {"kOneWordAtomic", "kSequenceLocked", "kAlignedBuffer"}
      /\ callback_ \in BOOLEAN /\ op \in [FlagUsers -> Ops]
  BY DEF Ops
<1>1. FlagTypes
  BY <1>0 DEF FlagTypes, Ops, ReaderPoints, SetterPoints
<1>2. FlagLock
  BY <1>0 DEF FlagLock
<1>3. FlagOnce
  BY <1>0 DEF FlagOnce
<1>4. FlagStores
  BY <1>0 DEF FlagStores
<1>5. FlagParity
  BY DEF FlagParity
<1>6. FlagSaved
  BY DEF FlagSaved
<1>7. FlagBits
  BY <1>0 DEF FlagBits
<1>8. FlagGuard
  BY DEF FlagGuard
<1>9. FlagFresh
  BY DEF FlagFresh
<1>10. FlagMarked
  BY DEF FlagMarked
<1>11. Fl!ReadsAreCurrent
  BY DEF Fl!ReadsAreCurrent
<1> QED
  BY <1>1, <1>2, <1>3, <1>4, <1>5, <1>6, <1>7, <1>8, <1>9, <1>10, <1>11 DEF FlagIInv

\* Init stores the default value.
LEMMA InitValueInv ==
    ASSUME FlagIInv, NEW t \in FlagUsers, Fl!InitValue(t)
    PROVE  FlagIInv'
<1> USE DEF FlagIInv
<1> USE DEF Fl!InitValue, Fl!Goto, Fl!call, Fl!store, Fl!bits, Fl!locks
<1>a. /\ init_control = "kOnceInit" /\ stores = << >> /\ seen = 0
      /\ \A u \in FlagUsers : saved[u] = << >>
                                /\ fl_pc[u] \in {"Get", "DataGuard", "MarkInitialized", "done"}
  BY DEF FlagOnce
<1>b. Len(stores) = 0 /\ Len(<<1>>) = 1 /\ <<1>>[1] = 1
  BY <1>a
<1>1. FlagTypes'
  BY DEF FlagTypes, Ops, ReaderPoints, SetterPoints
<1>2. FlagLock'
  BY DEF FlagTypes, FlagLock
<1>3. FlagOnce'
  BY DEF FlagTypes, FlagOnce
<1>4. FlagStores'
  <2>1. \A u \in FlagUsers : from'[u] = 0
    BY <1>a, <1>b DEF FlagTypes, FlagStores
  <2> QED BY <1>b, <2>1 DEF FlagStores
<1>5. FlagParity'
  BY DEF FlagTypes, FlagLock, FlagOnce, FlagParity
<1>6. FlagSaved'
  BY <1>a DEF FlagTypes, FlagSaved
<1>7. FlagBits'
  BY DEF FlagBits, FlagTypes
<1>8. FlagGuard'
  BY DEF FlagTypes, FlagGuard
<1>9. FlagFresh'
  BY <1>a DEF FlagTypes, FlagFresh
<1>10. FlagMarked'
  BY DEF FlagTypes, FlagLock, FlagMarked, FlagGuard
<1>11. Fl!ReadsAreCurrent'
  BY <1>a, <1>b, ReadsStayCurrent DEF FlagTypes
<1> QED
  BY <1>1, <1>2, <1>3, <1>4, <1>5, <1>6, <1>7, <1>8, <1>9, <1>10, <1>11

\* Init is over.
LEMMA MarkInitializedInv ==
    ASSUME FlagIInv, NEW t \in FlagUsers, Fl!MarkInitialized(t)
    PROVE  FlagIInv'
<1> USE DEF FlagIInv
<1> USE DEF Fl!MarkInitialized, Fl!Goto, Fl!call, Fl!store, Fl!bits, Fl!locks
<1>a. /\ init_control # "kOnceDone"
      /\ \A u \in FlagUsers : saved[u] = << >> /\ fl_pc[u] # "Stored"
  BY DEF FlagOnce
<1>1. FlagTypes'
  BY DEF FlagTypes, Ops, ReaderPoints, SetterPoints
<1>2. FlagLock'
  BY DEF FlagTypes, FlagLock
<1>3. FlagOnce'
  BY DEF FlagTypes, FlagOnce
<1>4. FlagStores'
  BY DEF FlagTypes, FlagStores
<1>5. FlagParity'
  <2>1. ~Fl!Odd(0)
    BY DEF Fl!Odd
  <2> QED BY <1>a, <2>1 DEF FlagTypes, FlagParity
<1>6. FlagSaved'
  BY <1>a DEF FlagTypes, FlagSaved
<1>7. FlagBits'
  BY DEF FlagBits, FlagTypes
<1>8. FlagGuard'
  BY DEF FlagTypes, FlagGuard
<1>9. FlagFresh'
  BY DEF FlagTypes, FlagFresh, FlagGuard
<1>10. FlagMarked'
  BY DEF FlagTypes, FlagLock, FlagMarked, FlagGuard
<1>11. Fl!ReadsAreCurrent'
  BY DEF FlagTypes, Fl!ReadsAreCurrent, FlagStores
<1> QED
  BY <1>1, <1>2, <1>3, <1>4, <1>5, <1>6, <1>7, <1>8, <1>9, <1>10, <1>11

\* DataGuard returns when Init is over.
LEMMA DataGuardInv ==
    ASSUME FlagIInv, NEW t \in FlagUsers, Fl!DataGuard(t)
    PROVE  FlagIInv'
<1> USE DEF FlagIInv
<1> USE DEF Fl!DataGuard, Fl!Goto, Fl!call, Fl!store, Fl!bits, Fl!locks
<1>1. FlagTypes'
  BY DEF FlagTypes, Ops, ReaderPoints, SetterPoints
<1>2. FlagLock'
  BY DEF FlagTypes, FlagLock
<1>3. FlagOnce'
  BY DEF FlagTypes, FlagOnce
<1>4. FlagStores'
  BY DEF FlagTypes, FlagStores
<1>5. FlagParity'
  BY DEF FlagTypes, FlagLock, FlagOnce, FlagParity
<1>6. FlagSaved'
  BY DEF FlagTypes, FlagSaved
<1>7. FlagBits'
  BY DEF FlagBits, FlagTypes
<1>8. FlagGuard'
  BY DEF FlagTypes, FlagGuard
<1>9. FlagFresh'
  BY DEF FlagTypes, FlagFresh, FlagGuard
<1>10. FlagMarked'
  BY DEF FlagTypes, FlagLock, FlagMarked, FlagGuard
<1>11. Fl!ReadsAreCurrent'
  BY DEF FlagTypes, Fl!ReadsAreCurrent, FlagStores
<1> QED
  BY <1>1, <1>2, <1>3, <1>4, <1>5, <1>6, <1>7, <1>8, <1>9, <1>10, <1>11

\* Flag::Get tries without the lock.
LEMMA GetInv ==
    ASSUME FlagIInv, NEW t \in FlagUsers, Fl!Get(t)
    PROVE  FlagIInv'
<1> USE DEF FlagIInv
<1> USE DEF Fl!Get, Fl!Goto, Fl!call, Fl!store, Fl!bits, Fl!locks,
            Fl!FastRead, Fl!Readable, Fl!Uninitialized
<1>a. Len(stores) \in Nat /\ from' = [from EXCEPT ![t] = Len(stores)] /\ stores' = stores
  BY DEF FlagTypes
<1>b. Fl!Readable => value # -1
  BY ReadableIsInitialized
<1>1. FlagTypes'
  <2>1. from' \in [FlagUsers -> Nat] /\ got' \in [FlagUsers -> Int]
    BY <1>a DEF FlagTypes
  <2>2. \/ fl_pc' = [fl_pc EXCEPT ![t] = "done"]
        \/ fl_pc' = [fl_pc EXCEPT ![t] = "DataGuard"]
    OBVIOUS
  <2>3. /\ fl_pc' \in [FlagUsers -> ReaderPoints \cup SetterPoints]
        /\ \A u \in FlagUsers :
              fl_pc'[u] \in IF op[u] = "Get" THEN ReaderPoints ELSE SetterPoints
    BY <2>2 DEF FlagTypes, ReaderPoints, SetterPoints
  <2> QED BY <2>1, <2>3 DEF FlagTypes
<1>2. FlagLock'
  BY DEF FlagTypes, FlagLock
<1>3. FlagOnce'
  <2>1. \A u \in FlagUsers : fl_pc'[u] = fl_pc[u] \/ fl_pc'[u] \in {"done", "DataGuard"}
    BY DEF FlagTypes
  <2>2. UNCHANGED <<init_control, lock_, value, stores, seen, saved>>
    OBVIOUS
  <2> HIDE DEF Fl!Get
  <2> QED BY <2>1, <2>2 DEF FlagOnce
<1>4. FlagStores'
  BY DEF FlagTypes, FlagStores
<1>5. FlagParity'
  BY DEF FlagTypes, FlagLock, FlagOnce, FlagParity
<1>6. FlagSaved'
  BY DEF FlagTypes, FlagSaved
<1>7. FlagBits'
  BY DEF FlagBits, FlagTypes
<1>8. FlagGuard'
  BY DEF FlagTypes, FlagGuard
<1>9. FlagFresh'
  BY DEF FlagTypes, FlagFresh, FlagGuard
<1>10. FlagMarked'
  BY DEF FlagTypes, FlagLock, FlagMarked, FlagGuard
<1>11. Fl!ReadsAreCurrent'
  <2>1. fl_pc'[t] = "done" => got'[t] = value /\ value # -1
    BY <1>b DEF FlagTypes
  <2>2. from'[t] = Len(stores) /\ \A u \in FlagUsers \ {t} : from'[u] = from[u]
    BY <1>a DEF FlagTypes
  <2>3. \A u \in FlagUsers \ {t} : fl_pc'[u] = fl_pc[u] /\ got'[u] = got[u]
    BY DEF FlagTypes
  <2>4. value # -1 => \E i \in 1..Len(stores) : i >= Len(stores) /\ stores[i] = value
    <3>1. Len(stores) <= Len(stores)
      BY <1>a
    <3> QED BY <1>a, <3>1, ValueIsCurrent
  <2>5. op' = op
    OBVIOUS
  <2> QED BY <1>a, <2>1, <2>2, <2>3, <2>4, <2>5, ReadsStayCurrent
<1> QED
  BY <1>1, <1>2, <1>3, <1>4, <1>5, <1>6, <1>7, <1>8, <1>9, <1>10, <1>11

\* FlagImpl::Read tries again without the lock.
LEMMA ReadInv ==
    ASSUME FlagIInv, NEW t \in FlagUsers, Fl!Read(t)
    PROVE  FlagIInv'
<1> USE DEF FlagIInv
<1> USE DEF Fl!Read, Fl!Goto, Fl!call, Fl!store, Fl!bits, Fl!locks,
            Fl!FastRead, Fl!Readable, Fl!Uninitialized
<1>b. Fl!Readable => value # -1
  BY ReadableIsInitialized
<1>1. FlagTypes'
  <2>1. got' \in [FlagUsers -> Int]
    BY DEF FlagTypes
  <2>2. /\ \/ fl_pc' = [fl_pc EXCEPT ![t] = "done"]
           \/ fl_pc' = [fl_pc EXCEPT ![t] = "ReaderLock"]
        /\ fl_pc[t] = "Read"
    OBVIOUS
  <2>3. /\ fl_pc' \in [FlagUsers -> ReaderPoints \cup SetterPoints]
        /\ \A u \in FlagUsers :
              fl_pc'[u] \in IF op[u] = "Get" THEN ReaderPoints ELSE SetterPoints
    BY <2>2 DEF FlagTypes, ReaderPoints, SetterPoints
  <2> QED BY <2>1, <2>3 DEF FlagTypes
<1>2. FlagLock'
  BY DEF FlagTypes, FlagLock
<1>3. FlagOnce'
  BY DEF FlagTypes, FlagOnce
<1>4. FlagStores'
  BY DEF FlagTypes, FlagStores
<1>5. FlagParity'
  BY DEF FlagTypes, FlagLock, FlagOnce, FlagParity
<1>6. FlagSaved'
  BY DEF FlagTypes, FlagSaved
<1>7. FlagBits'
  BY DEF FlagBits, FlagTypes
<1>8. FlagGuard'
  BY DEF FlagTypes, FlagGuard
<1>9. FlagFresh'
  BY DEF FlagTypes, FlagFresh, FlagGuard
<1>10. FlagMarked'
  BY DEF FlagTypes, FlagLock, FlagMarked, FlagGuard
<1>11. Fl!ReadsAreCurrent'
  <2>1. fl_pc'[t] = "done" => got'[t] = value /\ value # -1
    BY <1>b DEF FlagTypes
  <2>2. Len(stores) \in Nat /\ from[t] \in Nat /\ from[t] <= Len(stores)
    BY DEF FlagTypes, FlagStores
  <2>3. \A u \in FlagUsers \ {t} : fl_pc'[u] = fl_pc[u] /\ got'[u] = got[u]
    BY DEF FlagTypes
  <2>4. value # -1 => \E i \in 1..Len(stores) : i >= from[t] /\ stores[i] = value
    BY <2>2, ValueIsCurrent
  <2>5. op' = op /\ from' = from /\ stores' = stores
    OBVIOUS
  <2> QED BY <2>1, <2>2, <2>3, <2>4, <2>5, ReadsStayCurrent
<1> QED
  BY <1>1, <1>2, <1>3, <1>4, <1>5, <1>6, <1>7, <1>8, <1>9, <1>10, <1>11

\* The read takes the lock.
LEMMA ReaderLockInv ==
    ASSUME FlagIInv, NEW t \in FlagUsers, Fl!ReaderLock(t)
    PROVE  FlagIInv'
<1> USE DEF FlagIInv
<1> USE DEF Fl!ReaderLock, Fl!Goto, Fl!call, Fl!store, Fl!bits, Fl!locks,
            Fl!Lock!AcquireExclusive, Fl!Lock!AcquireShared, Fl!Lock!Release
<1>1. FlagTypes'
  BY DEF FlagTypes, Ops, ReaderPoints, SetterPoints
<1>2. FlagLock'
  BY DEF FlagTypes, FlagLock
<1>3. FlagOnce'
  BY DEF FlagTypes, FlagOnce
<1>4. FlagStores'
  BY DEF FlagTypes, FlagStores
<1>5. FlagParity'
  BY DEF FlagTypes, FlagLock, FlagOnce, FlagParity
<1>6. FlagSaved'
  BY DEF FlagTypes, FlagSaved
<1>7. FlagBits'
  BY DEF FlagBits, FlagTypes
<1>8. FlagGuard'
  BY DEF FlagTypes, FlagGuard
<1>9. FlagFresh'
  BY DEF FlagTypes, FlagFresh, FlagGuard
<1>10. FlagMarked'
  BY DEF FlagTypes, FlagLock, FlagMarked, FlagGuard
<1>11. Fl!ReadsAreCurrent'
  BY DEF FlagTypes, Fl!ReadsAreCurrent, FlagStores
<1> QED
  BY <1>1, <1>2, <1>3, <1>4, <1>5, <1>6, <1>7, <1>8, <1>9, <1>10, <1>11

\* With the lock held the read finds no store in progress.
LEMMA ReadLockedInv ==
    ASSUME FlagIInv, NEW t \in FlagUsers, Fl!ReadLocked(t)
    PROVE  FlagIInv'
<1> USE DEF FlagIInv
<1> USE DEF Fl!ReadLocked, Fl!Goto, Fl!call, Fl!store, Fl!bits, Fl!locks,
            Fl!Lock!AcquireExclusive, Fl!Lock!AcquireShared, Fl!Lock!Release,
            Fl!Current, Fl!Uninitialized
<1>b. Fl!Current = value /\ value # -1
  BY DEF FlagTypes, FlagLock, FlagOnce, FlagParity
<1>1. FlagTypes'
  BY DEF FlagTypes, Ops, ReaderPoints, SetterPoints
<1>2. FlagLock'
  BY DEF FlagTypes, FlagLock
<1>3. FlagOnce'
  BY DEF FlagTypes, FlagOnce
<1>4. FlagStores'
  BY DEF FlagTypes, FlagStores
<1>5. FlagParity'
  BY DEF FlagTypes, FlagLock, FlagOnce, FlagParity
<1>6. FlagSaved'
  BY DEF FlagTypes, FlagSaved
<1>7. FlagBits'
  BY DEF FlagBits, FlagTypes
<1>8. FlagGuard'
  BY DEF FlagTypes, FlagGuard
<1>9. FlagFresh'
  BY DEF FlagTypes, FlagFresh, FlagGuard
<1>10. FlagMarked'
  BY DEF FlagTypes, FlagLock, FlagMarked, FlagGuard
<1>11. Fl!ReadsAreCurrent'
  <2>1. got'[t] = value /\ value # -1
    BY <1>b DEF FlagTypes
  <2>2. Len(stores) \in Nat /\ from[t] \in Nat /\ from[t] <= Len(stores)
    BY DEF FlagTypes, FlagStores
  <2>3. \A u \in FlagUsers \ {t} : fl_pc'[u] = fl_pc[u] /\ got'[u] = got[u]
    BY DEF FlagTypes
  <2>4. \E i \in 1..Len(stores) : i >= from[t] /\ stores[i] = value
    BY <2>1, <2>2, ValueIsCurrent
  <2>5. op' = op /\ from' = from /\ stores' = stores
    OBVIOUS
  <2> QED BY <2>1, <2>2, <2>3, <2>4, <2>5, ReadsStayCurrent
<1> QED
  BY <1>1, <1>2, <1>3, <1>4, <1>5, <1>6, <1>7, <1>8, <1>9, <1>10, <1>11

\* A call takes the lock.
LEMMA AcquireInv ==
    ASSUME FlagIInv, NEW t \in FlagUsers, Fl!Acquire(t)
    PROVE  FlagIInv'
<1> USE DEF FlagIInv
<1> USE DEF Fl!Acquire, Fl!Goto, Fl!call, Fl!store, Fl!bits, Fl!locks,
            Fl!Lock!AcquireExclusive, Fl!Lock!AcquireShared, Fl!Lock!Release
<1>1. FlagTypes'
  BY DEF FlagTypes, Ops, ReaderPoints, SetterPoints
<1>2. FlagLock'
  BY DEF FlagTypes, FlagLock
<1>3. FlagOnce'
  BY DEF FlagTypes, FlagOnce
<1>4. FlagStores'
  BY DEF FlagTypes, FlagStores
<1>5. FlagParity'
  BY DEF FlagTypes, FlagLock, FlagOnce, FlagParity
<1>6. FlagSaved'
  BY DEF FlagTypes, FlagSaved
<1>7. FlagBits'
  BY DEF FlagBits, FlagTypes
<1>8. FlagGuard'
  BY DEF FlagTypes, FlagGuard
<1>9. FlagFresh'
  BY DEF FlagTypes, FlagFresh, FlagGuard
<1>10. FlagMarked'
  BY DEF FlagTypes, FlagLock, FlagMarked, FlagGuard
<1>11. Fl!ReadsAreCurrent'
  BY DEF FlagTypes, Fl!ReadsAreCurrent, FlagStores
<1> QED
  BY <1>1, <1>2, <1>3, <1>4, <1>5, <1>6, <1>7, <1>8, <1>9, <1>10, <1>11

\* A call ends without a store.
LEMMA ReturnInv ==
    ASSUME FlagIInv, NEW t \in FlagUsers, Fl!Return(t),
           fl_pc[t] = "Locked"
    PROVE  FlagIInv'
<1> USE DEF FlagIInv
<1> USE DEF Fl!Return, Fl!Goto, Fl!call, Fl!store, Fl!bits, Fl!locks,
            Fl!Lock!AcquireExclusive, Fl!Lock!AcquireShared, Fl!Lock!Release
<1>1. FlagTypes'
  BY DEF FlagTypes, Ops, ReaderPoints, SetterPoints
<1>2. FlagLock'
  BY DEF FlagTypes, FlagLock
<1>3. FlagOnce'
  BY DEF FlagTypes, FlagOnce
<1>4. FlagStores'
  BY DEF FlagTypes, FlagStores
<1>5. FlagParity'
  BY DEF FlagTypes, FlagLock, FlagOnce, FlagParity
<1>6. FlagSaved'
  BY DEF FlagTypes, FlagSaved
<1>7. FlagBits'
  BY DEF FlagBits, FlagTypes
<1>8. FlagGuard'
  BY DEF FlagTypes, FlagGuard
<1>9. FlagFresh'
  BY DEF FlagTypes, FlagFresh, FlagGuard
<1>10. FlagMarked'
  BY DEF FlagTypes, FlagLock, FlagMarked, FlagGuard
<1>11. Fl!ReadsAreCurrent'
  BY DEF FlagTypes, ReaderPoints, Fl!ReadsAreCurrent
<1> QED
  BY <1>1, <1>2, <1>3, <1>4, <1>5, <1>6, <1>7, <1>8, <1>9, <1>10, <1>11

\* A store begins.
LEMMA StoreValueInv ==
    ASSUME FlagIInv, NEW t \in FlagUsers, Fl!StoreValue(t),
           fl_pc[t] = "Locked", op[t] \in Ops \ {"Get", "SetCallback"},
           op[t] = "SetDefault" => ~modified_, op[t] = "Restore" => saved[t] # << >>
    PROVE  FlagIInv'
<1> USE DEF FlagIInv
<1> USE DEF Fl!Goto
<1>a. /\ fl_pc' = [fl_pc EXCEPT ![t] = "Stored"]
      /\ UNCHANGED <<kind, op, init_control, modified_, on_command_line_, user_set,
                     callback_, data_guard, guard, got, saved, from, seen>>
  BY DEF Fl!StoreValue, Fl!call, Fl!bits, Fl!locks
<1>b. Fl!StoreSource(t) \in Int /\ Fl!StoreSource(t) > 0
  BY StoreSourcePositive
<1>c. /\ init_control = "kOnceDone" /\ value # -1 /\ lock_ >= 0
      /\ \A u \in FlagUsers : fl_pc[u] # "Stored"
  BY DEF FlagTypes, FlagLock, FlagOnce
<1>d. \/ /\ kind = "kSequenceLocked" /\ value' = value /\ stores' = stores /\ lock_' = lock_ + 1
         /\ Fl!Odd(lock_') /\ lock_' \div 2 = lock_ \div 2
      \/ /\ kind # "kSequenceLocked" /\ lock_' = lock_ + 2
         /\ lock_' \div 2 = lock_ \div 2 + 1
         /\ value' = Fl!StoreSource(t) /\ stores' = Append(stores, value')
  <2>1. CASE kind = "kSequenceLocked"
    <3>1. ~Fl!Odd(lock_) /\ lock_ \in Int
      BY <1>c, <2>1 DEF FlagParity, FlagTypes
    <3>2. value' = value /\ stores' = stores /\ lock_' = lock_ + 1
      BY <2>1 DEF Fl!StoreValue
    <3> QED BY <2>1, <3>1, <3>2, Counters
  <2>2. CASE kind # "kSequenceLocked"
    <3>1. lock_' = lock_ + 2 /\ value' = Fl!StoreSource(t) /\ stores' = Append(stores, value')
      BY <2>2 DEF Fl!StoreValue, Fl!Put
    <3>2. lock_ \in Int
      BY DEF FlagTypes
    <3> QED BY <2>2, <3>1, <3>2, Counters
  <2> QED BY <2>1, <2>2
<1>e. /\ stores' \in Seq(Int) /\ value' \in Int /\ value' > 0 /\ lock_' \in Int /\ lock_' >= 0
      /\ Len(stores') \in Nat /\ Len(stores) \in Nat /\ Len(stores) <= Len(stores')
      /\ Len(stores') > 0 /\ stores'[Len(stores')] = value'
      /\ \A i \in 1..Len(stores) : stores'[i] = stores[i]
  <2>1. stores \in Seq(Int) /\ Len(stores) \in Nat /\ lock_ \in Int /\ value \in Int
    BY DEF FlagTypes
  <2>2. value > 0 /\ Len(stores) > 0 /\ stores[Len(stores)] = value
    BY <1>c DEF FlagStores
  <2>3. CASE kind = "kSequenceLocked"
    BY <1>c, <1>d, <2>1, <2>2, <2>3
  <2>4. CASE kind # "kSequenceLocked"
    <3>1. /\ stores' = Append(stores, value') /\ value' \in Int /\ value' > 0
          /\ lock_' \in Int /\ lock_' >= 0
      BY <1>b, <1>c, <1>d, <2>1, <2>4
    <3>2. /\ stores' \in Seq(Int) /\ Len(stores') = Len(stores) + 1
          /\ stores'[Len(stores) + 1] = value'
          /\ \A i \in 1..Len(stores) : stores'[i] = stores[i]
      BY <2>1, <3>1, LastStore
    <3> QED BY <2>1, <3>1, <3>2
  <2> QED BY <2>3, <2>4
<1>1. FlagTypes'
  BY <1>a, <1>e DEF FlagTypes, ReaderPoints, SetterPoints
<1>2. FlagLock'
  BY <1>a DEF FlagTypes, FlagLock
<1>3. FlagOnce'
  BY <1>a, <1>c, <1>e DEF FlagTypes, FlagOnce
<1>4. FlagStores'
  BY <1>a, <1>e DEF FlagTypes, FlagStores
<1>5. FlagParity'
  BY <1>a, <1>d DEF FlagTypes, FlagParity
<1>6. FlagSaved'
  <2>1. lock_ \div 2 \in Int
    BY Counters DEF FlagTypes
  <2>2. CASE value' = value /\ lock_' \div 2 = lock_ \div 2
    BY <1>a, <2>2 DEF FlagTypes, FlagSaved
  <2>3. CASE lock_' \div 2 = lock_ \div 2 + 1
    BY <1>a, <2>1, <2>3 DEF FlagTypes, FlagSaved
  <2> QED BY <1>d, <2>2, <2>3
<1>7. FlagBits'
  BY <1>a DEF FlagBits, FlagTypes
<1>8. FlagGuard'
  BY <1>a DEF FlagTypes, FlagGuard
<1>9. FlagFresh'
  BY <1>a DEF FlagTypes, FlagFresh
<1>10. FlagMarked'
  BY <1>a DEF FlagTypes, FlagMarked
<1>11. Fl!ReadsAreCurrent'
  <2>1. \A u \in FlagUsers \ {t} : fl_pc'[u] = fl_pc[u] /\ got'[u] = got[u] /\ from'[u] = from[u]
    BY <1>a DEF FlagTypes
  <2>2. op' = op /\ fl_pc'[t] # "done"
    BY <1>a DEF FlagTypes
  <2> QED BY <1>e, <2>1, <2>2, ReadsStayCurrent
<1> QED
  BY <1>1, <1>2, <1>3, <1>4, <1>5, <1>6, <1>7, <1>8, <1>9, <1>10, <1>11

\* SaveState copies the flag under the lock.
LEMMA SaveStateInv ==
    ASSUME FlagIInv, NEW t \in FlagUsers, Fl!SaveState(t)
    PROVE  FlagIInv'
<1> USE DEF FlagIInv
<1> USE DEF Fl!SaveState, Fl!Goto, Fl!call, Fl!store, Fl!bits, Fl!locks,
            Fl!Lock!AcquireExclusive, Fl!Lock!AcquireShared, Fl!Lock!Release,
            Fl!Current, Fl!Uninitialized
<1>1. FlagTypes'
  BY DEF FlagTypes, Ops, ReaderPoints, SetterPoints
<1>2. FlagLock'
  BY DEF FlagTypes, FlagLock
<1>3. FlagOnce'
  BY DEF FlagTypes, FlagOnce
<1>4. FlagStores'
  BY DEF FlagTypes, FlagStores
<1>5. FlagParity'
  BY DEF FlagTypes, FlagLock, FlagOnce, FlagParity
<1>6. FlagSaved'
  <2>1. Fl!Current = value /\ value \in Int /\ value > 0 /\ lock_ \div 2 \in Int
    BY Counters DEF FlagTypes, FlagLock, FlagOnce, FlagParity, FlagStores
  <2>2. /\ saved'[t].value = value /\ saved'[t].counter = lock_ \div 2
        /\ \A u \in FlagUsers \ {t} : saved'[u] = saved[u]
        /\ fl_pc' = [fl_pc EXCEPT ![t] = "Lock"] /\ UNCHANGED <<op, lock_, value>>
    BY <2>1 DEF FlagTypes
  <2> QED BY SMTT(30), <2>1, <2>2 DEF FlagTypes, FlagSaved
<1>7. FlagBits'
  BY DEF FlagBits, FlagTypes
<1>8. FlagGuard'
  BY DEF FlagTypes, FlagGuard
<1>9. FlagFresh'
  BY DEF FlagTypes, FlagFresh, FlagGuard
<1>10. FlagMarked'
  BY DEF FlagTypes, FlagLock, FlagMarked, FlagGuard
<1>11. Fl!ReadsAreCurrent'
  BY DEF FlagTypes, Fl!ReadsAreCurrent, FlagStores
<1> QED
  BY <1>1, <1>2, <1>3, <1>4, <1>5, <1>6, <1>7, <1>8, <1>9, <1>10, <1>11

\* SetCallback registers a callback and is about to run it.
LEMMA SetCallbackInv ==
    ASSUME FlagIInv, NEW t \in FlagUsers, Fl!SetCallback(t)
    PROVE  FlagIInv'
<1> USE DEF FlagIInv
<1> USE DEF Fl!SetCallback, Fl!Goto, Fl!call, Fl!store, Fl!bits, Fl!locks,
            Fl!Lock!AcquireExclusive, Fl!Lock!AcquireShared, Fl!Lock!Release
<1>1. FlagTypes'
  BY DEF FlagTypes, Ops, ReaderPoints, SetterPoints
<1>2. FlagLock'
  BY DEF FlagTypes, FlagLock
<1>3. FlagOnce'
  BY DEF FlagTypes, FlagOnce
<1>4. FlagStores'
  BY DEF FlagTypes, FlagStores
<1>5. FlagParity'
  BY DEF FlagTypes, FlagLock, FlagOnce, FlagParity
<1>6. FlagSaved'
  BY DEF FlagTypes, FlagSaved
<1>7. FlagBits'
  BY DEF FlagBits, FlagTypes
<1>8. FlagGuard'
  BY DEF FlagTypes, FlagGuard
<1>9. FlagFresh'
  BY DEF FlagTypes, FlagFresh, FlagGuard
<1>10. FlagMarked'
  BY DEF FlagTypes, FlagLock, FlagMarked, FlagGuard
<1>11. Fl!ReadsAreCurrent'
  BY DEF FlagTypes, Fl!ReadsAreCurrent, FlagStores
<1> QED
  BY <1>1, <1>2, <1>3, <1>4, <1>5, <1>6, <1>7, <1>8, <1>9, <1>10, <1>11

\* A store ends.
LEMMA StoreValueEndInv ==
    ASSUME FlagIInv, NEW t \in FlagUsers, Fl!StoreValueEnd(t)
    PROVE  FlagIInv'
<1> USE DEF FlagIInv
<1> USE DEF Fl!Goto, Fl!Lock!Release
<1>a. /\ fl_pc[t] = "Stored" /\ op[t] # "Get" /\ modified_' = TRUE
      /\ user_set' = IF op[t] = "Restore" THEN saved[t].user_set
                     ELSE user_set \/ op[t] \in {"Write", "SetValue"}
      /\ UNCHANGED <<kind, op, init_control, on_command_line_, callback_, guard,
                     got, saved, from, seen>>
  BY DEF Fl!StoreValueEnd, Fl!call, FlagTypes, ReaderPoints
<1>b. \/ /\ callback_ /\ fl_pc' = [fl_pc EXCEPT ![t] = "Callback"]
         /\ data_guard' = [data_guard EXCEPT ![t] = "free"]
      \/ /\ ~callback_ /\ fl_pc' = [fl_pc EXCEPT ![t] = "Finish"]
         /\ data_guard' = data_guard
  BY DEF Fl!StoreValueEnd
<1>c. /\ init_control = "kOnceDone" /\ value # -1 /\ lock_ >= 0
      /\ \A u \in FlagUsers : fl_pc[u] = "Stored" => u = t
  BY <1>a DEF FlagTypes, FlagLock, FlagOnce
<1>d. \/ /\ kind = "kSequenceLocked" /\ lock_' = lock_ + 1
         /\ ~Fl!Odd(lock_') /\ lock_' \div 2 = lock_ \div 2 + 1
         /\ value' = Fl!StoreSource(t) /\ stores' = Append(stores, value')
      \/ kind # "kSequenceLocked" /\ UNCHANGED <<lock_, value, stores>>
  <2>1. CASE kind = "kSequenceLocked"
    <3>1. Fl!Odd(lock_) /\ lock_ \in Int
      BY <1>a, <1>c, <2>1 DEF FlagParity, FlagTypes
    <3>2. lock_' = lock_ + 1 /\ value' = Fl!StoreSource(t) /\ stores' = Append(stores, value')
      BY <2>1 DEF Fl!StoreValueEnd, Fl!Put
    <3> QED BY <2>1, <3>1, <3>2, Counters
  <2>2. CASE kind # "kSequenceLocked"
    BY <2>2 DEF Fl!StoreValueEnd, Fl!store
  <2> QED BY <2>1, <2>2
<1>e. /\ stores' \in Seq(Int) /\ value' \in Int /\ value' > 0 /\ lock_' \in Int /\ lock_' >= 0
      /\ Len(stores') \in Nat /\ Len(stores) \in Nat /\ Len(stores) <= Len(stores')
      /\ Len(stores') > 0 /\ stores'[Len(stores')] = value'
      /\ \A i \in 1..Len(stores) : stores'[i] = stores[i]
  <2>1. stores \in Seq(Int) /\ Len(stores) \in Nat /\ lock_ \in Int /\ value \in Int
    BY DEF FlagTypes
  <2>2. value > 0 /\ Len(stores) > 0 /\ stores[Len(stores)] = value
    BY <1>c DEF FlagStores
  <2>3. Fl!StoreSource(t) \in Int /\ Fl!StoreSource(t) > 0
    BY <1>a, StoreSourcePositive DEF FlagSaved
  <2>4. CASE kind # "kSequenceLocked"
    BY <1>c, <1>d, <2>1, <2>2, <2>4
  <2>5. CASE kind = "kSequenceLocked"
    <3>1. /\ stores' = Append(stores, value') /\ value' \in Int /\ value' > 0
          /\ lock_' \in Int /\ lock_' >= 0
      BY <1>c, <1>d, <2>1, <2>3, <2>5
    <3>2. /\ stores' \in Seq(Int) /\ Len(stores') = Len(stores) + 1
          /\ stores'[Len(stores) + 1] = value'
          /\ \A i \in 1..Len(stores) : stores'[i] = stores[i]
      BY <2>1, <3>1, LastStore
    <3> QED BY <2>1, <3>1, <3>2
  <2> QED BY <2>4, <2>5
<1>1. FlagTypes'
  BY <1>a, <1>b, <1>e DEF FlagTypes, ReaderPoints, SetterPoints
<1>2. FlagLock'
  <2>1. data_guard[t] = "kExclusive" /\ kind' = kind
    BY <1>a DEF FlagLock
  <2>2. CASE callback_
    <3>1. /\ fl_pc' = [fl_pc EXCEPT ![t] = "Callback"]
          /\ data_guard' = [data_guard EXCEPT ![t] = "free"]
      BY <1>b, <2>2
    <3> QED BY <2>1, <3>1 DEF FlagTypes, FlagLock
  <2>3. CASE ~callback_
    <3>1. fl_pc' = [fl_pc EXCEPT ![t] = "Finish"] /\ data_guard' = data_guard
      BY <1>b, <2>3
    <3> QED BY <2>1, <3>1 DEF FlagTypes, FlagLock
  <2> QED BY <2>2, <2>3
<1>3. FlagOnce'
  BY <1>a, <1>b, <1>c, <1>e DEF FlagTypes, FlagOnce
<1>4. FlagStores'
  BY <1>a, <1>e DEF FlagTypes, FlagStores
<1>5. FlagParity'
  BY <1>a, <1>b, <1>c, <1>d DEF FlagTypes, FlagParity
<1>6. FlagSaved'
  <2>1. lock_ \div 2 \in Int
    BY Counters DEF FlagTypes
  <2>2. CASE value' = value /\ lock_' = lock_
    BY <1>a, <1>b, <2>2 DEF FlagTypes, FlagSaved
  <2>3. CASE lock_' \div 2 = lock_ \div 2 + 1
    BY SMTT(30), <1>a, <1>b, <2>1, <2>3 DEF FlagTypes, FlagSaved
  <2> QED BY <1>d, <2>2, <2>3
<1>7. FlagBits'
  <2>1. user_set' \in BOOLEAN
    <3>1. CASE op[t] = "Restore"
      <4>1. saved[t] # << >> /\ user_set' = saved[t].user_set
        BY <1>a, <3>1 DEF FlagSaved
      <4> QED BY <4>1 DEF FlagBits
    <3>2. CASE op[t] # "Restore"
      BY <1>a, <3>2
    <3> QED BY <3>1, <3>2
  <2> QED BY <1>a, <2>1 DEF FlagBits
<1>8. FlagGuard'
  BY <1>a, <1>b DEF FlagTypes, FlagGuard
<1>9. FlagFresh'
  BY <1>a, <1>b DEF FlagTypes, FlagFresh, FlagGuard
<1>10. FlagMarked'
  BY <1>a, <1>b, <1>c DEF FlagTypes, FlagLock, FlagMarked
<1>11. Fl!ReadsAreCurrent'
  <2>1. \A u \in FlagUsers \ {t} : fl_pc'[u] = fl_pc[u] /\ got'[u] = got[u] /\ from'[u] = from[u]
    BY <1>a, <1>b DEF FlagTypes
  <2>2. op' = op /\ op[t] # "Get"
    BY <1>a
  <2> QED BY <1>e, <2>1, <2>2, ReadsStayCurrent
<1> QED
  BY <1>1, <1>2, <1>3, <1>4, <1>5, <1>6, <1>7, <1>8, <1>9, <1>10, <1>11

\* A callback begins when no other runs.
LEMMA InvokeCallbackInv ==
    ASSUME FlagIInv, NEW t \in FlagUsers, Fl!InvokeCallback(t)
    PROVE  FlagIInv'
<1> USE DEF FlagIInv
<1> USE DEF Fl!InvokeCallback, Fl!Goto, Fl!call, Fl!store, Fl!bits, Fl!locks
<1>1. FlagTypes'
  BY DEF FlagTypes, Ops, ReaderPoints, SetterPoints
<1>2. FlagLock'
  BY DEF FlagTypes, FlagLock
<1>3. FlagOnce'
  BY DEF FlagTypes, FlagOnce
<1>4. FlagStores'
  BY DEF FlagTypes, FlagStores
<1>5. FlagParity'
  BY DEF FlagTypes, FlagLock, FlagOnce, FlagParity
<1>6. FlagSaved'
  BY DEF FlagTypes, FlagSaved
<1>7. FlagBits'
  BY DEF FlagBits, FlagTypes
<1>8. FlagGuard'
  BY FlagAssumption DEF FlagTypes, FlagGuard
<1>9. FlagFresh'
  BY FlagAssumption DEF FlagTypes, FlagGuard, FlagFresh
<1>10. FlagMarked'
  BY DEF FlagTypes, FlagLock, FlagMarked, FlagGuard
<1>11. Fl!ReadsAreCurrent'
  BY DEF FlagTypes, Fl!ReadsAreCurrent, FlagStores
<1> QED
  BY <1>1, <1>2, <1>3, <1>4, <1>5, <1>6, <1>7, <1>8, <1>9, <1>10, <1>11

\* The callback reads the flag.
LEMMA CallbackReadInv ==
    ASSUME FlagIInv, NEW t \in FlagUsers, Fl!CallbackRead(t)
    PROVE  FlagIInv'
<1> USE DEF FlagIInv
<1> USE DEF Fl!CallbackRead, Fl!Goto, Fl!call, Fl!store, Fl!bits, Fl!locks,
            Fl!Readable, Fl!Unlocked, Fl!Uninitialized
<1>1. FlagTypes'
  BY DEF FlagTypes, Ops, ReaderPoints, SetterPoints
<1>2. FlagLock'
  BY DEF FlagTypes, FlagLock
<1>3. FlagOnce'
  BY DEF FlagTypes, FlagOnce
<1>4. FlagStores'
  BY DEF FlagTypes, FlagStores
<1>5. FlagParity'
  BY DEF FlagTypes, FlagLock, FlagOnce, FlagParity
<1>6. FlagSaved'
  BY DEF FlagTypes, FlagSaved
<1>7. FlagBits'
  BY DEF FlagBits, FlagTypes
<1>8. FlagGuard'
  BY DEF FlagTypes, FlagGuard
<1>9. FlagFresh'
  BY DEF FlagTypes, FlagFresh, FlagGuard
<1>10. FlagMarked'
  BY DEF FlagTypes, FlagLock, FlagMarked, FlagGuard
<1>11. Fl!ReadsAreCurrent'
  BY DEF FlagTypes, Fl!ReadsAreCurrent, FlagStores
<1> QED
  BY <1>1, <1>2, <1>3, <1>4, <1>5, <1>6, <1>7, <1>8, <1>9, <1>10, <1>11

\* The callback ends.
LEMMA CallbackUseInv ==
    ASSUME FlagIInv, NEW t \in FlagUsers, Fl!CallbackUse(t)
    PROVE  FlagIInv'
<1> USE DEF FlagIInv
<1> USE DEF Fl!CallbackUse, Fl!Goto, Fl!call, Fl!store, Fl!bits, Fl!locks
<1>1. FlagTypes'
  BY DEF FlagTypes, Ops, ReaderPoints, SetterPoints
<1>2. FlagLock'
  BY DEF FlagTypes, FlagLock
<1>3. FlagOnce'
  BY DEF FlagTypes, FlagOnce
<1>4. FlagStores'
  BY DEF FlagTypes, FlagStores
<1>5. FlagParity'
  BY DEF FlagTypes, FlagLock, FlagOnce, FlagParity
<1>6. FlagSaved'
  BY DEF FlagTypes, FlagSaved
<1>7. FlagBits'
  BY DEF FlagBits, FlagTypes
<1>8. FlagGuard'
  BY FlagAssumption DEF FlagTypes, FlagGuard
<1>9. FlagFresh'
  BY DEF FlagTypes, FlagFresh, FlagGuard
<1>10. FlagMarked'
  BY DEF FlagTypes, FlagLock, FlagMarked, FlagGuard
<1>11. Fl!ReadsAreCurrent'
  BY DEF FlagTypes, Fl!ReadsAreCurrent, FlagStores
<1> QED
  BY <1>1, <1>2, <1>3, <1>4, <1>5, <1>6, <1>7, <1>8, <1>9, <1>10, <1>11

\* The lock is taken again after the callback.
LEMMA RelockInv ==
    ASSUME FlagIInv, NEW t \in FlagUsers, Fl!Relock(t)
    PROVE  FlagIInv'
<1> USE DEF FlagIInv
<1> USE DEF Fl!Relock, Fl!Goto, Fl!call, Fl!store, Fl!bits, Fl!locks,
            Fl!Lock!AcquireExclusive, Fl!Lock!AcquireShared, Fl!Lock!Release
<1>1. FlagTypes'
  BY DEF FlagTypes, Ops, ReaderPoints, SetterPoints
<1>2. FlagLock'
  BY DEF FlagTypes, FlagLock
<1>3. FlagOnce'
  BY DEF FlagTypes, FlagOnce
<1>4. FlagStores'
  BY DEF FlagTypes, FlagStores
<1>5. FlagParity'
  BY DEF FlagTypes, FlagLock, FlagOnce, FlagParity
<1>6. FlagSaved'
  BY DEF FlagTypes, FlagSaved
<1>7. FlagBits'
  BY DEF FlagBits, FlagTypes
<1>8. FlagGuard'
  BY DEF FlagTypes, FlagGuard
<1>9. FlagFresh'
  BY DEF FlagTypes, FlagFresh, FlagGuard
<1>10. FlagMarked'
  BY DEF FlagTypes, FlagLock, FlagMarked, FlagGuard
<1>11. Fl!ReadsAreCurrent'
  BY DEF FlagTypes, Fl!ReadsAreCurrent, FlagStores
<1> QED
  BY <1>1, <1>2, <1>3, <1>4, <1>5, <1>6, <1>7, <1>8, <1>9, <1>10, <1>11

\* The call ends after its store.
LEMMA FinishInv ==
    ASSUME FlagIInv, NEW t \in FlagUsers, Fl!Finish(t)
    PROVE  FlagIInv'
<1> USE DEF FlagIInv
<1> USE DEF Fl!Finish, Fl!Goto, Fl!call, Fl!store, Fl!bits, Fl!locks,
            Fl!Lock!AcquireExclusive, Fl!Lock!AcquireShared, Fl!Lock!Release
<1>1. FlagTypes'
  BY DEF FlagTypes, Ops, ReaderPoints, SetterPoints
<1>2. FlagLock'
  BY DEF FlagTypes, FlagLock
<1>3. FlagOnce'
  BY DEF FlagTypes, FlagOnce
<1>4. FlagStores'
  BY DEF FlagTypes, FlagStores
<1>5. FlagParity'
  BY DEF FlagTypes, FlagLock, FlagOnce, FlagParity
<1>6. FlagSaved'
  BY DEF FlagTypes, FlagSaved
<1>7. FlagBits'
  <2>1. CASE op[t] = "Restore"
    <3>1. /\ saved[t] # << >> /\ modified_' = saved[t].modified
          /\ on_command_line_' = saved[t].on_command_line
          /\ UNCHANGED <<user_set, callback_, saved>>
      BY <2>1 DEF FlagSaved
    <3> QED BY <3>1 DEF FlagBits
  <2>2. CASE op[t] # "Restore"
    <3>1. /\ modified_' \in BOOLEAN /\ on_command_line_' \in BOOLEAN
          /\ UNCHANGED <<user_set, callback_, saved>>
      BY <2>2
    <3> QED BY <3>1 DEF FlagBits
  <2> QED BY <2>1, <2>2
<1>8. FlagGuard'
  BY DEF FlagTypes, FlagGuard
<1>9. FlagFresh'
  BY DEF FlagTypes, FlagFresh, FlagGuard
<1>10. FlagMarked'
  <2> SUFFICES ASSUME ~callback_ PROVE FlagMarked'
    BY DEF FlagMarked
  <2>1. /\ fl_pc' = [fl_pc EXCEPT ![t] = "done"] /\ fl_pc[t] = "Finish"
        /\ UNCHANGED <<op, user_set, callback_, saved>>
    OBVIOUS
  <2>2. user_set' => modified_'
    <3>1. CASE op[t] = "Restore"
      <4>1. saved[t] # << >> /\ modified_' = saved[t].modified
        BY <3>1 DEF FlagSaved
      <4> QED BY <2>1, <3>1, <4>1 DEF FlagMarked
    <3>2. CASE op[t] # "Restore"
      <4>1. modified_' = (modified_ /\ op[t] # "SetDefault")
        BY <3>2
      <4>2. user_set => modified_ /\ op[t] # "SetDefault"
        BY <2>1 DEF FlagMarked
      <4>3. user_set' = user_set
        BY <2>1
      <4> HIDE DEF Fl!Finish, FlagIInv
      <4> QED BY <4>1, <4>2, <4>3, Zenon
    <3> QED BY <3>1, <3>2
  <2>3. \A u \in FlagUsers : fl_pc'[u] \in {"Stored", "Finish"} => fl_pc'[u] = fl_pc[u]
    BY <2>1 DEF FlagTypes
  <2> QED BY <2>1, <2>2, <2>3 DEF FlagMarked
<1>11. Fl!ReadsAreCurrent'
  BY DEF FlagTypes, ReaderPoints, Fl!ReadsAreCurrent
<1> QED
  BY <1>1, <1>2, <1>3, <1>4, <1>5, <1>6, <1>7, <1>8, <1>9, <1>10, <1>11

\* Every step of a flag keeps the invariant.
LEMMA FlagNextInv == FlagIInv /\ [Fl!Next]_(Fl!vars) => FlagIInv'
<1> SUFFICES ASSUME FlagIInv, [Fl!Next]_(Fl!vars) PROVE FlagIInv'
  OBVIOUS
<1>1. ASSUME NEW t \in FlagUsers, Fl!Set(t) PROVE FlagIInv'
  <2>1. /\ fl_pc[t] = "Locked" /\ op[t] \in Ops \ {"Get", "SetCallback"} /\ op[t] # "Restore"
        /\ Fl!Return(t) \/ (Fl!StoreValue(t) /\ (op[t] = "SetDefault" => ~modified_))
    BY <1>1 DEF Fl!Set, Ops
  <2> QED BY <2>1, ReturnInv, StoreValueInv
<1>2. ASSUME NEW t \in FlagUsers, Fl!RestoreState(t) PROVE FlagIInv'
  <2>1. /\ fl_pc[t] = "Locked" /\ op[t] \in Ops \ {"Get", "SetCallback"}
        /\ op[t] # "SetDefault" /\ saved[t] # << >>
        /\ Fl!Return(t) \/ Fl!StoreValue(t)
    BY <1>2 DEF Fl!RestoreState, Ops
  <2> QED BY <2>1, ReturnInv, StoreValueInv
<1>3. ASSUME NEW t \in FlagUsers, Fl!Step(t) PROVE FlagIInv'
  BY <1>1, <1>2, <1>3, InitValueInv, MarkInitializedInv, DataGuardInv, GetInv, ReadInv,
     ReaderLockInv, ReadLockedInv, AcquireInv, SaveStateInv, SetCallbackInv,
     StoreValueEndInv, InvokeCallbackInv, CallbackReadInv, CallbackUseInv, RelockInv,
     FinishInv DEF Fl!Step
<1>4. CASE UNCHANGED Fl!vars
  <2> USE <1>4 DEF Fl!vars, Fl!call, Fl!store, Fl!bits, Fl!locks, FlagIInv
  <2>1. FlagTypes'
    BY DEF FlagTypes
  <2>2. FlagLock' /\ FlagOnce'
    BY DEF FlagLock, FlagOnce
  <2>3. FlagStores' /\ FlagParity'
    BY DEF FlagStores, FlagParity
  <2>4. FlagSaved' /\ FlagBits'
    BY DEF FlagSaved, FlagBits
  <2>5. FlagGuard' /\ FlagFresh'
    BY DEF FlagGuard, FlagFresh
  <2>6. FlagMarked' /\ Fl!ReadsAreCurrent'
    BY DEF FlagMarked, Fl!ReadsAreCurrent
  <2> QED BY <2>1, <2>2, <2>3, <2>4, <2>5, <2>6
<1> QED BY <1>3, <1>4 DEF Fl!Next

\* It implies what the run checks.
LEMMA FlagIInvImplies == FlagIInv => FlagInv
<1> SUFFICES ASSUME FlagIInv PROVE FlagInv
  OBVIOUS
<1> USE DEF FlagIInv
<1>1. Fl!TypeOK
  <2>1. lock_ \in Int /\ value \in Int /\ guard \in FlagUsers \cup {NoUser}
        /\ got \in [FlagUsers -> Int]
    BY DEF FlagTypes
  <2>2. modified_ \in BOOLEAN /\ on_command_line_ \in BOOLEAN /\ callback_ \in BOOLEAN
    BY DEF FlagBits
  <2> QED BY <2>1, <2>2 DEF Fl!TypeOK
<1>2. Fl!CallbackSeesLatest
  BY DEF FlagFresh, Fl!CallbackSeesLatest
<1> QED BY <1>1, <1>2 DEF FlagInv

\* Any number of threads may get, set, save and restore a flag of any storage
\* kind: GetFlag returns a value the flag had during the call, never an
\* uninitialized one, and when all calls are over the last callback has seen the
\* last value.
THEOREM FlagInvariant == Fl!Spec => []FlagInv
<1>1. Fl!Init => FlagIInv
  BY FlagInitInv
<1>2. FlagIInv /\ [Fl!Next]_(Fl!vars) => FlagIInv'
  BY FlagNextInv
<1>3. FlagIInv => FlagInv
  BY FlagIInvImplies
<1> QED BY <1>1, <1>2, <1>3, PTL DEF Fl!Spec

\* Only RestoreState ends a restoring call at once, and then the counters agree.
LEMMA RestoreSkips ==
    ASSUME FlagIInv, NEW u \in FlagUsers, Fl!Step(u), NEW t \in FlagUsers,
           op[t] = "Restore", fl_pc[t] = "Locked", fl_pc'[t] = "done"
    PROVE  value = saved[t].value
<1> USE DEF FlagIInv, Fl!Goto
<1>0. fl_pc \in [FlagUsers -> ReaderPoints \cup SetterPoints]
  BY DEF FlagTypes
<1>1. u = t
  BY <1>0 DEF Fl!Step, Fl!InitValue, Fl!MarkInitialized, Fl!DataGuard, Fl!Get, Fl!Read,
     Fl!FastRead, Fl!ReaderLock, Fl!ReadLocked, Fl!Acquire, Fl!Set, Fl!Return,
     Fl!StoreValue, Fl!SaveState, Fl!RestoreState, Fl!SetCallback, Fl!StoreValueEnd,
     Fl!InvokeCallback, Fl!CallbackRead, Fl!CallbackUse, Fl!Relock, Fl!Finish
<1>2. Fl!RestoreState(t)
  BY <1>0, <1>1 DEF Fl!Step, Fl!InitValue, Fl!MarkInitialized, Fl!DataGuard, Fl!Get, Fl!Read,
     Fl!ReaderLock, Fl!ReadLocked, Fl!Acquire, Fl!Set, Fl!SaveState, Fl!SetCallback,
     Fl!StoreValueEnd, Fl!InvokeCallback, Fl!CallbackRead, Fl!CallbackUse, Fl!Relock, Fl!Finish
<1>3. saved[t] # << >> /\ saved[t].counter = lock_ \div 2
  BY <1>0, <1>2 DEF Fl!RestoreState, Fl!StoreValue
<1> QED BY <1>3 DEF FlagSaved

\* Only Set begins the store of such a call, and a set value is marked.
LEMMA SetIfDefaultLeaves ==
    ASSUME FlagIInv, NEW u \in FlagUsers, Fl!Step(u), NEW t \in FlagUsers, ~callback_,
           op[t] = "SetIfDefault", fl_pc[t] = "Locked", fl_pc'[t] = "Stored"
    PROVE  ~user_set
<1> USE DEF FlagIInv, Fl!Goto
<1>0. fl_pc \in [FlagUsers -> ReaderPoints \cup SetterPoints]
  BY DEF FlagTypes
<1>1. u = t
  BY <1>0 DEF Fl!Step, Fl!InitValue, Fl!MarkInitialized, Fl!DataGuard, Fl!Get, Fl!Read,
     Fl!FastRead, Fl!ReaderLock, Fl!ReadLocked, Fl!Acquire, Fl!Set, Fl!Return,
     Fl!StoreValue, Fl!SaveState, Fl!RestoreState, Fl!SetCallback, Fl!StoreValueEnd,
     Fl!InvokeCallback, Fl!CallbackRead, Fl!CallbackUse, Fl!Relock, Fl!Finish
<1>2. Fl!Set(t)
  BY <1>0, <1>1 DEF Fl!Step, Fl!InitValue, Fl!MarkInitialized, Fl!DataGuard, Fl!Get, Fl!Read,
     Fl!ReaderLock, Fl!ReadLocked, Fl!Acquire, Fl!RestoreState, Fl!SaveState, Fl!SetCallback,
     Fl!StoreValueEnd, Fl!InvokeCallback, Fl!CallbackRead, Fl!CallbackUse, Fl!Relock, Fl!Finish
<1>3. ~modified_
  BY <1>0, <1>2 DEF Fl!Set, Fl!Return
<1> QED BY <1>3 DEF FlagMarked

\* RestoreState leaves the flag alone only if it has the saved value, and
\* SET_FLAG_IF_DEFAULT leaves a value alone that a client has set, if the flag
\* has no callback.
THEOREM FlagStepsHold == Fl!Spec => FlagSteps
<1> DEFINE Skips == \A t \in FlagUsers :
              op[t] = "Restore" /\ fl_pc[t] = "Locked" /\ fl_pc'[t] = "done" =>
                  value = saved[t].value
           Keeps == \A t \in FlagUsers :
              ~callback_ /\ op[t] = "SetIfDefault" /\ fl_pc[t] = "Locked"
                 /\ fl_pc'[t] = "Stored" => ~user_set
<1>1. Fl!Init => FlagIInv
  BY FlagInitInv
<1>2. FlagIInv /\ [Fl!Next]_(Fl!vars) => FlagIInv'
  BY FlagNextInv
<1>3. FlagIInv /\ [Fl!Next]_(Fl!vars) => [Skips]_(Fl!vars)
  BY RestoreSkips DEF Fl!Next
<1>4. FlagIInv /\ [Fl!Next]_(Fl!vars) => [Keeps]_(Fl!vars)
  BY SetIfDefaultLeaves DEF Fl!Next
<1> QED
  BY <1>1, <1>2, <1>3, <1>4, PTL DEF Fl!Spec, FlagSteps, Fl!RestoreSkipsSameValue,
     Fl!SetIfDefaultKeeps

=============================================================================
