---------------------------- MODULE SampleProofs ----------------------------
(***************************************************************************)
(* What MCSamples states of the sample recorder, proved for any number of  *)
(* clients, iterators and samples.                                         *)
(*                                                                         *)
(* The argument.  The graveyard is a circle: dead is an injection of its   *)
(* members into its members, so that taking the first one out leaves a     *)
(* circle (GraveyardCircle), and a sample outside it belongs to one client *)
(* (OneClient, LiveIsOwned).  A pointer leads only to samples that PushNew *)
(* has published (Pointers), and next of those never changes, so that what *)
(* an iterator still has to visit can be reached from where it is          *)
(* (AllIsListed, WalkGoesOn); Reaches is the least set closed under next.  *)
(***************************************************************************)
EXTENDS MCSamples, FiniteSetTheorems, TLAPS

\* The cardinality that the instance takes from FiniteSets.
LEMMA SampleCardinality == \A S : SR!Cardinality(S) = Cardinality(S)
  BY DEF SR!Cardinality, Cardinality

Nodes == Samples \cup {Graveyard}

HasNone == {"Dropped", "PopDead", "Resurrect", "New"}
HasOne  == {"Prepare", "PushNew", "PushDead", "Bury", "Uncount"}
AtGraveyard == {"Resurrect", "Prepare", "Bury"}

SampleTypes ==
    /\ all_ \in Samples \cup {NoSample} /\ sample_next \in [Samples -> Samples \cup {NoSample}]
    /\ dead \in [Nodes -> Nodes \cup {NoSample}]
    /\ init_mu \in [Nodes -> SR!Processes \cup {NoSample}]
    /\ ready \subseteq Samples /\ sample \in [SR!Processes -> Samples \cup {NoSample}]
    /\ sample_pc \in [SR!Processes -> {"idle", "Lock", "f", "Next"} \cup HasNone \cup HasOne]
    /\ \A t \in Clients :
         /\ sample_pc[t] \in {"idle"} \cup HasNone \cup HasOne
         /\ sample_pc[t] \in HasNone => sample[t] = NoSample
         /\ sample_pc[t] \in HasOne => sample[t] # NoSample
    /\ \A i \in Iterators :
         /\ sample_pc[i] \in {"idle", "Lock", "f", "Next"}
         /\ sample_pc[i] \in {"f", "Next"} => sample[i] # NoSample
    /\ must \in [Iterators -> SUBSET Samples] /\ seen \in [Iterators -> SUBSET Samples]

\* Samples that are finished, or being prepared again.
Made == ready \cup {s \in Samples : \E t \in Clients : sample_pc[t] = "Prepare" /\ sample[t] = s}

\* Samples that PushNew has put on the list.
Published == {s \in Made : \A t \in Clients : sample_pc[t] = "PushNew" => sample[t] # s}

\* Who holds which lock.
SampleLocks ==
    /\ \A t \in SR!Processes :
         init_mu[Graveyard] = t <=> t \in Clients /\ sample_pc[t] \in AtGraveyard
    /\ \A t \in SR!Processes, s \in Samples :
         init_mu[s] = t <=> sample[t] = s /\ sample_pc[t] \in {"Prepare", "f", "Next"}

\* A client that has not given it back is the only one to have a sample.
OneClient ==
    /\ \A t \in Clients : sample[t] # NoSample => sample[t] \in Made
    /\ \A t, u \in Clients : t # u /\ sample[t] # NoSample /\ sample[t] = sample[u] =>
         "Uncount" \in {sample_pc[t], sample_pc[u]}

\* The members of the graveyard form a circle, and are nobody's.
GraveyardCircle ==
    /\ dead[Graveyard] # NoSample
    /\ \A s \in Nodes : dead[s] # NoSample =>
         /\ dead[s] \in Nodes /\ dead[dead[s]] # NoSample
         /\ s # Graveyard => s \in ready
    /\ \A s, r \in Nodes : dead[s] # NoSample /\ dead[s] = dead[r] => s = r
    /\ \A t \in Clients : sample[t] # NoSample /\ sample_pc[t] # "Uncount" =>
         dead[sample[t]] = NoSample
    /\ \A t \in Clients : sample_pc[t] = "Resurrect" => dead[Graveyard] # Graveyard

\* A sample outside the graveyard has a client.
LiveIsOwned ==
    /\ \A s \in Made : dead[s] = NoSample =>
         \E t \in Clients : sample[t] = s /\ sample_pc[t] # "Uncount"
    /\ \A i \in Iterators : sample_pc[i] = "f" => dead[sample[i]] = NoSample

\* Pointers lead to published samples.
Pointers ==
    /\ all_ \in Published \cup {NoSample}
    /\ \A s \in Samples : sample_next[s] \in Published \cup {NoSample}
    /\ \A i \in Iterators : sample[i] \in Published \cup {NoSample}

\* s is in every set that contains x and the next of its members.
Closed(C) == \A y \in C : sample_next[y] # NoSample => sample_next[y] \in C
Reaches(x, s) ==
    x # NoSample /\ \A C \in SUBSET Samples : x \in C /\ Closed(C) => s \in C

AllIsListed == \A s \in Published : Reaches(all_, s)

\* Samples that must be visited stay registered; those not yet seen lie ahead.
Ahead(i) == IF sample_pc[i] = "Next" THEN sample_next[sample[i]] ELSE sample[i]
WalkGoesOn ==
    /\ \A i \in Iterators : must[i] \subseteq SR!Registered
    /\ \A i \in Iterators : sample_pc[i] # "idle" =>
         \A s \in must[i] : s \in seen[i] \/ Reaches(Ahead(i), s)
    /\ SR!VisitsAllRegistered

\* size_estimate_ counts; the clients that were let in are few enough.
LetIn == {t \in Clients : sample[t] # NoSample \/ sample_pc[t] \in {"PopDead", "Resurrect", "New"}}
Counted == {t \in Clients : sample[t] # NoSample
                            \/ sample_pc[t] \in {"Dropped", "PopDead", "Resurrect", "New"}}
SizeCounts ==
    /\ size_estimate_ = Cardinality(Counted)
    /\ Cardinality(LetIn) <= max_samples_ + 1
    /\ dropped_samples_ \in 0..MaxDropped

\* The inductive invariant.
SampleIInv ==
    /\ SampleTypes /\ SampleLocks /\ OneClient /\ GraveyardCircle /\ LiveIsOwned
    /\ Pointers /\ AllIsListed /\ WalkGoesOn /\ SizeCounts

-----------------------------------------------------------------------------
(***************************************************************************)
(* What can be reached                                                     *)
(***************************************************************************)

\* Reaches speaks of next only.
LEMMA ReachesSame ==
    ASSUME sample_next' = sample_next
    PROVE  \A x, s : Reaches(x, s)' <=> Reaches(x, s)
  BY DEF Reaches, Closed

\* One step along the list: what can be reached from x is x or can be reached
\* from the next of x.
LEMMA ReachesNext ==
    ASSUME SampleTypes, SampleAssumption, NEW x \in Samples, NEW s, Reaches(x, s), s # x
    PROVE  Reaches(sample_next[x], s)
<1>1. sample_next[x] # NoSample
  <2> SUFFICES ASSUME sample_next[x] = NoSample PROVE FALSE
    OBVIOUS
  <2>1. {x} \in SUBSET Samples /\ Closed({x})
    BY DEF Closed
  <2> QED BY <2>1 DEF Reaches
<1>2. ASSUME NEW C \in SUBSET Samples, sample_next[x] \in C, Closed(C) PROVE s \in C
  <2>1. C \cup {x} \in SUBSET Samples /\ Closed(C \cup {x}) /\ x \in C \cup {x}
    BY <1>2 DEF Closed
  <2>2. s \in C \cup {x}
    BY <2>1 DEF Reaches
  <2> QED BY <2>2
<1> QED BY <1>1, <1>2 DEF Reaches

\* The next of a sample that nothing leads to may change.
LEMMA ReachesKept ==
    ASSUME SampleTypes, NEW n \in Samples, NEW v,
           sample_next' = [sample_next EXCEPT ![n] = v],
           \A y \in Samples : sample_next[y] # n,
           NEW x, x # n, NEW s, Reaches(x, s)
    PROVE  Reaches(x, s)'
<1> SUFFICES ASSUME NEW C \in SUBSET Samples, x \in C, Closed(C)' PROVE s \in C
  BY DEF Reaches
<1>1. C \ {n} \in SUBSET Samples /\ x \in C \ {n}
  OBVIOUS
<1>2. Closed(C \ {n})
  BY DEF Closed, SampleTypes
<1> QED BY <1>1, <1>2 DEF Reaches

\* What is at the head of the list reaches itself and what its next reaches.
LEMMA ReachesHead ==
    ASSUME SampleAssumption, NEW x \in Samples, NEW s,
           s = x \/ Reaches(sample_next[x], s)
    PROVE  Reaches(x, s)
<1>1. x # NoSample
  BY DEF SampleAssumption
<1>2. ASSUME NEW C \in SUBSET Samples, x \in C, Closed(C) PROVE s \in C
  BY <1>2 DEF Reaches, Closed
<1> QED BY <1>1, <1>2 DEF Reaches

-----------------------------------------------------------------------------
(***************************************************************************)
(* Facts that the steps use                                                *)
(***************************************************************************)

\* A client that neither prepares nor pushes, before or after its step,
\* leaves the samples made and published as they are.
LEMMA MadeKept ==
    ASSUME NEW t \in Clients, ready' = ready,
           \A u \in Clients : u # t => sample'[u] = sample[u] /\ sample_pc'[u] = sample_pc[u],
           sample_pc[t] \notin {"Prepare", "PushNew"}, sample_pc'[t] \notin {"Prepare", "PushNew"}
    PROVE  Made' = Made /\ Published' = Published
<1>1. Made' = Made
  BY DEF Made
<1> QED BY <1>1 DEF Published

\* A registered sample is published and not in the graveyard.
LEMMA RegisteredIsPublished ==
    ASSUME SampleIInv, NEW s \in SR!Registered
    PROVE  s \in Published /\ dead[s] = NoSample /\ s \in Samples
<1>1. PICK t \in Clients : sample_pc[t] = "idle" /\ sample[t] # NoSample /\ s = sample[t]
  BY DEF SR!Registered
<1>2. s \in Made /\ s \in Samples /\ dead[s] = NoSample
  BY <1>1 DEF SampleIInv, OneClient, GraveyardCircle, Made, SampleTypes
<1>3. \A u \in Clients : sample_pc[u] = "PushNew" => sample[u] # s
  BY <1>1 DEF SampleIInv, OneClient
<1> QED BY <1>2, <1>3 DEF Published

\* The clients that are counted, and those of them that were let in.
LEMMA CountsFinite ==
    /\ IsFiniteSet(Counted) /\ Cardinality(Counted) \in Nat
    /\ IsFiniteSet(LetIn) /\ Cardinality(LetIn) \in Nat
    /\ Cardinality(LetIn) <= Cardinality(Counted)
    /\ Cardinality(Counted) <= Cardinality(Clients)
<1>1. Counted \subseteq Clients /\ LetIn \subseteq Counted /\ IsFiniteSet(Clients)
  BY SampleAssumption DEF Counted, LetIn, SampleAssumption
<1> QED
  BY <1>1, FS_Subset, FS_CardinalityType

\* Register counts the call.
LEMMA RegisterInv ==
    ASSUME SampleIInv, NEW t \in Clients, SR!Register(t)
    PROVE  SampleIInv'
<1> USE SampleAssumption DEF SampleIInv
<1> USE DEF SR!Register, SR!Goto, SR!lists, SR!counts, SR!visits, HasNone,
            HasOne, AtGraveyard, Nodes, SR!Processes
<1>m. Made' = Made /\ Published' = Published
  <2>1. /\ sample_pc[t] \notin {"Prepare", "PushNew"} /\ sample_pc'[t] \notin {"Prepare", "PushNew"}
        /\ \A u \in Clients : u # t => sample'[u] = sample[u] /\ sample_pc'[u] = sample_pc[u]
    BY DEF SampleTypes
  <2>2. ready' = ready
    OBVIOUS
  <2> HIDE DEF SR!Register, SampleIInv
  <2> QED BY <2>1, <2>2, MadeKept
<1>r. \A x, s : Reaches(x, s)' <=> Reaches(x, s)
  BY ReachesSame
<1>1. SampleTypes'
  BY DEF SampleTypes
<1>2. SampleLocks'
  BY DEF SampleTypes, SampleLocks
<1>3. OneClient'
  BY <1>m DEF SampleTypes, OneClient
<1>4. GraveyardCircle'
  BY DEF SampleTypes, GraveyardCircle
<1>5. LiveIsOwned'
  BY <1>m DEF SampleTypes, LiveIsOwned
<1>6. Pointers'
  BY <1>m DEF SampleTypes, Pointers
<1>7. AllIsListed'
  BY <1>m, <1>r DEF AllIsListed
<1>8. WalkGoesOn'
  <2>1. \A j \in Iterators : j # t /\ j \in SR!Processes
    BY DEF SampleAssumption
  <2>2. \A j \in Iterators : sample_pc'[j] = sample_pc[j] /\ Ahead(j)' = Ahead(j)
    BY <2>1 DEF SampleTypes, Ahead
  <2>3. SR!Registered' = SR!Registered
    <3>1. /\ sample_pc[t] # "idle" \/ sample[t] = NoSample
          /\ sample_pc'[t] # "idle" \/ sample'[t] = NoSample
          /\ \A u \in Clients : u # t => sample'[u] = sample[u] /\ sample_pc'[u] = sample_pc[u]
      BY DEF SampleTypes
    <3> HIDE DEF SR!Register, SampleIInv
    <3> QED BY <3>1 DEF SR!Registered
  <2> HIDE DEF SR!Register
  <2>4. must' = must /\ seen' = seen
    BY DEF SR!Register, SR!visits
  <2> QED BY <1>r, <2>2, <2>3, <2>4 DEF WalkGoesOn, SR!VisitsAllRegistered
<1>9. SizeCounts'
  <2>1. Counted' = Counted \cup {t} /\ t \notin Counted /\ t \notin LetIn
    BY DEF SampleTypes, Counted, LetIn
  <2>2. Cardinality(Counted') = Cardinality(Counted) + 1
    BY <2>1, CountsFinite, FS_AddElement
  <2>3. CASE size_estimate_ > max_samples_
    <3>1. LetIn' = LetIn
      BY <2>3 DEF SampleTypes, LetIn
    <3> QED BY <2>2, <3>1 DEF SizeCounts
  <2>4. CASE ~(size_estimate_ > max_samples_)
    <3>1. LetIn' = LetIn \cup {t}
      BY <2>4 DEF SampleTypes, LetIn
    <3>2. Cardinality(LetIn') = Cardinality(LetIn) + 1
      BY <2>1, <3>1, CountsFinite, FS_AddElement
    <3> QED BY <2>2, <2>4, <3>2, CountsFinite DEF SizeCounts, SampleAssumption
  <2> QED BY <2>3, <2>4
<1> QED
  BY <1>1, <1>2, <1>3, <1>4, <1>5, <1>6, <1>7, <1>8, <1>9

\* A registration is refused and taken back.
LEMMA DroppedInv ==
    ASSUME SampleIInv, NEW t \in Clients, SR!Dropped(t)
    PROVE  SampleIInv'
<1> USE SampleAssumption DEF SampleIInv
<1> USE DEF SR!Dropped, SR!Goto, SR!lists, SR!counts, SR!visits, HasNone,
            HasOne, AtGraveyard, Nodes, SR!Processes
<1>m. Made' = Made /\ Published' = Published
  <2>1. /\ sample_pc[t] \notin {"Prepare", "PushNew"} /\ sample_pc'[t] \notin {"Prepare", "PushNew"}
        /\ \A u \in Clients : u # t => sample'[u] = sample[u] /\ sample_pc'[u] = sample_pc[u]
    BY DEF SampleTypes
  <2>2. ready' = ready
    OBVIOUS
  <2> HIDE DEF SR!Dropped, SampleIInv
  <2> QED BY <2>1, <2>2, MadeKept
<1>r. \A x, s : Reaches(x, s)' <=> Reaches(x, s)
  BY ReachesSame
<1>1. SampleTypes'
  BY DEF SampleTypes
<1>2. SampleLocks'
  BY DEF SampleTypes, SampleLocks
<1>3. OneClient'
  BY <1>m DEF SampleTypes, OneClient
<1>4. GraveyardCircle'
  BY DEF SampleTypes, GraveyardCircle
<1>5. LiveIsOwned'
  BY <1>m DEF SampleTypes, LiveIsOwned
<1>6. Pointers'
  BY <1>m DEF SampleTypes, Pointers
<1>7. AllIsListed'
  BY <1>m, <1>r DEF AllIsListed
<1>8. WalkGoesOn'
  <2>1. \A j \in Iterators : j # t /\ j \in SR!Processes
    BY DEF SampleAssumption
  <2>2. \A j \in Iterators : sample_pc'[j] = sample_pc[j] /\ Ahead(j)' = Ahead(j)
    BY <2>1 DEF SampleTypes, Ahead
  <2>3. SR!Registered' = SR!Registered
    <3>1. /\ sample_pc[t] # "idle" \/ sample[t] = NoSample
          /\ sample_pc'[t] # "idle" \/ sample'[t] = NoSample
          /\ \A u \in Clients : u # t => sample'[u] = sample[u] /\ sample_pc'[u] = sample_pc[u]
      BY DEF SampleTypes
    <3> HIDE DEF SR!Dropped, SampleIInv
    <3> QED BY <3>1 DEF SR!Registered
  <2> HIDE DEF SR!Dropped
  <2>4. must' = must /\ seen' = seen
    BY DEF SR!Dropped, SR!visits
  <2> QED BY <1>r, <2>2, <2>3, <2>4 DEF WalkGoesOn, SR!VisitsAllRegistered
<1>9. SizeCounts'
  <2>1. Counted' = Counted \ {t} /\ t \in Counted /\ LetIn' = LetIn
    BY DEF SampleTypes, Counted, LetIn
  <2>2. Cardinality(Counted') = Cardinality(Counted) - 1
    BY <2>1, CountsFinite, FS_RemoveElement
  <2>3. dropped_samples_' \in 0..MaxDropped
    BY DEF SizeCounts, SampleAssumption
  <2> QED BY <2>1, <2>2, <2>3 DEF SizeCounts
<1> QED
  BY <1>1, <1>2, <1>3, <1>4, <1>5, <1>6, <1>7, <1>8, <1>9

\* PopDead looks at the graveyard.
LEMMA PopDeadInv ==
    ASSUME SampleIInv, NEW t \in Clients, SR!PopDead(t)
    PROVE  SampleIInv'
<1> USE SampleAssumption DEF SampleIInv
<1> USE DEF SR!PopDead, SR!Goto, SR!lists, SR!counts, SR!visits, SR!Locks,
            HasNone, HasOne, AtGraveyard, Nodes, SR!Processes
<1>m. Made' = Made /\ Published' = Published
  <2>1. /\ sample_pc[t] \notin {"Prepare", "PushNew"} /\ sample_pc'[t] \notin {"Prepare", "PushNew"}
        /\ \A u \in Clients : u # t => sample'[u] = sample[u] /\ sample_pc'[u] = sample_pc[u]
    BY DEF SampleTypes
  <2>2. ready' = ready
    OBVIOUS
  <2> HIDE DEF SR!PopDead, SampleIInv
  <2> QED BY <2>1, <2>2, MadeKept
<1>r. \A x, s : Reaches(x, s)' <=> Reaches(x, s)
  BY ReachesSame
<1>1. SampleTypes'
  BY DEF SampleTypes
<1>2. SampleLocks'
  BY DEF SampleTypes, SampleLocks
<1>3. OneClient'
  BY <1>m DEF SampleTypes, OneClient
<1>4. GraveyardCircle'
  BY DEF SampleTypes, GraveyardCircle
<1>5. LiveIsOwned'
  BY <1>m DEF SampleTypes, LiveIsOwned
<1>6. Pointers'
  BY <1>m DEF SampleTypes, Pointers
<1>7. AllIsListed'
  BY <1>m, <1>r DEF AllIsListed
<1>8. WalkGoesOn'
  <2>1. \A j \in Iterators : j # t /\ j \in SR!Processes
    BY DEF SampleAssumption
  <2>2. \A j \in Iterators : sample_pc'[j] = sample_pc[j] /\ Ahead(j)' = Ahead(j)
    BY <2>1 DEF SampleTypes, Ahead
  <2>3. SR!Registered' = SR!Registered
    <3>1. /\ sample_pc[t] # "idle" \/ sample[t] = NoSample
          /\ sample_pc'[t] # "idle" \/ sample'[t] = NoSample
          /\ \A u \in Clients : u # t => sample'[u] = sample[u] /\ sample_pc'[u] = sample_pc[u]
      BY DEF SampleTypes
    <3> HIDE DEF SR!PopDead, SampleIInv
    <3> QED BY <3>1 DEF SR!Registered
  <2> HIDE DEF SR!PopDead
  <2>4. must' = must /\ seen' = seen
    BY DEF SR!PopDead, SR!visits
  <2> QED BY <1>r, <2>2, <2>3, <2>4 DEF WalkGoesOn, SR!VisitsAllRegistered
<1>9. SizeCounts'
  <2>1. Counted' = Counted /\ LetIn' = LetIn
    BY DEF SampleTypes, Counted, LetIn, SampleAssumption
  <2> QED BY <2>1 DEF SizeCounts
<1> QED
  BY <1>1, <1>2, <1>3, <1>4, <1>5, <1>6, <1>7, <1>8, <1>9

\* The first member leaves the graveyard.
LEMMA ResurrectInv ==
    ASSUME SampleIInv, NEW t \in Clients, SR!Resurrect(t)
    PROVE  SampleIInv'
<1> USE SampleAssumption DEF SampleIInv
<1> USE DEF SR!Resurrect, SR!Goto, SR!lists, SR!counts, SR!visits, SR!Locks,
            HasNone, HasOne, AtGraveyard, Nodes, SR!Processes
<1>h. /\ dead[Graveyard] \in Samples /\ dead[Graveyard] \in ready
      /\ dead[Graveyard] # Graveyard /\ dead[Graveyard] # NoSample
      /\ dead[dead[Graveyard]] \in Nodes /\ dead[dead[Graveyard]] # NoSample
      /\ dead[dead[Graveyard]] # dead[Graveyard]
  BY DEF SampleTypes, GraveyardCircle
<1>s. /\ sample[t] = NoSample /\ sample'[t] = dead[Graveyard] /\ sample_pc'[t] = "Prepare"
      /\ \A u \in SR!Processes : u # t => sample'[u] = sample[u] /\ sample_pc'[u] = sample_pc[u]
      /\ dead'[dead[Graveyard]] = NoSample /\ dead'[Graveyard] = dead[dead[Graveyard]]
      /\ \A s \in Nodes : s # Graveyard /\ s # dead[Graveyard] => dead'[s] = dead[s]
  BY <1>h DEF SampleTypes
<1>m. Made' = Made /\ Published' = Published
  <2>1. Made' = Made
    BY <1>h, <1>s DEF SampleTypes, Made
  <2> QED BY <2>1, <1>s DEF SampleTypes, Published
<1>r. \A x, s : Reaches(x, s)' <=> Reaches(x, s)
  BY ReachesSame
<1>1. SampleTypes'
  BY <1>h, <1>s DEF SampleTypes
<1>2. SampleLocks'
  BY DEF SampleTypes, SampleLocks
<1>3. OneClient'
  <2> HIDE DEF SR!Resurrect
  <2>1. dead[Graveyard] \in Made /\ \A u \in Clients : u \in SR!Processes
    BY <1>h DEF Made
  <2>2. \A u \in Clients : sample'[u] # NoSample => sample'[u] \in Made
    BY <1>s, <2>1 DEF OneClient
  <2>3. \A u \in Clients : u # t /\ sample[u] = dead[Graveyard] => sample_pc[u] = "Uncount"
    BY <1>h DEF GraveyardCircle
  <2>4. ASSUME NEW u \in Clients, NEW w \in Clients, u # w, sample'[u] # NoSample,
               sample'[u] = sample'[w]
        PROVE  "Uncount" \in {sample_pc'[u], sample_pc'[w]}
    <3>1. CASE u # t /\ w # t
      BY <1>s, <2>1, <2>4, <3>1 DEF OneClient
    <3>2. CASE u = t \/ w = t
      BY <1>s, <2>1, <2>3, <2>4, <3>2
    <3> QED BY <3>1, <3>2
  <2> QED BY <1>m, <2>2, <2>4 DEF OneClient
<1>4. GraveyardCircle'
  <2> HIDE DEF SR!Resurrect
  <2>1. dead'[Graveyard] # NoSample
    BY <1>h, <1>s
  <2>2. \A s \in Nodes : dead'[s] # NoSample =>
          /\ dead'[s] \in Nodes /\ dead'[dead'[s]] # NoSample
          /\ s # Graveyard => s \in ready'
    <3>1. ready' = ready \ {dead[Graveyard]}
      BY DEF SR!Resurrect
    <3>2. \A s \in Nodes : dead[s] = dead[Graveyard] => s = Graveyard
      BY <1>h DEF GraveyardCircle
    <3>3. dead'[Graveyard] \in Nodes /\ dead'[dead'[Graveyard]] # NoSample
      BY SMTT(30), <1>h, <1>s, <3>2 DEF GraveyardCircle
    <3>4. ASSUME NEW s \in Nodes, s # Graveyard, dead'[s] # NoSample
          PROVE  dead'[s] \in Nodes /\ dead'[dead'[s]] # NoSample /\ s \in ready'
      BY SMTT(30), <1>h, <1>s, <3>1, <3>2, <3>3, <3>4 DEF GraveyardCircle
    <3> QED BY <3>3, <3>4
  <2>3. \A s, r \in Nodes : dead'[s] # NoSample /\ dead'[s] = dead'[r] => s = r
    <3>1. \A s, r \in Nodes : dead[s] # NoSample /\ dead[s] = dead[r] => s = r
      BY DEF GraveyardCircle
    <3>2. Graveyard \in Nodes /\ dead[Graveyard] \in Nodes
      BY <1>h
    <3> HIDE DEF Nodes
    <3> SUFFICES ASSUME NEW s \in Nodes, NEW r \in Nodes, dead'[s] # NoSample, dead'[s] = dead'[r]
                 PROVE  s = r
      OBVIOUS
    <3>3. s # dead[Graveyard] /\ r # dead[Graveyard]
      BY <1>s
    <3>4. CASE s # Graveyard /\ r # Graveyard
      BY <1>s, <3>1, <3>3, <3>4
    <3>5. CASE s = Graveyard /\ r # Graveyard
      BY <1>h, <1>s, <3>1, <3>2, <3>3, <3>5
    <3>6. CASE s # Graveyard /\ r = Graveyard
      BY <1>h, <1>s, <3>1, <3>2, <3>3, <3>6
    <3> QED BY <3>4, <3>5, <3>6
  <2>4. \A u \in Clients : sample'[u] # NoSample /\ sample_pc'[u] # "Uncount" =>
          dead'[sample'[u]] = NoSample
    BY SMTT(30), <1>h, <1>s DEF SampleTypes, GraveyardCircle, SampleAssumption
  <2>5. \A u \in Clients : sample_pc'[u] # "Resurrect"
    <3>1. \A u \in Clients : sample_pc[u] = "Resurrect" => u = t
      BY DEF SampleLocks, SR!Resurrect
    <3> QED BY <1>s, <3>1
  <2> QED BY <2>1, <2>2, <2>3, <2>4, <2>5 DEF GraveyardCircle
<1>5. LiveIsOwned'
  <2>1. \A s \in Samples : dead[s] = NoSample => dead'[s] = NoSample
    BY <1>h, <1>s DEF SampleAssumption
  <2>2. \A i \in Iterators : i # t
    BY DEF SampleAssumption
  <2>3. \A i \in Iterators : sample_pc'[i] = "f" => dead'[sample'[i]] = NoSample
    BY SMTT(30), <1>s, <2>1, <2>2 DEF SampleTypes, LiveIsOwned
  <2>4. ASSUME NEW s \in Made, dead'[s] = NoSample
        PROVE  \E u \in Clients : sample'[u] = s /\ sample_pc'[u] # "Uncount"
    <3> HIDE DEF SR!Resurrect
    <3>1. s \in Samples /\ s # Graveyard
      BY DEF Made, SampleTypes, SampleAssumption
    <3>2. CASE s = dead[Graveyard]
      BY <1>s, <3>2
    <3>3. CASE s # dead[Graveyard]
      <4>1. dead[s] = NoSample
        BY <1>s, <2>4, <3>1, <3>3
      <4>2. PICK u \in Clients : sample[u] = s /\ sample_pc[u] # "Uncount"
        BY <4>1 DEF LiveIsOwned
      <4>3. u # t
        BY <1>s, <3>1, <4>2
      <4> QED BY <1>s, <4>2, <4>3
    <3> QED BY <3>2, <3>3
  <2> QED BY <1>m, <2>3, <2>4 DEF LiveIsOwned
<1>6. Pointers'
  BY <1>m DEF SampleTypes, Pointers
<1>7. AllIsListed'
  BY <1>m, <1>r DEF AllIsListed
<1>8. WalkGoesOn'
  <2>1. \A j \in Iterators : j # t /\ j \in SR!Processes
    BY DEF SampleAssumption
  <2>2. \A j \in Iterators : sample_pc'[j] = sample_pc[j] /\ Ahead(j)' = Ahead(j)
    BY <2>1 DEF SampleTypes, Ahead
  <2>3. SR!Registered' = SR!Registered
    <3>1. /\ sample_pc[t] # "idle" \/ sample[t] = NoSample
          /\ sample_pc'[t] # "idle" \/ sample'[t] = NoSample
          /\ \A u \in Clients : u # t => sample'[u] = sample[u] /\ sample_pc'[u] = sample_pc[u]
      BY DEF SampleTypes
    <3> HIDE DEF SR!Resurrect, SampleIInv
    <3> QED BY <3>1 DEF SR!Registered
  <2> HIDE DEF SR!Resurrect
  <2>4. must' = must /\ seen' = seen
    BY DEF SR!Resurrect, SR!visits
  <2> QED BY <1>r, <2>2, <2>3, <2>4 DEF WalkGoesOn, SR!VisitsAllRegistered
<1>9. SizeCounts'
  <2>1. Counted' = Counted /\ LetIn' = LetIn
    <3>1. sample_pc[t] = "Resurrect"
      OBVIOUS
    <3> HIDE DEF SR!Resurrect
    <3> QED BY <1>h, <1>s, <3>1 DEF Counted, LetIn
  <2> QED BY <2>1 DEF SizeCounts
<1> QED
  BY <1>1, <1>2, <1>3, <1>4, <1>5, <1>6, <1>7, <1>8, <1>9

\* The sample is ready again.
LEMMA PrepareInv ==
    ASSUME SampleIInv, NEW t \in Clients, SR!Prepare(t)
    PROVE  SampleIInv'
<1> USE SampleAssumption DEF SampleIInv
<1> USE DEF SR!Prepare, SR!Goto, SR!lists, SR!counts, SR!visits, SR!Unlocks,
            HasNone, HasOne, AtGraveyard, Nodes, SR!Processes
<1>m. Made' = Made /\ Published' = Published
  <2>1. Made' = Made
    BY DEF SampleTypes, Made
  <2>2. \A u \in Clients : sample'[u] = sample[u]
    BY DEF SampleTypes
  <2>3. \A u \in Clients : sample_pc'[u] = "PushNew" <=> sample_pc[u] = "PushNew"
    BY DEF SampleTypes
  <2> HIDE DEF SR!Prepare, SampleIInv
  <2>4. ASSUME NEW s \in Made PROVE s \in Published' <=> s \in Published
    BY <2>1, <2>2, <2>3 DEF Published
  <2> QED BY <2>1, <2>4 DEF Published
<1>r. \A x, s : Reaches(x, s)' <=> Reaches(x, s)
  BY ReachesSame
<1>1. SampleTypes'
  BY SMTT(30) DEF SampleTypes
<1>2. SampleLocks'
  BY SMTT(30) DEF SampleTypes, SampleLocks
<1>3. OneClient'
  BY <1>m DEF SampleTypes, OneClient
<1>4. GraveyardCircle'
  BY DEF SampleTypes, GraveyardCircle
<1>5. LiveIsOwned'
  BY <1>m DEF SampleTypes, LiveIsOwned
<1>6. Pointers'
  BY <1>m DEF SampleTypes, Pointers
<1>7. AllIsListed'
  BY <1>m, <1>r DEF AllIsListed
<1>8. WalkGoesOn'
  <2>1. \A j \in Iterators : j # t /\ j \in SR!Processes
    BY DEF SampleAssumption
  <2>2. \A j \in Iterators : sample_pc'[j] = sample_pc[j] /\ Ahead(j)' = Ahead(j)
    BY <2>1 DEF SampleTypes, Ahead
  <2>3. SR!Registered \subseteq SR!Registered'
    <3>1. \A u \in Clients :
             sample'[u] = sample[u] /\ (sample_pc[u] = "idle" => sample_pc'[u] = "idle")
      BY DEF SampleTypes
    <3> HIDE DEF SR!Prepare, SampleIInv
    <3> SUFFICES ASSUME NEW s \in SR!Registered PROVE s \in SR!Registered'
      OBVIOUS
    <3>2. PICK u \in Clients : sample_pc[u] = "idle" /\ sample[u] # NoSample /\ s = sample[u]
      BY DEF SR!Registered
    <3>3. sample_pc'[u] = "idle" /\ sample'[u] # NoSample /\ s = sample'[u]
      BY <3>1, <3>2
    <3> QED BY <3>3 DEF SR!Registered
  <2>4. must' = must /\ seen' = seen
    OBVIOUS
  <2> HIDE DEF SR!Prepare
  <2> QED BY <1>r, <2>2, <2>3, <2>4 DEF WalkGoesOn, SR!VisitsAllRegistered
<1>9. SizeCounts'
  <2>1. Counted' = Counted /\ LetIn' = LetIn
    BY DEF SampleTypes, Counted, LetIn, SampleAssumption
  <2> QED BY <2>1 DEF SizeCounts
<1> QED
  BY <1>1, <1>2, <1>3, <1>4, <1>5, <1>6, <1>7, <1>8, <1>9

\* A new sample, which nothing leads to yet.
LEMMA NewInv ==
    ASSUME SampleIInv, NEW t \in Clients, SR!New(t)
    PROVE  SampleIInv'
<1> USE SampleAssumption DEF SampleIInv
<1> USE DEF SR!New, SR!Goto, SR!lists, SR!counts, SR!visits, HasNone, HasOne,
            AtGraveyard, Nodes, SR!Processes
<1> PICK s \in Samples \ SR!Created :
         /\ sample' = [sample EXCEPT ![t] = s]
         /\ ready' = ready \cup {s}
         /\ sample_next' = [sample_next EXCEPT ![s] = all_]
  OBVIOUS
<1>s. /\ s \in Samples /\ s \notin Made /\ s # NoSample /\ s # Graveyard
      /\ \A u \in SR!Processes : sample[u] # s
  <2>1. s \in Samples /\ s \notin ready /\ \A u \in SR!Processes : sample[u] # s
    BY DEF SR!Created
  <2>2. s # NoSample /\ s # Graveyard
    BY <2>1 DEF SampleAssumption
  <2>3. s \notin Made
    <3> HIDE DEF SR!New, SampleIInv
    <3> QED BY <2>1 DEF Made
  <2> QED BY <2>1, <2>2, <2>3
<1>e. /\ sample_pc[t] = "New" /\ sample_pc' = [sample_pc EXCEPT ![t] = "PushNew"]
      /\ all_' = all_ /\ dead' = dead /\ init_mu' = init_mu /\ must' = must /\ seen' = seen
      /\ sample[t] = NoSample
  BY DEF SampleTypes
<1>p. /\ s \notin Published /\ all_ # s /\ dead[s] = NoSample
      /\ \A y \in Samples : sample_next[y] # s
  <2>1. s \notin Published
    BY <1>s DEF Published
  <2>2. all_ # s /\ \A y \in Samples : sample_next[y] # s
    BY <1>s, <2>1 DEF Pointers
  <2>3. dead[s] = NoSample
    BY <1>s DEF GraveyardCircle, Made
  <2> QED BY <2>1, <2>2, <2>3
<1> HIDE DEF SR!Created
<1>m. Made' = Made \cup {s} /\ Published' = Published
  <2>1. Made' = Made \cup {s}
    BY <1>s DEF SampleTypes, Made
  <2> QED BY SMTT(30), <1>s, <2>1 DEF SampleTypes, Published, Made
<1>r. \A x, z : x # s /\ Reaches(x, z) => Reaches(x, z)'
  BY <1>p, ReachesKept
<1>1. SampleTypes'
  <2>1. sample' \in [SR!Processes -> Samples \cup {NoSample}] /\ sample'[t] = s
    BY <1>s DEF SampleTypes
  <2>2. sample_next' \in [Samples -> Samples \cup {NoSample}] /\ ready' \subseteq Samples
    BY SMTT(30), <1>s DEF SampleTypes
  <2>3. sample_pc' \in [SR!Processes -> {"idle", "Lock", "f", "Next"} \cup HasNone \cup HasOne]
    BY <1>e DEF SampleTypes
  <2>4. \A u \in Clients : u # t => sample'[u] = sample[u] /\ sample_pc'[u] = sample_pc[u]
    BY <1>e DEF SampleTypes
  <2>5. \A i \in Iterators : sample'[i] = sample[i] /\ sample_pc'[i] = sample_pc[i]
    BY <1>e DEF SampleTypes, SampleAssumption
  <2>6. sample_pc'[t] = "PushNew"
    BY <1>e DEF SampleTypes
  <2> HIDE DEF SR!New
  <2> QED BY <1>s, <1>e, <2>1, <2>2, <2>3, <2>4, <2>5, <2>6 DEF SampleTypes
<1>2. SampleLocks'
  BY SMTT(30) DEF SampleTypes, SampleLocks
<1>3. OneClient'
  BY <1>m, <1>s DEF SampleTypes, OneClient
<1>4. GraveyardCircle'
  BY <1>s, <1>p DEF SampleTypes, GraveyardCircle
<1>5. LiveIsOwned'
  <2>1. \A i \in Iterators : i # t
    BY DEF SampleAssumption
  <2>2. \A i \in Iterators : sample_pc'[i] = "f" => dead'[sample'[i]] = NoSample
    BY <2>1 DEF SampleTypes, LiveIsOwned
  <2>3. ASSUME NEW z \in Made, dead[z] = NoSample
        PROVE  \E u \in Clients : sample'[u] = z /\ sample_pc'[u] # "Uncount"
    BY SMTT(30), <2>3, <1>s DEF SampleTypes, LiveIsOwned, Made
  <2>4. sample'[t] = s /\ sample_pc'[t] # "Uncount"
    BY DEF SampleTypes
  <2> QED BY <1>m, <2>2, <2>3, <2>4 DEF LiveIsOwned
<1>6. Pointers'
  BY <1>m, <1>s DEF SampleTypes, Pointers, SampleAssumption
<1>7. AllIsListed'
  BY <1>m, <1>r, <1>p DEF AllIsListed
<1>8. WalkGoesOn'
  <2>1. \A i \in Iterators : i # t /\ sample[i] # s
    BY <1>s DEF SampleAssumption
  <2>2. \A i \in Iterators : sample_pc'[i] = sample_pc[i] /\ Ahead(i)' = Ahead(i) /\ Ahead(i) # s
    BY SMTT(30), <1>s, <1>p, <2>1 DEF SampleTypes, Ahead
  <2>3. SR!Registered' = SR!Registered
    <3>1. /\ sample_pc[t] # "idle" /\ sample_pc'[t] # "idle"
          /\ \A u \in Clients : u # t => sample'[u] = sample[u] /\ sample_pc'[u] = sample_pc[u]
      BY <1>e DEF SampleTypes
    <3> HIDE DEF SR!New, SampleIInv
    <3> QED BY <3>1 DEF SR!Registered
  <2> HIDE DEF SR!New
  <2> QED BY <1>r, <1>e, <2>2, <2>3 DEF WalkGoesOn, SR!VisitsAllRegistered
<1>9. SizeCounts'
  <2>1. Counted' = Counted /\ LetIn' = LetIn
    BY DEF SampleTypes, Counted, LetIn, SampleAssumption
  <2> QED BY <2>1 DEF SizeCounts
<1> QED
  BY <1>1, <1>2, <1>3, <1>4, <1>5, <1>6, <1>7, <1>8, <1>9

\* It becomes the head of the list.
LEMMA PushNewDoneInv ==
    ASSUME SampleIInv, NEW t \in Clients, SR!PushNew(t), sample_next[sample[t]] = all_
    PROVE  SampleIInv'
<1> USE SampleAssumption DEF SampleIInv
<1> USE DEF SR!PushNew, SR!Goto, SR!lists, SR!counts, SR!visits, HasNone,
            HasOne, AtGraveyard, Nodes, SR!Processes
<1>s. /\ sample[t] \in Samples /\ sample[t] \in Made /\ sample[t] # NoSample
      /\ \A u \in Clients : u # t /\ sample_pc[u] = "PushNew" => sample[u] # sample[t]
      /\ all_' = sample[t] /\ sample_next' = sample_next
      /\ sample_pc' = [sample_pc EXCEPT ![t] = "idle"]
  BY DEF SampleTypes, OneClient
<1>m. Made' = Made /\ Published' = Published \cup {sample[t]}
  <2>1. Made' = Made
    BY <1>s DEF SampleTypes, Made
  <2> QED BY SMTT(30), <1>s, <2>1 DEF SampleTypes, Published
<1>r. \A x, s : Reaches(x, s)' <=> Reaches(x, s)
  BY <1>s, ReachesSame
<1>1. SampleTypes'
  BY SMTT(30) DEF SampleTypes
<1>2. SampleLocks'
  BY SMTT(30) DEF SampleTypes, SampleLocks
<1>3. OneClient'
  BY SMTT(30), <1>m DEF SampleTypes, OneClient
<1>4. GraveyardCircle'
  BY SMTT(30) DEF SampleTypes, GraveyardCircle
<1>5. LiveIsOwned'
  BY SMTT(30), <1>m DEF SampleTypes, LiveIsOwned
<1>6. Pointers'
  BY <1>m, <1>s DEF SampleTypes, Pointers
<1>7. AllIsListed'
  <2>1. \A s \in Published : Reaches(sample_next[sample[t]], s)
    BY DEF AllIsListed
  <2>2. \A s \in Published \cup {sample[t]} : Reaches(sample[t], s)
    BY <1>s, <2>1, ReachesHead
  <2> QED BY <1>m, <1>r, <1>s, <2>2 DEF AllIsListed
<1>8. WalkGoesOn'
  <2>1. \A i \in Iterators : i # t
    BY DEF SampleAssumption
  <2>2. \A i \in Iterators : sample_pc'[i] = sample_pc[i] /\ Ahead(i)' = Ahead(i)
    BY <1>s, <2>1 DEF SampleTypes, Ahead
  <2>3. SR!Registered \subseteq SR!Registered'
    <3>1. \A u \in Clients :
             sample'[u] = sample[u] /\ (sample_pc[u] = "idle" => sample_pc'[u] = "idle")
      BY <1>s DEF SampleTypes
    <3> QED BY <3>1 DEF SR!Registered
  <2> QED BY <1>r, <2>2, <2>3 DEF WalkGoesOn, SR!VisitsAllRegistered
<1>9. SizeCounts'
  <2>1. Counted' = Counted /\ LetIn' = LetIn
    BY SMTT(30) DEF SampleTypes, Counted, LetIn, SampleAssumption
  <2> QED BY <2>1 DEF SizeCounts
<1> QED
  BY <1>1, <1>2, <1>3, <1>4, <1>5, <1>6, <1>7, <1>8, <1>9

\* The head has changed meanwhile, and is read again.
LEMMA PushNewAgainInv ==
    ASSUME SampleIInv, NEW t \in Clients, SR!PushNew(t), sample_next[sample[t]] # all_
    PROVE  SampleIInv'
<1> USE SampleAssumption DEF SampleIInv
<1> USE DEF SR!PushNew, SR!Goto, SR!lists, SR!counts, SR!visits, HasNone,
            HasOne, AtGraveyard, Nodes, SR!Processes
<1>s. /\ sample[t] \in Samples /\ sample[t] # NoSample /\ sample[t] \notin Published
      /\ sample_next' = [sample_next EXCEPT ![sample[t]] = all_]
      /\ all_' = all_ /\ sample_pc' = sample_pc
  BY DEF SampleTypes, Published
<1>p. all_ # sample[t] /\ \A y \in Samples : sample_next[y] # sample[t]
  BY <1>s DEF Pointers
<1>m. Made' = Made /\ Published' = Published
  BY <1>s DEF Made, Published
<1>r. \A x, z : x # sample[t] /\ Reaches(x, z) => Reaches(x, z)'
  BY <1>s, <1>p, ReachesKept
<1>1. SampleTypes'
  BY SMTT(30) DEF SampleTypes
<1>2. SampleLocks'
  BY SMTT(30) DEF SampleTypes, SampleLocks
<1>3. OneClient'
  BY <1>m DEF SampleTypes, OneClient
<1>4. GraveyardCircle'
  BY DEF SampleTypes, GraveyardCircle
<1>5. LiveIsOwned'
  BY SMTT(30), <1>m DEF SampleTypes, LiveIsOwned
<1>6. Pointers'
  BY SMTT(30), <1>m DEF SampleTypes, Pointers
<1>7. AllIsListed'
  BY <1>m, <1>r, <1>s, <1>p DEF AllIsListed
<1>8. WalkGoesOn'
  <2>1. \A i \in Iterators : sample[i] # sample[t]
    BY <1>s DEF Pointers
  <2>2. \A i \in Iterators : Ahead(i)' = Ahead(i) /\ Ahead(i) # sample[t]
    BY <1>s, <1>p, <2>1 DEF SampleTypes, Ahead
  <2>3. SR!Registered' = SR!Registered
    BY <1>s DEF SR!Registered
  <2> QED BY <1>r, <1>s, <2>2, <2>3 DEF WalkGoesOn, SR!VisitsAllRegistered
<1>9. SizeCounts'
  <2>1. Counted' = Counted /\ LetIn' = LetIn
    BY DEF SampleTypes, Counted, LetIn, SampleAssumption
  <2> QED BY <2>1 DEF SizeCounts
<1> QED
  BY <1>1, <1>2, <1>3, <1>4, <1>5, <1>6, <1>7, <1>8, <1>9

\* A client begins to give its sample back.
LEMMA UnregisterInv ==
    ASSUME SampleIInv, NEW t \in Clients, SR!Unregister(t)
    PROVE  SampleIInv'
<1> USE SampleAssumption DEF SampleIInv
<1> USE DEF SR!Unregister, SR!Goto, SR!lists, SR!counts, SR!visits, HasNone,
            HasOne, AtGraveyard, Nodes, SR!Processes
<1>m. Made' = Made /\ Published' = Published
  <2>1. /\ sample_pc[t] \notin {"Prepare", "PushNew"} /\ sample_pc'[t] \notin {"Prepare", "PushNew"}
        /\ \A u \in Clients : u # t => sample'[u] = sample[u] /\ sample_pc'[u] = sample_pc[u]
    BY DEF SampleTypes
  <2>2. ready' = ready
    OBVIOUS
  <2> HIDE DEF SR!Unregister, SampleIInv
  <2> QED BY <2>1, <2>2, MadeKept
<1>r. \A x, s : Reaches(x, s)' <=> Reaches(x, s)
  BY ReachesSame
<1>1. SampleTypes'
  BY SMTT(30) DEF SampleTypes
<1>2. SampleLocks'
  BY SMTT(30) DEF SampleTypes, SampleLocks
<1>3. OneClient'
  BY <1>m DEF SampleTypes, OneClient
<1>4. GraveyardCircle'
  BY DEF SampleTypes, GraveyardCircle
<1>5. LiveIsOwned'
  BY <1>m DEF SampleTypes, LiveIsOwned
<1>6. Pointers'
  BY <1>m DEF SampleTypes, Pointers
<1>7. AllIsListed'
  BY <1>m, <1>r DEF AllIsListed
<1>8. WalkGoesOn'
  BY SMTT(30), <1>r DEF SampleTypes, WalkGoesOn, Ahead, SR!Registered,
     SR!VisitsAllRegistered
<1>9. SizeCounts'
  <2>1. Counted' = Counted /\ LetIn' = LetIn
    BY DEF SampleTypes, Counted, LetIn, SampleAssumption
  <2> QED BY <2>1 DEF SizeCounts
<1> QED
  BY <1>1, <1>2, <1>3, <1>4, <1>5, <1>6, <1>7, <1>8, <1>9

\* PushDead has the lock of the graveyard.
LEMMA LockGraveyardInv ==
    ASSUME SampleIInv, NEW t \in Clients, SR!LockGraveyard(t)
    PROVE  SampleIInv'
<1> USE SampleAssumption DEF SampleIInv
<1> USE DEF SR!LockGraveyard, SR!Goto, SR!lists, SR!counts, SR!visits,
            SR!Locks, HasNone, HasOne, AtGraveyard, Nodes, SR!Processes
<1>m. Made' = Made /\ Published' = Published
  <2>1. /\ sample_pc[t] \notin {"Prepare", "PushNew"} /\ sample_pc'[t] \notin {"Prepare", "PushNew"}
        /\ \A u \in Clients : u # t => sample'[u] = sample[u] /\ sample_pc'[u] = sample_pc[u]
    BY DEF SampleTypes
  <2>2. ready' = ready
    OBVIOUS
  <2> HIDE DEF SR!LockGraveyard, SampleIInv
  <2> QED BY <2>1, <2>2, MadeKept
<1>r. \A x, s : Reaches(x, s)' <=> Reaches(x, s)
  BY ReachesSame
<1>1. SampleTypes'
  BY DEF SampleTypes
<1>2. SampleLocks'
  BY DEF SampleTypes, SampleLocks
<1>3. OneClient'
  BY <1>m DEF SampleTypes, OneClient
<1>4. GraveyardCircle'
  BY DEF SampleTypes, GraveyardCircle
<1>5. LiveIsOwned'
  BY <1>m DEF SampleTypes, LiveIsOwned
<1>6. Pointers'
  BY <1>m DEF SampleTypes, Pointers
<1>7. AllIsListed'
  BY <1>m, <1>r DEF AllIsListed
<1>8. WalkGoesOn'
  <2>1. \A j \in Iterators : j # t /\ j \in SR!Processes
    BY DEF SampleAssumption
  <2>2. \A j \in Iterators : sample_pc'[j] = sample_pc[j] /\ Ahead(j)' = Ahead(j)
    BY <2>1 DEF SampleTypes, Ahead
  <2>3. SR!Registered' = SR!Registered
    <3>1. /\ sample_pc[t] # "idle" \/ sample[t] = NoSample
          /\ sample_pc'[t] # "idle" \/ sample'[t] = NoSample
          /\ \A u \in Clients : u # t => sample'[u] = sample[u] /\ sample_pc'[u] = sample_pc[u]
      BY DEF SampleTypes
    <3> HIDE DEF SR!LockGraveyard, SampleIInv
    <3> QED BY <3>1 DEF SR!Registered
  <2> HIDE DEF SR!LockGraveyard
  <2>4. must' = must /\ seen' = seen
    BY DEF SR!LockGraveyard, SR!visits
  <2> QED BY <1>r, <2>2, <2>3, <2>4 DEF WalkGoesOn, SR!VisitsAllRegistered
<1>9. SizeCounts'
  <2>1. Counted' = Counted /\ LetIn' = LetIn
    BY DEF SampleTypes, Counted, LetIn, SampleAssumption
  <2> QED BY <2>1 DEF SizeCounts
<1> QED
  BY <1>1, <1>2, <1>3, <1>4, <1>5, <1>6, <1>7, <1>8, <1>9

\* A sample joins the graveyard.
LEMMA BuryInv ==
    ASSUME SampleIInv, NEW t \in Clients, SR!Bury(t)
    PROVE  SampleIInv'
<1> USE SampleAssumption DEF SampleIInv
<1> USE DEF SR!Bury, SR!Goto, SR!lists, SR!counts, SR!visits, SR!Unlocks,
            HasNone, HasOne, AtGraveyard, Nodes, SR!Processes
<1>s. /\ sample[t] \in Samples /\ sample[t] # Graveyard /\ sample[t] # NoSample
      /\ dead[sample[t]] = NoSample /\ sample[t] \in ready
  BY SMTT(30) DEF SampleTypes, OneClient, Made, GraveyardCircle, SampleAssumption
<1>d. /\ dead'[Graveyard] = sample[t] /\ dead'[sample[t]] = dead[Graveyard]
      /\ \A x \in Nodes : x # Graveyard /\ x # sample[t] => dead'[x] = dead[x]
      /\ \A x \in Nodes : dead[x] # sample[t]
  <2>1. /\ dead'[Graveyard] = sample[t] /\ dead'[sample[t]] = dead[Graveyard]
        /\ \A x \in Nodes : x # Graveyard /\ x # sample[t] => dead'[x] = dead[x]
    BY <1>s DEF SampleTypes
  <2>2. \A x \in Nodes : dead[x] # sample[t]
    BY <1>s DEF GraveyardCircle
  <2> QED BY <2>1, <2>2
<1>m. Made' = Made /\ Published' = Published
  <2>1. /\ sample_pc[t] \notin {"Prepare", "PushNew"} /\ sample_pc'[t] \notin {"Prepare", "PushNew"}
        /\ \A u \in Clients : u # t => sample'[u] = sample[u] /\ sample_pc'[u] = sample_pc[u]
    BY DEF SampleTypes
  <2>2. ready' = ready
    OBVIOUS
  <2> HIDE DEF SR!Bury, SampleIInv
  <2> QED BY <2>1, <2>2, MadeKept
<1>r. \A x, s : Reaches(x, s)' <=> Reaches(x, s)
  BY ReachesSame
<1>1. SampleTypes'
  BY DEF SampleTypes
<1>2. SampleLocks'
  BY SMTT(30) DEF SampleTypes, SampleLocks
<1>3. OneClient'
  BY <1>m DEF SampleTypes, OneClient
<1>4. GraveyardCircle'
  <2>1. dead'[Graveyard] # NoSample
    BY <1>s, <1>d
  <2>2. \A s \in Nodes : dead'[s] # NoSample =>
          /\ dead'[s] \in Nodes /\ dead'[dead'[s]] # NoSample
          /\ s # Graveyard => s \in ready'
    <3>1. ready' = ready
      OBVIOUS
    <3> HIDE DEF SR!Bury
    <3> QED BY SMTT(30), <1>s, <1>d, <3>1 DEF GraveyardCircle
  <2>3. \A s, r \in Nodes : dead'[s] # NoSample /\ dead'[s] = dead'[r] => s = r
    <3>1. \A s, r \in Nodes : dead[s] # NoSample /\ dead[s] = dead[r] => s = r
      BY DEF GraveyardCircle
    <3>2. Graveyard \in Nodes /\ sample[t] \in Nodes /\ dead[Graveyard] # NoSample
      BY <1>s DEF GraveyardCircle
    <3> HIDE DEF SR!Bury, Nodes
    <3> SUFFICES ASSUME NEW s \in Nodes, NEW r \in Nodes, dead'[s] # NoSample, dead'[s] = dead'[r]
                 PROVE  s = r
      OBVIOUS
    <3>3. CASE s = Graveyard \/ r = Graveyard
      BY <1>d, <3>2, <3>3
    <3>4. CASE s # Graveyard /\ r # Graveyard
      <4>1. CASE s = sample[t]
        BY <1>d, <3>1, <3>2, <3>4, <4>1
      <4>2. CASE r = sample[t]
        BY <1>d, <3>1, <3>2, <3>4, <4>2
      <4>3. CASE s # sample[t] /\ r # sample[t]
        BY <1>d, <3>1, <3>4, <4>3
      <4> QED BY <4>1, <4>2, <4>3
    <3> QED BY <3>3, <3>4
  <2>4. ASSUME NEW u \in Clients, sample'[u] # NoSample, sample_pc'[u] # "Uncount"
        PROVE  dead'[sample'[u]] = NoSample
    <3>1. u # t /\ sample_pc[u] # "Uncount" /\ sample[u] \in Samples
      BY <2>4 DEF SampleTypes
    <3>2. sample[u] # sample[t]
      BY <2>4, <3>1 DEF OneClient
    <3> QED BY <1>d, <2>4, <3>1, <3>2 DEF GraveyardCircle, SampleAssumption
  <2>5. dead'[Graveyard] # Graveyard
    BY <1>s, <1>d
  <2> QED BY <2>1, <2>2, <2>3, <2>4, <2>5 DEF GraveyardCircle
<1>5. LiveIsOwned'
  <2>1. ASSUME NEW i \in Iterators, sample_pc'[i] = "f" PROVE dead'[sample'[i]] = NoSample
    <3>1. i # t /\ i # NoSample
      BY DEF SampleAssumption
    <3>2. sample_pc[i] = "f" /\ sample[i] \in Samples
      BY <2>1, <3>1 DEF SampleTypes
    <3>3. init_mu[sample[i]] = i
      BY <3>2 DEF SampleLocks
    <3>4. sample[i] # sample[t]
      BY <3>1, <3>3
    <3> QED BY <1>d, <3>2, <3>4 DEF LiveIsOwned, SampleAssumption
  <2>2. ASSUME NEW s \in Made, dead'[s] = NoSample
        PROVE  \E u \in Clients : sample'[u] = s /\ sample_pc'[u] # "Uncount"
    <3>1. s \in Samples /\ s # sample[t] /\ dead[s] = NoSample
      BY <1>s, <1>d, <2>2 DEF Made, SampleTypes, GraveyardCircle, SampleAssumption
    <3>2. PICK u \in Clients : sample[u] = s /\ sample_pc[u] # "Uncount"
      BY <3>1 DEF LiveIsOwned
    <3>3. u # t
      BY <3>1, <3>2
    <3> QED BY <3>2, <3>3 DEF SampleTypes
  <2> QED BY <1>m, <2>1, <2>2 DEF LiveIsOwned
<1>6. Pointers'
  BY <1>m DEF SampleTypes, Pointers
<1>7. AllIsListed'
  BY <1>m, <1>r DEF AllIsListed
<1>8. WalkGoesOn'
  <2>1. \A j \in Iterators : j # t /\ j \in SR!Processes
    BY DEF SampleAssumption
  <2>2. \A j \in Iterators : sample_pc'[j] = sample_pc[j] /\ Ahead(j)' = Ahead(j)
    BY <2>1 DEF SampleTypes, Ahead
  <2>3. SR!Registered' = SR!Registered
    <3>1. /\ sample_pc[t] # "idle" \/ sample[t] = NoSample
          /\ sample_pc'[t] # "idle" \/ sample'[t] = NoSample
          /\ \A u \in Clients : u # t => sample'[u] = sample[u] /\ sample_pc'[u] = sample_pc[u]
      BY DEF SampleTypes
    <3> HIDE DEF SR!Bury, SampleIInv
    <3> QED BY <3>1 DEF SR!Registered
  <2> HIDE DEF SR!Bury
  <2>4. must' = must /\ seen' = seen
    BY DEF SR!Bury, SR!visits
  <2> QED BY <1>r, <2>2, <2>3, <2>4 DEF WalkGoesOn, SR!VisitsAllRegistered
<1>9. SizeCounts'
  <2>1. Counted' = Counted /\ LetIn' = LetIn
    BY DEF SampleTypes, Counted, LetIn, SampleAssumption
  <2> QED BY <2>1 DEF SizeCounts
<1> QED
  BY <1>1, <1>2, <1>3, <1>4, <1>5, <1>6, <1>7, <1>8, <1>9

\* A client has given its sample back.
LEMMA UncountInv ==
    ASSUME SampleIInv, NEW t \in Clients, SR!Uncount(t)
    PROVE  SampleIInv'
<1> USE SampleAssumption DEF SampleIInv
<1> USE DEF SR!Uncount, SR!Goto, SR!lists, SR!counts, SR!visits, HasNone,
            HasOne, AtGraveyard, Nodes, SR!Processes
<1>m. Made' = Made /\ Published' = Published
  <2>1. /\ sample_pc[t] \notin {"Prepare", "PushNew"} /\ sample_pc'[t] \notin {"Prepare", "PushNew"}
        /\ \A u \in Clients : u # t => sample'[u] = sample[u] /\ sample_pc'[u] = sample_pc[u]
    BY DEF SampleTypes
  <2>2. ready' = ready
    OBVIOUS
  <2> HIDE DEF SR!Uncount, SampleIInv
  <2> QED BY <2>1, <2>2, MadeKept
<1>r. \A x, s : Reaches(x, s)' <=> Reaches(x, s)
  BY ReachesSame
<1>1. SampleTypes'
  BY DEF SampleTypes
<1>2. SampleLocks'
  BY DEF SampleTypes, SampleLocks
<1>3. OneClient'
  BY <1>m DEF SampleTypes, OneClient
<1>4. GraveyardCircle'
  BY DEF SampleTypes, GraveyardCircle
<1>5. LiveIsOwned'
  <2>1. \A i \in Iterators : i # t /\ i \in SR!Processes
    BY DEF SampleAssumption
  <2>2. \A i \in Iterators : sample_pc'[i] = "f" => dead'[sample'[i]] = NoSample
    BY <2>1 DEF SampleTypes, LiveIsOwned
  <2>3. ASSUME NEW s \in Made, dead[s] = NoSample
        PROVE  \E u \in Clients : sample'[u] = s /\ sample_pc'[u] # "Uncount"
    <3>1. PICK u \in Clients : sample[u] = s /\ sample_pc[u] # "Uncount"
      BY <2>3 DEF LiveIsOwned
    <3>2. u # t
      BY <3>1
    <3> QED BY <3>1, <3>2 DEF SampleTypes
  <2> QED BY <1>m, <2>2, <2>3 DEF LiveIsOwned
<1>6. Pointers'
  BY <1>m DEF SampleTypes, Pointers
<1>7. AllIsListed'
  BY <1>m, <1>r DEF AllIsListed
<1>8. WalkGoesOn'
  <2>1. \A j \in Iterators : j # t /\ j \in SR!Processes
    BY DEF SampleAssumption
  <2>2. \A j \in Iterators : sample_pc'[j] = sample_pc[j] /\ Ahead(j)' = Ahead(j)
    BY <2>1 DEF SampleTypes, Ahead
  <2>3. SR!Registered' = SR!Registered
    <3>1. /\ sample_pc[t] # "idle" /\ sample'[t] = NoSample
          /\ \A u \in Clients : u # t => sample'[u] = sample[u] /\ sample_pc'[u] = sample_pc[u]
      BY DEF SampleTypes
    <3> HIDE DEF SR!Uncount, SampleIInv
    <3> QED BY <3>1 DEF SR!Registered
  <2> HIDE DEF SR!Uncount
  <2>4. must' = must /\ seen' = seen
    BY DEF SR!Uncount, SR!visits
  <2> QED BY <1>r, <2>2, <2>3, <2>4 DEF WalkGoesOn, SR!VisitsAllRegistered
<1>9. SizeCounts'
  <2>1. Counted' = Counted \ {t} /\ t \in Counted /\ LetIn' = LetIn \ {t} /\ t \in LetIn
    BY DEF SampleTypes, Counted, LetIn
  <2>2. Cardinality(Counted') = Cardinality(Counted) - 1
    BY <2>1, CountsFinite, FS_RemoveElement
  <2>3. Cardinality(LetIn') = Cardinality(LetIn) - 1
    BY <2>1, CountsFinite, FS_RemoveElement
  <2> QED BY <2>2, <2>3, CountsFinite DEF SizeCounts, SampleAssumption
<1> QED
  BY <1>1, <1>2, <1>3, <1>4, <1>5, <1>6, <1>7, <1>8, <1>9

(***************************************************************************)
(* A step of an iterator leaves what the clients have, the lists and the   *)
(* counts alone.                                                           *)
(***************************************************************************)
ClientsKept ==
    /\ \A t \in Clients : sample'[t] = sample[t] /\ sample_pc'[t] = sample_pc[t]
    /\ UNCHANGED <<all_, sample_next, dead, ready, size_estimate_, dropped_samples_>>

\* What such a step preserves.
LEMMA IteratorKeeps ==
    ASSUME SampleIInv, ClientsKept
    PROVE  /\ Made' = Made /\ Published' = Published /\ SR!Registered' = SR!Registered
           /\ OneClient' /\ GraveyardCircle' /\ AllIsListed' /\ SizeCounts'
           /\ \A s \in Made' : dead'[s] = NoSample =>
                \E t \in Clients : sample'[t] = s /\ sample_pc'[t] # "Uncount"
           /\ \A x, s : Reaches(x, s)' <=> Reaches(x, s)
<1> USE DEF SampleIInv, ClientsKept
<1>1. Made' = Made
  BY DEF Made
<1>2. Published' = Published
  BY <1>1 DEF Published
<1>3. SR!Registered' = SR!Registered
  BY DEF SR!Registered
<1>4. OneClient'
  BY <1>1 DEF OneClient
<1>5. GraveyardCircle'
  BY DEF GraveyardCircle
<1>6. \A x, s : Reaches(x, s)' <=> Reaches(x, s)
  BY ReachesSame
<1>7. AllIsListed'
  BY <1>2, <1>6 DEF AllIsListed
<1>8. SizeCounts'
  <2>1. Counted' = Counted /\ LetIn' = LetIn
    BY DEF Counted, LetIn
  <2> QED BY <2>1 DEF SizeCounts
<1>9. \A s \in Made' : dead'[s] = NoSample =>
        \E t \in Clients : sample'[t] = s /\ sample_pc'[t] # "Uncount"
  BY <1>1 DEF LiveIsOwned
<1> QED BY <1>1, <1>2, <1>3, <1>4, <1>5, <1>6, <1>7, <1>8, <1>9

\* The types after a step of an iterator.
LEMMA IteratorTypes ==
    ASSUME SampleTypes, SampleAssumption, ClientsKept, NEW i \in Iterators,
           NEW l \in {"idle", "Lock", "f", "Next"}, sample_pc' = [sample_pc EXCEPT ![i] = l],
           NEW x \in Samples \cup {NoSample}, sample' = [sample EXCEPT ![i] = x],
           l \in {"f", "Next"} => x # NoSample,
           init_mu' \in [Nodes -> SR!Processes \cup {NoSample}],
           must' \in [Iterators -> SUBSET Samples], seen' \in [Iterators -> SUBSET Samples]
    PROVE  SampleTypes'
<1>1. i \in SR!Processes /\ Iterators \subseteq SR!Processes /\ Clients \subseteq SR!Processes
  BY DEF SR!Processes
<1>2. /\ sample' \in [SR!Processes -> Samples \cup {NoSample}]
      /\ sample_pc' \in [SR!Processes -> {"idle", "Lock", "f", "Next"} \cup HasNone \cup HasOne]
  BY <1>1 DEF SampleTypes
<1>3. \A t \in Clients :
        /\ sample_pc'[t] \in {"idle"} \cup HasNone \cup HasOne
        /\ sample_pc'[t] \in HasNone => sample'[t] = NoSample
        /\ sample_pc'[t] \in HasOne => sample'[t] # NoSample
  BY DEF SampleTypes, ClientsKept
<1>4. \A j \in Iterators :
        /\ sample_pc'[j] \in {"idle", "Lock", "f", "Next"}
        /\ sample_pc'[j] \in {"f", "Next"} => sample'[j] # NoSample
  BY <1>1 DEF SampleTypes
<1> QED BY <1>2, <1>3, <1>4 DEF SampleTypes, ClientsKept

\* Iterate starts at the head of the list.
LEMMA IterateInv ==
    ASSUME SampleIInv, NEW i \in Iterators, SR!Iterate(i)
    PROVE  SampleIInv'
<1> USE SampleAssumption DEF SampleIInv
<1>s. /\ sample_pc[i] = "idle"
      /\ sample_pc' = [sample_pc EXCEPT ![i] = "Lock"]
      /\ sample' = [sample EXCEPT ![i] = all_]
      /\ init_mu' = init_mu
      /\ must' = [must EXCEPT ![i] = SR!Registered]
      /\ seen' = [seen EXCEPT ![i] = {}]
  BY DEF SR!Iterate, SR!Goto, SR!visits, SR!Locks, SR!Unlocks, SampleTypes
<1>c. i \notin Clients /\ i \in SR!Processes /\ i # NoSample /\ Iterators \subseteq SR!Processes
  BY DEF SampleAssumption, SR!Processes
<1>k. ClientsKept
  BY <1>c DEF ClientsKept, SR!Iterate, SR!Goto, SR!lists, SR!counts, SampleTypes, SR!Processes
<1>t. SR!Registered \subseteq Samples
  BY RegisteredIsPublished
<1>1. SampleTypes'
  <2>1. init_mu' \in [Nodes -> SR!Processes \cup {NoSample}]
    BY <1>s, <1>c DEF SampleTypes, Nodes
  <2>2. must' \in [Iterators -> SUBSET Samples] /\ seen' \in [Iterators -> SUBSET Samples]
    BY <1>s, <1>t DEF SampleTypes
  <2>3. all_ \in Samples \cup {NoSample}
    BY <1>s, <1>c DEF SampleTypes
  <2> QED BY <1>s, <1>k, <2>1, <2>2, <2>3, IteratorTypes
<1>2. SampleLocks'
  <2>1. init_mu'[Graveyard] = init_mu[Graveyard]
    BY <1>s, <1>c DEF SampleTypes, SampleLocks, Nodes, SampleAssumption
  <2>2. \A u \in SR!Processes :
          init_mu'[Graveyard] = u <=> u \in Clients /\ sample_pc'[u] \in AtGraveyard
    BY <1>k, <2>1 DEF SampleLocks, ClientsKept
  <2>3. \A u \in SR!Processes : u # i => sample'[u] = sample[u] /\ sample_pc'[u] = sample_pc[u]
    BY <1>s DEF SampleTypes
  <2>4. ASSUME NEW u \in SR!Processes, u # i, NEW s \in Samples
        PROVE  init_mu'[s] = u <=> sample'[u] = s /\ sample_pc'[u] \in {"Prepare", "f", "Next"}
    <3>1. init_mu'[s] = u <=> init_mu[s] = u
      BY <1>s, <1>c, <2>4 DEF SampleTypes, Nodes, SampleAssumption, SR!Processes
    <3>2. init_mu[s] = u <=> sample[u] = s /\ sample_pc[u] \in {"Prepare", "f", "Next"}
      BY <2>4 DEF SampleLocks
    <3> HIDE DEF SampleIInv
    <3> QED BY <2>3, <2>4, <3>1, <3>2
  <2>5. ASSUME NEW s \in Samples
        PROVE  init_mu'[s] = i <=> sample'[i] = s /\ sample_pc'[i] \in {"Prepare", "f", "Next"}
    BY SMTT(30), <1>s, <1>c DEF SampleTypes, SampleLocks, Nodes
  <2> QED BY <2>2, <2>4, <2>5 DEF SampleLocks
<1>3. LiveIsOwned'
  <2>1. \A j \in Iterators : sample_pc'[j] = "f" => dead'[sample'[j]] = NoSample
    BY <1>s, <1>c, <1>k DEF SampleTypes, LiveIsOwned, ClientsKept
  <2> QED BY <1>k, <2>1, IteratorKeeps DEF LiveIsOwned
<1>4. Pointers'
  <2>1. \A j \in Iterators : sample'[j] \in Published \cup {NoSample}
    BY <1>s, <1>c DEF SampleTypes, Pointers
  <2> QED BY <1>k, <2>1, IteratorKeeps DEF Pointers, ClientsKept
<1>5. WalkGoesOn'
  <2>1. \A j \in Iterators : j # i =>
          /\ must'[j] = must[j] /\ seen'[j] = seen[j] /\ sample_pc'[j] = sample_pc[j]
          /\ sample'[j] = sample[j] /\ Ahead(j)' = Ahead(j)
    BY <1>s, <1>c, <1>k DEF SampleTypes, Ahead, ClientsKept
  <2>2. must'[i] = SR!Registered /\ Ahead(i)' = all_ /\ sample_pc'[i] = "Lock"
    BY <1>s, <1>c DEF SampleTypes, Ahead
  <2>3. \A s \in SR!Registered : Reaches(all_, s)
    BY RegisteredIsPublished DEF AllIsListed
  <2>4. \A j \in Iterators : must'[j] \subseteq SR!Registered'
    <3>1. \A j \in Iterators : must[j] \subseteq SR!Registered
      BY DEF WalkGoesOn
    <3>2. \A j \in Iterators : must'[j] \subseteq SR!Registered
      BY <2>1, <2>2, <3>1
    <3> QED BY <1>k, <3>2, IteratorKeeps
  <2>5. ASSUME NEW j \in Iterators, sample_pc'[j] # "idle", NEW s \in must'[j]
        PROVE  s \in seen'[j] \/ Reaches(Ahead(j), s)'
    <3>1. s \in seen'[j] \/ Reaches(Ahead(j)', s)
      BY <2>1, <2>2, <2>3, <2>5 DEF WalkGoesOn
    <3> QED BY <1>k, <3>1, IteratorKeeps
  <2>6. SR!VisitsAllRegistered'
    BY <2>1, <2>2, <2>3 DEF WalkGoesOn, SR!VisitsAllRegistered
  <2> QED BY <2>4, <2>5, <2>6 DEF WalkGoesOn
<1> QED
  BY <1>1, <1>2, <1>3, <1>4, <1>5, <1>k, IteratorKeeps

\* Iterate locks a sample and looks whether it is dead.
LEMMA LockSampleInv ==
    ASSUME SampleIInv, NEW i \in Iterators, SR!LockSample(i)
    PROVE  SampleIInv'
<1> USE SampleAssumption DEF SampleIInv
<1>s. /\ sample_pc[i] = "Lock" /\ sample[i] # NoSample
      /\ sample_pc' = [sample_pc EXCEPT ![i] = (IF dead[sample[i]] = NoSample THEN "f" ELSE "Next")]
      /\ sample' = [sample EXCEPT ![i] = sample[i]]
      /\ init_mu[sample[i]] = NoSample /\ init_mu' = [init_mu EXCEPT ![sample[i]] = i]
      /\ must' = must /\ seen' = seen
  BY DEF SR!LockSample, SR!Goto, SR!visits, SR!Locks, SR!Unlocks, SampleTypes
<1>c. i \notin Clients /\ i \in SR!Processes /\ i # NoSample /\ Iterators \subseteq SR!Processes
  BY DEF SampleAssumption, SR!Processes
<1>k. ClientsKept
  BY <1>c DEF ClientsKept, SR!LockSample, SR!Goto, SR!lists, SR!counts, SampleTypes, SR!Processes
<1>1. SampleTypes'
  <2>1. init_mu' \in [Nodes -> SR!Processes \cup {NoSample}]
    BY <1>s, <1>c DEF SampleTypes, Nodes
  <2>2. must' \in [Iterators -> SUBSET Samples] /\ seen' \in [Iterators -> SUBSET Samples]
    BY <1>s, <1>c DEF SampleTypes
  <2>3. sample[i] \in Samples \cup {NoSample} /\ sample[i] # NoSample
    BY <1>s, <1>c DEF SampleTypes
  <2> QED BY <1>s, <1>k, <2>1, <2>2, <2>3, IteratorTypes
<1>2. SampleLocks'
  <2>1. init_mu'[Graveyard] = init_mu[Graveyard]
    BY SMTT(30), <1>s, <1>c DEF SampleTypes, SampleLocks, Nodes, SampleAssumption
  <2>2. \A u \in SR!Processes :
          init_mu'[Graveyard] = u <=> u \in Clients /\ sample_pc'[u] \in AtGraveyard
    BY <1>k, <2>1 DEF SampleLocks, ClientsKept
  <2>3. \A u \in SR!Processes : u # i => sample'[u] = sample[u] /\ sample_pc'[u] = sample_pc[u]
    BY <1>s DEF SampleTypes
  <2>4. ASSUME NEW u \in SR!Processes, u # i, NEW s \in Samples
        PROVE  init_mu'[s] = u <=> sample'[u] = s /\ sample_pc'[u] \in {"Prepare", "f", "Next"}
    <3>1. init_mu'[s] = u <=> init_mu[s] = u
      BY <1>s, <1>c, <2>4 DEF SampleTypes, Nodes, SampleAssumption, SR!Processes
    <3>2. init_mu[s] = u <=> sample[u] = s /\ sample_pc[u] \in {"Prepare", "f", "Next"}
      BY <2>4 DEF SampleLocks
    <3> HIDE DEF SampleIInv
    <3> QED BY <2>3, <2>4, <3>1, <3>2
  <2>5. ASSUME NEW s \in Samples
        PROVE  init_mu'[s] = i <=> sample'[i] = s /\ sample_pc'[i] \in {"Prepare", "f", "Next"}
    BY SMTT(30), <1>s, <1>c DEF SampleTypes, SampleLocks, Nodes
  <2> QED BY <2>2, <2>4, <2>5 DEF SampleLocks
<1>3. LiveIsOwned'
  <2>1. \A j \in Iterators : sample_pc'[j] = "f" => dead'[sample'[j]] = NoSample
    BY <1>s, <1>c, <1>k DEF SampleTypes, LiveIsOwned, ClientsKept
  <2> QED BY <1>k, <2>1, IteratorKeeps DEF LiveIsOwned
<1>4. Pointers'
  <2>1. \A j \in Iterators : sample'[j] \in Published \cup {NoSample}
    BY <1>s, <1>c DEF SampleTypes, Pointers
  <2> QED BY <1>k, <2>1, IteratorKeeps DEF Pointers, ClientsKept
<1>5. WalkGoesOn'
  <2>1. \A j \in Iterators : j # i =>
          /\ must'[j] = must[j] /\ seen'[j] = seen[j] /\ sample_pc'[j] = sample_pc[j]
          /\ sample'[j] = sample[j] /\ Ahead(j)' = Ahead(j)
    BY <1>s, <1>c, <1>k DEF SampleTypes, Ahead, ClientsKept
  <2>2. /\ must'[i] = must[i] /\ seen'[i] = seen[i] /\ sample_pc'[i] # "idle"
        /\ sample[i] \in Samples /\ sample'[i] = sample[i] /\ Ahead(i) = sample[i]
        /\ Ahead(i)' = IF dead[sample[i]] = NoSample THEN sample[i] ELSE sample_next[sample[i]]
    <3>1. /\ sample_pc'[i] = IF dead[sample[i]] = NoSample THEN "f" ELSE "Next"
          /\ sample[i] \in Samples /\ sample'[i] = sample[i]
      BY <1>s, <1>c DEF SampleTypes
    <3>2. sample_next' = sample_next
      BY <1>k DEF ClientsKept
    <3> HIDE DEF SampleIInv, SR!LockSample
    <3> QED BY SMTT(30), <1>s, <3>1, <3>2 DEF Ahead
  <2>3. ASSUME NEW s \in must[i] PROVE s \in seen[i] \/ Reaches(Ahead(i)', s)
    <3>1. s \in seen[i] \/ Reaches(sample[i], s)
      BY <1>s, <2>2 DEF WalkGoesOn
    <3>2. ASSUME dead[sample[i]] # NoSample
          PROVE  s \in seen[i] \/ Reaches(sample_next[sample[i]], s)
      <4>1. s \in SR!Registered
        BY DEF WalkGoesOn
      <4>2. s # sample[i]
        BY <3>2, <4>1, RegisteredIsPublished
      <4> QED BY <2>2, <3>1, <4>2, ReachesNext
    <3> QED BY <2>2, <3>1, <3>2
  <2>4. \A j \in Iterators : must'[j] \subseteq SR!Registered'
    <3>1. \A j \in Iterators : must[j] \subseteq SR!Registered
      BY DEF WalkGoesOn
    <3>2. \A j \in Iterators : must'[j] \subseteq SR!Registered
      BY <2>1, <2>2, <3>1
    <3> QED BY <1>k, <3>2, IteratorKeeps
  <2>5. ASSUME NEW j \in Iterators, sample_pc'[j] # "idle", NEW s \in must'[j]
        PROVE  s \in seen'[j] \/ Reaches(Ahead(j), s)'
    <3>1. s \in seen'[j] \/ Reaches(Ahead(j)', s)
      BY <2>1, <2>2, <2>3, <2>5 DEF WalkGoesOn
    <3> QED BY <1>k, <3>1, IteratorKeeps
  <2>6. SR!VisitsAllRegistered'
    BY <2>1, <2>2, <2>3 DEF WalkGoesOn, SR!VisitsAllRegistered
  <2> QED BY <2>4, <2>5, <2>6 DEF WalkGoesOn
<1> QED
  BY <1>1, <1>2, <1>3, <1>4, <1>5, <1>k, IteratorKeeps

\* Iterate calls f.
LEMMA CallFInv ==
    ASSUME SampleIInv, NEW i \in Iterators, SR!CallF(i)
    PROVE  SampleIInv'
<1> USE SampleAssumption DEF SampleIInv
<1>s. /\ sample_pc[i] = "f"
      /\ sample_pc' = [sample_pc EXCEPT ![i] = "Next"]
      /\ sample' = [sample EXCEPT ![i] = sample[i]]
      /\ init_mu' = init_mu
      /\ must' = must /\ seen' = [seen EXCEPT ![i] = @ \cup {sample[i]}]
  BY DEF SR!CallF, SR!Goto, SR!visits, SR!Locks, SR!Unlocks, SampleTypes
<1>c. i \notin Clients /\ i \in SR!Processes /\ i # NoSample /\ Iterators \subseteq SR!Processes
  BY DEF SampleAssumption, SR!Processes
<1>k. ClientsKept
  BY <1>c DEF ClientsKept, SR!CallF, SR!Goto, SR!lists, SR!counts, SampleTypes, SR!Processes
<1>1. SampleTypes'
  <2>1. init_mu' \in [Nodes -> SR!Processes \cup {NoSample}]
    BY <1>s, <1>c DEF SampleTypes, Nodes
  <2>2. must' \in [Iterators -> SUBSET Samples] /\ seen' \in [Iterators -> SUBSET Samples]
    BY <1>s, <1>c DEF SampleTypes
  <2>3. sample[i] \in Samples \cup {NoSample} /\ sample[i] # NoSample
    BY <1>s, <1>c DEF SampleTypes
  <2> QED BY <1>s, <1>k, <2>1, <2>2, <2>3, IteratorTypes
<1>2. SampleLocks'
  <2>1. init_mu'[Graveyard] = init_mu[Graveyard]
    BY <1>s, <1>c DEF SampleTypes, SampleLocks, Nodes, SampleAssumption
  <2>2. \A u \in SR!Processes :
          init_mu'[Graveyard] = u <=> u \in Clients /\ sample_pc'[u] \in AtGraveyard
    BY <1>k, <2>1 DEF SampleLocks, ClientsKept
  <2>3. \A u \in SR!Processes : u # i => sample'[u] = sample[u] /\ sample_pc'[u] = sample_pc[u]
    BY <1>s DEF SampleTypes
  <2>4. ASSUME NEW u \in SR!Processes, u # i, NEW s \in Samples
        PROVE  init_mu'[s] = u <=> sample'[u] = s /\ sample_pc'[u] \in {"Prepare", "f", "Next"}
    <3>1. init_mu'[s] = u <=> init_mu[s] = u
      BY <1>s, <1>c, <2>4 DEF SampleTypes, Nodes, SampleAssumption, SR!Processes
    <3>2. init_mu[s] = u <=> sample[u] = s /\ sample_pc[u] \in {"Prepare", "f", "Next"}
      BY <2>4 DEF SampleLocks
    <3> HIDE DEF SampleIInv
    <3> QED BY <2>3, <2>4, <3>1, <3>2
  <2>5. ASSUME NEW s \in Samples
        PROVE  init_mu'[s] = i <=> sample'[i] = s /\ sample_pc'[i] \in {"Prepare", "f", "Next"}
    BY SMTT(30), <1>s, <1>c DEF SampleTypes, SampleLocks, Nodes
  <2> QED BY <2>2, <2>4, <2>5 DEF SampleLocks
<1>3. LiveIsOwned'
  <2>1. \A j \in Iterators : sample_pc'[j] = "f" => dead'[sample'[j]] = NoSample
    BY <1>s, <1>c, <1>k DEF SampleTypes, LiveIsOwned, ClientsKept
  <2> QED BY <1>k, <2>1, IteratorKeeps DEF LiveIsOwned
<1>4. Pointers'
  <2>1. \A j \in Iterators : sample'[j] \in Published \cup {NoSample}
    BY <1>s, <1>c DEF SampleTypes, Pointers
  <2> QED BY <1>k, <2>1, IteratorKeeps DEF Pointers, ClientsKept
<1>5. WalkGoesOn'
  <2>1. \A j \in Iterators : j # i =>
          /\ must'[j] = must[j] /\ seen'[j] = seen[j] /\ sample_pc'[j] = sample_pc[j]
          /\ sample'[j] = sample[j] /\ Ahead(j)' = Ahead(j)
    BY <1>s, <1>c, <1>k DEF SampleTypes, Ahead, ClientsKept
  <2>2. /\ must'[i] = must[i] /\ seen'[i] = seen[i] \cup {sample[i]} /\ sample_pc'[i] # "idle"
        /\ sample[i] \in Samples /\ Ahead(i)' = sample_next[sample[i]] /\ Ahead(i) = sample[i]
    BY <1>s, <1>c, <1>k DEF SampleTypes, Ahead, ClientsKept
  <2>3. ASSUME NEW s \in must[i] PROVE s \in seen'[i] \/ Reaches(Ahead(i)', s)
    <3>1. s \in seen[i] \/ Reaches(sample[i], s)
      BY <1>s, <2>2 DEF WalkGoesOn
    <3> QED BY <2>2, <3>1, ReachesNext
  <2>4. \A j \in Iterators : must'[j] \subseteq SR!Registered'
    <3>1. \A j \in Iterators : must[j] \subseteq SR!Registered
      BY DEF WalkGoesOn
    <3>2. \A j \in Iterators : must'[j] \subseteq SR!Registered
      BY <2>1, <2>2, <3>1
    <3> QED BY <1>k, <3>2, IteratorKeeps
  <2>5. ASSUME NEW j \in Iterators, sample_pc'[j] # "idle", NEW s \in must'[j]
        PROVE  s \in seen'[j] \/ Reaches(Ahead(j), s)'
    <3>1. s \in seen'[j] \/ Reaches(Ahead(j)', s)
      BY <2>1, <2>2, <2>3, <2>5 DEF WalkGoesOn
    <3> QED BY <1>k, <3>1, IteratorKeeps
  <2>6. SR!VisitsAllRegistered'
    BY <2>1, <2>2, <2>3 DEF WalkGoesOn, SR!VisitsAllRegistered
  <2> QED BY <2>4, <2>5, <2>6 DEF WalkGoesOn
<1> QED
  BY <1>1, <1>2, <1>3, <1>4, <1>5, <1>k, IteratorKeeps

\* Iterate goes on to the next sample.
LEMMA AdvanceInv ==
    ASSUME SampleIInv, NEW i \in Iterators, SR!Advance(i)
    PROVE  SampleIInv'
<1> USE SampleAssumption DEF SampleIInv
<1>s. /\ sample_pc[i] = "Next"
      /\ sample_pc' = [sample_pc EXCEPT ![i] = "Lock"]
      /\ sample' = [sample EXCEPT ![i] = sample_next[sample[i]]]
      /\ init_mu' = [s \in Nodes |-> IF init_mu[s] = i THEN NoSample ELSE init_mu[s]]
      /\ must' = must /\ seen' = seen
  BY DEF SR!Advance, SR!Goto, SR!visits, SR!Locks, SR!Unlocks, SampleTypes
<1>c. i \notin Clients /\ i \in SR!Processes /\ i # NoSample /\ Iterators \subseteq SR!Processes
  BY DEF SampleAssumption, SR!Processes
<1>k. ClientsKept
  BY <1>c DEF ClientsKept, SR!Advance, SR!Goto, SR!lists, SR!counts, SampleTypes, SR!Processes
<1>1. SampleTypes'
  <2>1. init_mu' \in [Nodes -> SR!Processes \cup {NoSample}]
    BY <1>s, <1>c DEF SampleTypes, Nodes
  <2>2. must' \in [Iterators -> SUBSET Samples] /\ seen' \in [Iterators -> SUBSET Samples]
    BY <1>s, <1>c DEF SampleTypes
  <2>3. sample_next[sample[i]] \in Samples \cup {NoSample}
    BY <1>s, <1>c DEF SampleTypes
  <2> QED BY <1>s, <1>k, <2>1, <2>2, <2>3, IteratorTypes
<1>2. SampleLocks'
  <2>1. init_mu'[Graveyard] = init_mu[Graveyard]
    BY <1>s, <1>c DEF SampleTypes, SampleLocks, Nodes, SampleAssumption
  <2>2. \A u \in SR!Processes :
          init_mu'[Graveyard] = u <=> u \in Clients /\ sample_pc'[u] \in AtGraveyard
    BY <1>k, <2>1 DEF SampleLocks, ClientsKept
  <2>3. \A u \in SR!Processes : u # i => sample'[u] = sample[u] /\ sample_pc'[u] = sample_pc[u]
    BY <1>s DEF SampleTypes
  <2>4. ASSUME NEW u \in SR!Processes, u # i, NEW s \in Samples
        PROVE  init_mu'[s] = u <=> sample'[u] = s /\ sample_pc'[u] \in {"Prepare", "f", "Next"}
    <3>1. init_mu'[s] = u <=> init_mu[s] = u
      BY <1>s, <1>c, <2>4 DEF SampleTypes, Nodes, SampleAssumption, SR!Processes
    <3>2. init_mu[s] = u <=> sample[u] = s /\ sample_pc[u] \in {"Prepare", "f", "Next"}
      BY <2>4 DEF SampleLocks
    <3> HIDE DEF SampleIInv
    <3> QED BY <2>3, <2>4, <3>1, <3>2
  <2>5. ASSUME NEW s \in Samples
        PROVE  init_mu'[s] = i <=> sample'[i] = s /\ sample_pc'[i] \in {"Prepare", "f", "Next"}
    BY SMTT(30), <1>s, <1>c DEF SampleTypes, SampleLocks, Nodes
  <2> QED BY <2>2, <2>4, <2>5 DEF SampleLocks
<1>3. LiveIsOwned'
  <2>1. \A j \in Iterators : sample_pc'[j] = "f" => dead'[sample'[j]] = NoSample
    BY <1>s, <1>c, <1>k DEF SampleTypes, LiveIsOwned, ClientsKept
  <2> QED BY <1>k, <2>1, IteratorKeeps DEF LiveIsOwned
<1>4. Pointers'
  <2>1. \A j \in Iterators : sample'[j] \in Published \cup {NoSample}
    BY <1>s, <1>c DEF SampleTypes, Pointers
  <2> QED BY <1>k, <2>1, IteratorKeeps DEF Pointers, ClientsKept
<1>5. WalkGoesOn'
  <2>1. \A j \in Iterators : j # i =>
          /\ must'[j] = must[j] /\ seen'[j] = seen[j] /\ sample_pc'[j] = sample_pc[j]
          /\ sample'[j] = sample[j] /\ Ahead(j)' = Ahead(j)
    BY <1>s, <1>c, <1>k DEF SampleTypes, Ahead, ClientsKept
  <2>2. /\ must'[i] = must[i] /\ seen'[i] = seen[i] /\ sample_pc'[i] # "idle"
        /\ Ahead(i)' = Ahead(i)
    BY <1>s, <1>c, <1>k DEF SampleTypes, Ahead, ClientsKept
  <2>3. \A s \in must[i] : s \in seen[i] \/ Reaches(Ahead(i), s)
    BY <1>s DEF WalkGoesOn
  <2>4. \A j \in Iterators : must'[j] \subseteq SR!Registered'
    <3>1. \A j \in Iterators : must[j] \subseteq SR!Registered
      BY DEF WalkGoesOn
    <3>2. \A j \in Iterators : must'[j] \subseteq SR!Registered
      BY <2>1, <2>2, <3>1
    <3> QED BY <1>k, <3>2, IteratorKeeps
  <2>5. ASSUME NEW j \in Iterators, sample_pc'[j] # "idle", NEW s \in must'[j]
        PROVE  s \in seen'[j] \/ Reaches(Ahead(j), s)'
    <3>1. s \in seen'[j] \/ Reaches(Ahead(j)', s)
      BY <2>1, <2>2, <2>3, <2>5 DEF WalkGoesOn
    <3> QED BY <1>k, <3>1, IteratorKeeps
  <2>6. SR!VisitsAllRegistered'
    BY <2>1, <2>2, <2>3 DEF WalkGoesOn, SR!VisitsAllRegistered
  <2> QED BY <2>4, <2>5, <2>6 DEF WalkGoesOn
<1> QED
  BY <1>1, <1>2, <1>3, <1>4, <1>5, <1>k, IteratorKeeps

\* Iterate has come to the end.
LEMMA EndIterateInv ==
    ASSUME SampleIInv, NEW i \in Iterators, SR!EndIterate(i)
    PROVE  SampleIInv'
<1> USE SampleAssumption DEF SampleIInv
<1>s. /\ sample_pc[i] = "Lock" /\ sample[i] = NoSample
      /\ sample_pc' = [sample_pc EXCEPT ![i] = "idle"]
      /\ sample' = [sample EXCEPT ![i] = sample[i]]
      /\ init_mu' = init_mu
      /\ must' = must /\ seen' = seen
  BY DEF SR!EndIterate, SR!Goto, SR!visits, SR!Locks, SR!Unlocks, SampleTypes
<1>c. i \notin Clients /\ i \in SR!Processes /\ i # NoSample /\ Iterators \subseteq SR!Processes
  BY DEF SampleAssumption, SR!Processes
<1>k. ClientsKept
  BY <1>c DEF ClientsKept, SR!EndIterate, SR!Goto, SR!lists, SR!counts, SampleTypes, SR!Processes
<1>1. SampleTypes'
  <2>1. init_mu' \in [Nodes -> SR!Processes \cup {NoSample}]
    BY <1>s, <1>c DEF SampleTypes, Nodes
  <2>2. must' \in [Iterators -> SUBSET Samples] /\ seen' \in [Iterators -> SUBSET Samples]
    BY <1>s, <1>c DEF SampleTypes
  <2>3. sample[i] \in Samples \cup {NoSample}
    BY <1>s, <1>c DEF SampleTypes
  <2> QED BY <1>s, <1>k, <2>1, <2>2, <2>3, IteratorTypes
<1>2. SampleLocks'
  <2>1. init_mu'[Graveyard] = init_mu[Graveyard]
    BY <1>s, <1>c DEF SampleTypes, SampleLocks, Nodes, SampleAssumption
  <2>2. \A u \in SR!Processes :
          init_mu'[Graveyard] = u <=> u \in Clients /\ sample_pc'[u] \in AtGraveyard
    BY <1>k, <2>1 DEF SampleLocks, ClientsKept
  <2>3. \A u \in SR!Processes : u # i => sample'[u] = sample[u] /\ sample_pc'[u] = sample_pc[u]
    BY <1>s DEF SampleTypes
  <2>4. ASSUME NEW u \in SR!Processes, u # i, NEW s \in Samples
        PROVE  init_mu'[s] = u <=> sample'[u] = s /\ sample_pc'[u] \in {"Prepare", "f", "Next"}
    <3>1. init_mu'[s] = u <=> init_mu[s] = u
      BY <1>s, <1>c, <2>4 DEF SampleTypes, Nodes, SampleAssumption, SR!Processes
    <3>2. init_mu[s] = u <=> sample[u] = s /\ sample_pc[u] \in {"Prepare", "f", "Next"}
      BY <2>4 DEF SampleLocks
    <3> HIDE DEF SampleIInv
    <3> QED BY <2>3, <2>4, <3>1, <3>2
  <2>5. ASSUME NEW s \in Samples
        PROVE  init_mu'[s] = i <=> sample'[i] = s /\ sample_pc'[i] \in {"Prepare", "f", "Next"}
    BY SMTT(30), <1>s, <1>c DEF SampleTypes, SampleLocks, Nodes
  <2> QED BY <2>2, <2>4, <2>5 DEF SampleLocks
<1>3. LiveIsOwned'
  <2>1. \A j \in Iterators : sample_pc'[j] = "f" => dead'[sample'[j]] = NoSample
    BY <1>s, <1>c, <1>k DEF SampleTypes, LiveIsOwned, ClientsKept
  <2> QED BY <1>k, <2>1, IteratorKeeps DEF LiveIsOwned
<1>4. Pointers'
  <2>1. \A j \in Iterators : sample'[j] \in Published \cup {NoSample}
    BY <1>s, <1>c DEF SampleTypes, Pointers
  <2> QED BY <1>k, <2>1, IteratorKeeps DEF Pointers, ClientsKept
<1>5. WalkGoesOn'
  <2>1. \A j \in Iterators : j # i =>
          /\ must'[j] = must[j] /\ seen'[j] = seen[j] /\ sample_pc'[j] = sample_pc[j]
          /\ sample'[j] = sample[j] /\ Ahead(j)' = Ahead(j)
    BY <1>s, <1>c, <1>k DEF SampleTypes, Ahead, ClientsKept
  <2>2. must'[i] = must[i] /\ seen'[i] = seen[i] /\ sample_pc'[i] = "idle"
    BY <1>s, <1>c DEF SampleTypes
  <2>3. \A s \in must[i] : s \in seen[i]
    BY <1>s DEF WalkGoesOn, Ahead, Reaches
  <2>4. \A j \in Iterators : must'[j] \subseteq SR!Registered'
    <3>1. \A j \in Iterators : must[j] \subseteq SR!Registered
      BY DEF WalkGoesOn
    <3>2. \A j \in Iterators : must'[j] \subseteq SR!Registered
      BY <2>1, <2>2, <3>1
    <3> QED BY <1>k, <3>2, IteratorKeeps
  <2>5. ASSUME NEW j \in Iterators, sample_pc'[j] # "idle", NEW s \in must'[j]
        PROVE  s \in seen'[j] \/ Reaches(Ahead(j), s)'
    <3>1. s \in seen'[j] \/ Reaches(Ahead(j)', s)
      BY <2>1, <2>2, <2>3, <2>5 DEF WalkGoesOn
    <3> QED BY <1>k, <3>1, IteratorKeeps
  <2>6. SR!VisitsAllRegistered'
    BY <2>1, <2>2, <2>3 DEF WalkGoesOn, SR!VisitsAllRegistered
  <2> QED BY <2>4, <2>5, <2>6 DEF WalkGoesOn
<1> QED
  BY <1>1, <1>2, <1>3, <1>4, <1>5, <1>k, IteratorKeeps

-----------------------------------------------------------------------------

\* The invariant holds of the recorder when it is constructed,
LEMMA SampleInitInv == SR!Init => SampleIInv
<1> SUFFICES ASSUME SR!Init PROVE SampleIInv
  OBVIOUS
<1> USE SampleAssumption DEF SR!Init, SampleAssumption, SR!Processes, Nodes, HasNone, HasOne,
        AtGraveyard
<1>m. Made = {} /\ Published = {}
  BY DEF Made, Published
<1>1. SampleTypes
  BY DEF SampleTypes
<1>2. SampleLocks
  BY DEF SampleLocks
<1>3. OneClient
  BY DEF OneClient
<1>4. GraveyardCircle
  BY DEF GraveyardCircle
<1>5. LiveIsOwned /\ Pointers /\ AllIsListed
  BY <1>m DEF LiveIsOwned, Pointers, AllIsListed
<1>6. WalkGoesOn
  BY DEF WalkGoesOn, SR!VisitsAllRegistered
<1>7. SizeCounts
  <2>1. Counted = {} /\ LetIn = {}
    BY DEF Counted, LetIn
  <2> QED BY SMTT(30), <2>1, FS_EmptySet DEF SizeCounts
<1> QED
  BY <1>1, <1>2, <1>3, <1>4, <1>5, <1>6, <1>7 DEF SampleIInv

\* and every step of a client or an iterator preserves it.
LEMMA SampleNextInv == SampleIInv /\ [SR!Next]_(SR!vars) => SampleIInv'
<1> SUFFICES ASSUME SampleIInv, [SR!Next]_(SR!vars) PROVE SampleIInv'
  OBVIOUS
<1>1. ASSUME NEW t \in Clients, SR!ClientStep(t) PROVE SampleIInv'
  BY <1>1, RegisterInv, DroppedInv, PopDeadInv, ResurrectInv, PrepareInv, NewInv,
     PushNewDoneInv, PushNewAgainInv, UnregisterInv, LockGraveyardInv, BuryInv, UncountInv
     DEF SR!ClientStep
<1>2. ASSUME NEW i \in Iterators, SR!IteratorStep(i) PROVE SampleIInv'
  BY <1>2, IterateInv, LockSampleInv, CallFInv, AdvanceInv, EndIterateInv DEF SR!IteratorStep
<1>3. CASE UNCHANGED SR!vars
  <2> USE <1>3 DEF SR!vars, SR!lists, SR!counts, SR!visits, SampleIInv
  <2>1. (SampleTypes /\ SampleLocks)'
    BY DEF SampleTypes, SampleLocks
  <2>2. Made' = Made /\ Published' = Published
    BY DEF Made, Published
  <2>3. (OneClient /\ GraveyardCircle /\ LiveIsOwned /\ Pointers)'
    BY <2>2 DEF OneClient, GraveyardCircle, LiveIsOwned, Pointers
  <2>4. \A x, s : Reaches(x, s)' <=> Reaches(x, s)
    BY ReachesSame
  <2>5. AllIsListed'
    BY <2>2, <2>4 DEF AllIsListed
  <2>6. WalkGoesOn'
    BY <2>4 DEF WalkGoesOn, Ahead, SR!Registered, SR!VisitsAllRegistered
  <2>7. SizeCounts'
    BY DEF SizeCounts, LetIn, Counted
  <2> QED BY <2>1, <2>3, <2>5, <2>6, <2>7
<1> QED BY <1>1, <1>2, <1>3 DEF SR!Next

(***************************************************************************)
(* A sample under f is ready: it is live, so that it has a client, which   *)
(* would hold the lock of the sample if it were still preparing it.        *)
(***************************************************************************)
LEMMA SampleIInvImplies == SampleIInv => SampleInv
<1> SUFFICES ASSUME SampleIInv PROVE SampleInv
  OBVIOUS
<1> USE SampleAssumption DEF SampleIInv
<1>1. SR!TypeOK
  <2>1. /\ size_estimate_ \in Nat /\ size_estimate_ <= Cardinality(Clients)
        /\ Cardinality(Clients) \in Nat
    BY CountsFinite, FS_CardinalityType DEF SizeCounts, SampleAssumption
  <2>2. size_estimate_ \in 0..(max_samples_ + 1 + SR!Cardinality(Clients))
    BY <2>1, SampleCardinality DEF SampleAssumption
  <2> QED BY <2>2 DEF SR!TypeOK, SampleTypes, SizeCounts, Nodes
<1>2. SR!IteratesOverLive
  <2>1. ASSUME NEW i \in Iterators, sample_pc[i] = "f"
        PROVE  /\ sample[i] \in ready /\ dead[sample[i]] = NoSample
               /\ \E t \in Clients : sample[t] = sample[i]
    <3>1. /\ sample[i] \in Made /\ sample[i] \in Samples /\ dead[sample[i]] = NoSample
          /\ i \in SR!Processes /\ i \notin Clients
      <4>1. sample[i] \in Published
        BY <2>1 DEF SampleTypes, Pointers
      <4>2. Published \subseteq Made /\ Made \subseteq Samples
        BY DEF Published, Made, SampleTypes
      <4> QED BY <2>1, <4>1, <4>2 DEF LiveIsOwned, SampleAssumption, SR!Processes
    <3>2. init_mu[sample[i]] = i
      BY <2>1, <3>1 DEF SampleLocks
    <3>3. \A t \in Clients : ~(sample_pc[t] = "Prepare" /\ sample[t] = sample[i])
      BY SMTT(30), <3>1, <3>2 DEF SampleLocks, SR!Processes
    <3> QED BY <3>1, <3>3 DEF Made, LiveIsOwned
  <2> QED BY <2>1 DEF SR!IteratesOverLive, OneClient
<1>3. SR!VisitsAllRegistered
  BY DEF WalkGoesOn
<1>4. SR!SizeIsCounted
  <2> DEFINE Having == {t \in Clients : sample[t] # NoSample}
  <2>1. Having \subseteq LetIn
    BY DEF LetIn
  <2>2. Cardinality(Having) <= Cardinality(LetIn) /\ Cardinality(Having) \in Nat
    BY <2>1, CountsFinite, FS_Subset, FS_CardinalityType
  <2>3. Cardinality(Having) <= max_samples_ + 1
    BY <2>2, CountsFinite DEF SizeCounts, SampleAssumption
  <2> QED BY <2>3, SampleCardinality DEF SR!SizeIsCounted, SizeCounts, Counted
<1> QED BY <1>1, <1>2, <1>3, <1>4 DEF SampleInv

(***************************************************************************)
(* SampleRecorder, for any number of clients, iterators and samples: f is  *)
(* called on live and prepared samples only and no sample has two owners;  *)
(* a sample registered from the start of an Iterate to its end is visited; *)
(* size_estimate_ is exact and the samples in use exceed max_samples_ by   *)
(* at most one.                                                            *)
(***************************************************************************)
THEOREM SampleInvariant == SR!Spec => []SampleInv
<1>1. SampleIInv /\ [SR!Next]_(SR!vars) => SampleIInv'
  BY SampleNextInv
<1> QED
  BY SampleInitInv, <1>1, SampleIInvImplies, PTL DEF SR!Spec
=============================================================================
