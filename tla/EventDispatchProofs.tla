------------------------ MODULE EventDispatchProofs ------------------------
(***************************************************************************)
(* For any number of clients, pool threads, instances, events and calls:   *)
(* types and reference counts, no event twice to a sink and, where events  *)
(* come from calls only, no job without its object and the refinement of   *)
(* EventDelivery.                                                          *)
(***************************************************************************)
EXTENDS EventDispatch, FiniteSetTheorems, SequenceTheorems, TLAPS

-----------------------------------------------------------------------------
(* Sequences.                                                              *)

LEMMA AppendFacts ==
  ASSUME NEW S, NEW seq \in Seq(S), NEW e \in S
  PROVE  /\ Append(seq, e) \in Seq(S)
         /\ Range(Append(seq, e)) = Range(seq) \union {e}
         /\ IsInjective(seq) /\ e \notin Range(seq) => IsInjective(Append(seq, e))
<1> DEFINE t == Append(seq, e)
<1>1. /\ t \in Seq(S) /\ Len(t) = Len(seq) + 1 /\ Len(seq) \in Nat
      /\ DOMAIN t = 1 .. Len(seq) + 1 /\ DOMAIN seq = 1 .. Len(seq)
      /\ \A i \in 1 .. Len(seq) : t[i] = seq[i]
      /\ t[Len(seq) + 1] = e
  BY AppendProperties, LenProperties
<1> HIDE DEF t
<1>2. Range(t) = Range(seq) \union {e}
  BY <1>1 DEF Range
<1>3. IsInjective(seq) /\ e \notin Range(seq) => IsInjective(t)
  BY <1>1 DEF IsInjective, Range
<1>4. QED
  BY <1>1, <1>2, <1>3 DEF t

LEMMA TailFacts ==
  ASSUME NEW S, NEW seq \in Seq(S), seq # <<>>
  PROVE  /\ Head(seq) \in S /\ Tail(seq) \in Seq(S)
         /\ Range(seq) = {Head(seq)} \union Range(Tail(seq))
         /\ IsInjective(seq) => IsInjective(Tail(seq)) /\ Head(seq) \notin Range(Tail(seq))
<1> DEFINE t == Tail(seq)
<1>1. /\ Head(seq) \in S /\ Head(seq) = seq[1] /\ t \in Seq(S)
      /\ Len(seq) \in Nat \ {0} /\ Len(t) = Len(seq) - 1
      /\ DOMAIN t = 1 .. Len(seq) - 1 /\ DOMAIN seq = 1 .. Len(seq)
      /\ \A i \in 1 .. Len(seq) - 1 : t[i] = seq[i + 1]
  BY HeadTailProperties, LenProperties, EmptySeq
<1> HIDE DEF t
<1>2. Range(seq) = {Head(seq)} \union Range(t)
  <2>1. \A i \in DOMAIN seq : seq[i] \in {Head(seq)} \union Range(t)
    <3>1. TAKE i \in DOMAIN seq
    <3>2. CASE i = 1
      BY <1>1, <3>2
    <3>3. CASE i # 1
      <4>1. i - 1 \in DOMAIN t /\ t[i - 1] = seq[i]
        BY <1>1, <3>3
      <4>2. QED
        BY <4>1 DEF Range
    <3>4. QED
      BY <3>2, <3>3
  <2>2. ASSUME NEW i \in DOMAIN t
        PROVE  t[i] \in Range(seq)
    <3>1. i + 1 \in DOMAIN seq /\ t[i] = seq[i + 1]
      BY <1>1
    <3>2. QED
      BY <3>1 DEF Range
  <2>3. Head(seq) \in Range(seq)
    BY <1>1 DEF Range
  <2>4. QED
    BY <2>1, <2>2, <2>3 DEF Range
<1>3. ASSUME IsInjective(seq)
      PROVE  IsInjective(t) /\ Head(seq) \notin Range(t)
  <2>1. \A x, y \in 1 .. Len(seq) : seq[x] = seq[y] => x = y
    BY <1>1, <1>3 DEF IsInjective
  <2>2. ASSUME NEW i \in 1 .. Len(seq) - 1, NEW j \in 1 .. Len(seq) - 1, t[i] = t[j]
        PROVE  i = j
    <3>1. /\ i + 1 \in 1 .. Len(seq) /\ j + 1 \in 1 .. Len(seq)
          /\ seq[i + 1] = seq[j + 1]
      BY <1>1, <2>2
    <3>2. i + 1 = j + 1
      BY <2>1, <3>1
    <3>3. QED
      BY <1>1, <3>2
  <2>3. ASSUME NEW i \in 1 .. Len(seq) - 1
        PROVE  t[i] # seq[1]
    <3>1. i + 1 \in 1 .. Len(seq) /\ 1 \in 1 .. Len(seq) /\ i + 1 # 1 /\ t[i] = seq[i + 1]
      BY <1>1
    <3>2. QED
      BY <2>1, <3>1
  <2>4. IsInjective(t)
    BY <1>1, <2>2 DEF IsInjective
  <2>5. Head(seq) \notin Range(t)
    BY <1>1, <2>3 DEF Range
  <2>6. QED
    BY <2>4, <2>5
<1>4. QED
  BY <1>1, <1>2, <1>3 DEF t

LEMMA RemoveAtFacts ==
  ASSUME NEW S, NEW seq \in Seq(S), NEW k \in DOMAIN seq, IsInjective(seq)
  PROVE  /\ RemoveAt(seq, k) \in Seq(S)
         /\ IsInjective(RemoveAt(seq, k))
         /\ Range(RemoveAt(seq, k)) = Range(seq) \ {seq[k]}
<1> DEFINE n == Len(seq)
           a == SubSeq(seq, 1, k - 1)
           b == SubSeq(seq, k + 1, n)
           t == RemoveAt(seq, k)
<1>1. n \in Nat /\ DOMAIN seq = 1 .. n /\ k \in 1 .. n /\ \A i \in 1 .. n : seq[i] \in S
  BY LenProperties, ElementOfSeq
<1>2. /\ a \in Seq(S) /\ Len(a) = k - 1
      /\ \A i \in 1 .. k - 1 : a[i] = seq[i]
  <2>1. 1 \in Int /\ k - 1 \in Int /\ \A i \in 1 .. k - 1 : seq[i] \in S
    BY <1>1
  <2>2. /\ a \in Seq(S) /\ Len(a) = IF 1 <= k - 1 THEN k - 1 - 1 + 1 ELSE 0
        /\ \A i \in 1 .. k - 1 - 1 + 1 : a[i] = seq[1 + i - 1]
    BY <2>1, SubSeqProperties
  <2> HIDE DEF a, n
  <2>3. k \in Int /\ k >= 1
    BY <1>1
  <2>4. Len(a) = k - 1
    BY <2>2, <2>3
  <2>5. ASSUME NEW i \in 1 .. k - 1
        PROVE  a[i] = seq[i]
    <3>1. i \in 1 .. k - 1 - 1 + 1 /\ 1 + i - 1 = i
      BY <2>3
    <3>2. QED
      BY <2>2, <3>1
  <2>6. QED
    BY <2>2, <2>4, <2>5
<1>3. /\ b \in Seq(S) /\ Len(b) = n - k
      /\ \A i \in 1 .. n - k : b[i] = seq[k + i]
  <2>1. k + 1 \in Int /\ n \in Int /\ \A i \in k + 1 .. n : seq[i] \in S
    BY <1>1
  <2>2. /\ b \in Seq(S) /\ Len(b) = IF k + 1 <= n THEN n - (k + 1) + 1 ELSE 0
        /\ \A i \in 1 .. n - (k + 1) + 1 : b[i] = seq[k + 1 + i - 1]
    BY <2>1, SubSeqProperties
  <2> HIDE DEF b, n
  <2>3. k \in Int /\ n \in Int /\ k <= n
    BY <1>1
  <2>4. Len(b) = n - k
    BY <2>2, <2>3
  <2>5. ASSUME NEW i \in 1 .. n - k
        PROVE  b[i] = seq[k + i]
    <3>1. i \in 1 .. n - (k + 1) + 1 /\ k + 1 + i - 1 = k + i
      BY <2>3
    <3>2. QED
      BY <2>2, <3>1
  <2>6. QED
    BY <2>2, <2>4, <2>5
<1> HIDE DEF a, b, n
<1>4. /\ t \in Seq(S) /\ Len(t) = n - 1 /\ DOMAIN t = 1 .. n - 1
      /\ \A i \in 1 .. n - 1 : t[i] = IF i < k THEN seq[i] ELSE seq[i + 1]
  <2>1. t = a \o b
    BY DEF RemoveAt, a, b, n
  <2>2. /\ a \o b \in Seq(S) /\ Len(a \o b) = Len(a) + Len(b)
        /\ \A i \in 1 .. Len(a) + Len(b) :
             (a \o b)[i] = IF i <= Len(a) THEN a[i] ELSE b[i - Len(a)]
    BY <1>2, <1>3, ConcatProperties
  <2> HIDE DEF t
  <2>3. t \in Seq(S) /\ Len(t) = n - 1 /\ DOMAIN t = 1 .. n - 1
    <3>1. t \in Seq(S) /\ Len(t) = k - 1 + (n - k)
      BY <1>2, <1>3, <2>1, <2>2
    <3>2. DOMAIN t = 1 .. Len(t)
      BY <3>1, LenProperties
    <3>3. k - 1 + (n - k) = n - 1
      BY <1>1
    <3>4. QED
      BY <3>1, <3>2, <3>3
  <2>4. ASSUME NEW i \in 1 .. n - 1
        PROVE  t[i] = IF i < k THEN seq[i] ELSE seq[i + 1]
    <3>1. k \in Int /\ n \in Int /\ 1 <= k /\ k <= n
      BY <1>1
    <3>2. t[i] = IF i <= k - 1 THEN a[i] ELSE b[i - (k - 1)]
      <4>1. i \in 1 .. (k - 1) + (n - k)
        BY <3>1
      <4>2. Len(a) = k - 1 /\ i \in 1 .. Len(a) + Len(b)
        BY <1>2, <1>3, <4>1
      <4>3. QED
        BY <2>1, <2>2, <4>2
    <3>3. CASE i < k
      <4>1. i \in 1 .. k - 1 /\ i <= k - 1
        BY <3>1, <3>3
      <4>2. QED
        BY <1>2, <3>2, <3>3, <4>1
    <3>4. CASE ~(i < k)
      <4>1. i - (k - 1) \in 1 .. n - k /\ k + (i - (k - 1)) = i + 1 /\ ~(i <= k - 1)
        BY <3>1, <3>4
      <4>2. b[i - (k - 1)] = seq[i + 1]
        BY <1>3, <4>1
      <4>3. QED
        BY <3>2, <3>4, <4>1, <4>2
    <3>5. QED
      BY <3>3, <3>4
  <2>5. QED
    BY <2>3, <2>4
<1> HIDE DEF t
<1>5. IsInjective(t)
  <2>1. SUFFICES ASSUME NEW i \in DOMAIN t, NEW j \in DOMAIN t, t[i] = t[j]
                 PROVE  i = j
    BY DEF IsInjective
  <2>2. \A x, y \in 1 .. n : seq[x] = seq[y] => x = y
    BY <1>1 DEF IsInjective
  <2>3. k \in Int /\ n \in Int /\ i \in 1 .. n - 1 /\ j \in 1 .. n - 1
    BY <1>1, <1>4
  <2>4. CASE i < k /\ j < k
    <3>1. t[i] = seq[i] /\ t[j] = seq[j] /\ i \in 1 .. n /\ j \in 1 .. n
      BY <1>4, <2>3, <2>4
    <3>2. QED
      BY <2>1, <2>2, <3>1
  <2>5. CASE i < k /\ ~(j < k)
    <3>1. t[i] = seq[i] /\ t[j] = seq[j + 1] /\ i \in 1 .. n /\ j + 1 \in 1 .. n
      BY <1>4, <2>3, <2>5
    <3>2. i = j + 1
      BY <2>1, <2>2, <3>1
    <3>3. QED
      BY <2>3, <2>5, <3>2
  <2>6. CASE ~(i < k) /\ j < k
    <3>1. t[i] = seq[i + 1] /\ t[j] = seq[j] /\ i + 1 \in 1 .. n /\ j \in 1 .. n
      BY <1>4, <2>3, <2>6
    <3>2. i + 1 = j
      BY <2>1, <2>2, <3>1
    <3>3. QED
      BY <2>3, <2>6, <3>2
  <2>7. CASE ~(i < k) /\ ~(j < k)
    <3>1. t[i] = seq[i + 1] /\ t[j] = seq[j + 1] /\ i + 1 \in 1 .. n /\ j + 1 \in 1 .. n
      <4>1. t[i] = seq[i + 1] /\ t[j] = seq[j + 1]
        BY <1>4, <2>3, <2>7
      <4>2. i + 1 \in 1 .. n /\ j + 1 \in 1 .. n
        BY <2>3
      <4>3. QED
        BY <4>1, <4>2
    <3>2. i + 1 = j + 1
      BY <2>1, <2>2, <3>1
    <3>3. QED
      BY <2>3, <3>2
  <2>8. QED
    BY <2>4, <2>5, <2>6, <2>7
<1>6. Range(t) = Range(seq) \ {seq[k]}
  <2>1. \A x, y \in 1 .. n : seq[x] = seq[y] => x = y
    BY <1>1 DEF IsInjective
  <2>2. ASSUME NEW i \in DOMAIN t
        PROVE  t[i] \in Range(seq) \ {seq[k]}
    <3>1. PICK x \in 1 .. n : x # k /\ t[i] = seq[x]
      <4>1. CASE i < k
        BY <1>1, <1>4, <4>1
      <4>2. CASE ~(i < k)
        <5>1. i + 1 \in 1 .. n /\ i + 1 # k /\ t[i] = seq[i + 1]
          BY <1>1, <1>4, <4>2
        <5>2. QED
          BY <5>1
      <4>3. QED
        BY <4>1, <4>2
    <3>2. QED
      BY <1>1, <2>1, <3>1 DEF Range
  <2>3. ASSUME NEW j \in DOMAIN seq, j # k
        PROVE  seq[j] \in Range(t)
    <3>1. CASE j < k
      <4>1. j \in DOMAIN t /\ t[j] = seq[j]
        BY <1>1, <1>4, <3>1
      <4>2. QED
        BY <4>1 DEF Range
    <3>2. CASE j > k
      <4>1. j - 1 \in DOMAIN t /\ t[j - 1] = seq[j]
        BY <1>1, <1>4, <3>2
      <4>2. QED
        BY <4>1 DEF Range
    <3>3. QED
      BY <1>1, <2>3, <3>1, <3>2
  <2>4. QED
    BY <2>2, <2>3 DEF Range
<1>7. QED
  BY <1>4, <1>5, <1>6 DEF t

-----------------------------------------------------------------------------
(* The invariant.                                                          *)

ShellPC == {"inactive", "configure", "register", "active", "release", "destroy", "released"}
ObjectPC == {"unborn", "live", "leave_pm", "leave_iarm", "forget", "destroyed"}
PoolPC == {"idle", "lock", "call", "callback", "destroy", "done"}

LifeType ==
  /\ shell \in ShellPC
  /\ _systemServices \in Instances \union {NoInstance}
  /\ _instance \in Instances \union {NoInstance}
  /\ object \in [Instances -> ObjectPC]
  /\ pmSinks \subseteq Instances /\ iarmHandlers \subseteq {"events", "calls"}
  /\ bus \in {"idle", "call"} /\ calls \in 0 .. MaxCalls

ListType ==
  /\ _systemServicesNotification \in [Instances -> Seq(Sinks)]
  /\ _adminLock \in [Instances -> PoolThreads \union {NoThread}]

PoolType ==
  /\ job \in [PoolThreads -> Events \union {NoJob}]
  /\ todo \in [PoolThreads -> Seq(Sinks)]
  /\ pc \in [PoolThreads -> PoolPC]

EventType ==
  /\ submitted \in Seq(Instances) /\ Len(submitted) <= MaxEvents
  /\ queue \in Seq(Events)
  /\ received \in [Sinks -> Seq(Events)]

\* A job is in the queue or with one thread, and is about an event that happened.
JobsOK ==
  /\ \A e \in Pending : e \in DOMAIN submitted
  /\ \A p \in PoolThreads : pc[p] # "idle" => job[p] \in DOMAIN submitted
  /\ IsInjective(queue)
  /\ \A p \in PoolThreads : Dispatching(p) => job[p] \notin Range(queue)
  /\ \A p, q \in PoolThreads : Dispatching(p) /\ Dispatching(q) /\ job[p] = job[q] => p = q

\* Only instances that were constructed are known anywhere.
Holds == shell \in {"configure", "register", "active", "release"}

BornOK ==
  /\ \A e \in DOMAIN submitted : object[submitted[e]] # "unborn"
  /\ \A i \in pmSinks : object[i] # "unborn"
  /\ _instance # NoInstance => object[_instance] # "unborn"
  /\ _systemServices # NoInstance => object[_systemServices] # "unborn"
  /\ Holds => _systemServices # NoInstance

\* An instance has two references of the shell and one of every job about it.
JobsOf(i) == {e \in Pending : submitted[e] = i}

Held(i) == IF Holds /\ _systemServices = i THEN 2 ELSE 0

RefsOK ==
  /\ refs \in [Instances -> Nat]
  /\ \A i \in Instances : refs[i] = Held(i) + Cardinality(JobsOf(i))

\* No sink is twice in a list, or is to be called twice by a thread.
ListsOK == \A i \in Instances : IsInjective(_systemServicesNotification[i])

TodoOK ==
  \A p \in PoolThreads :
    pc[p] \in {"call", "callback"} =>
      IsInjective(todo[p]) /\ (pc[p] = "callback" => todo[p] # <<>>)

\* The sinks that thread p is still to call for its job.
ToCall(p) ==
  IF pc[p] = "lock" THEN Sinks
  ELSE IF pc[p] = "call" THEN Range(todo[p]) ELSE Range(Tail(todo[p]))

\* A sink was called for an event once, and no thread is to call it again.
ReceivedOK ==
  \A s \in Sinks :
    /\ IsInjective(received[s])
    /\ \A e \in Range(received[s]) :
         /\ e \in DOMAIN submitted /\ e \notin Range(queue)
         /\ \A p \in PoolThreads : Dispatching(p) /\ job[p] = e => s \notin ToCall(p)

TypeInv ==
  /\ LifeType /\ ListType /\ PoolType /\ EventType
  /\ JobsOK /\ BornOK /\ RefsOK /\ ListsOK

OnceInv == TodoOK /\ ReceivedOK

LEMMA TypeInvTypeOK == TypeInv => TypeOK
  BY DEF TypeInv, TypeOK, LifeType, ListType, PoolType, EventType, RefsOK, ShellPC, ObjectPC,
         PoolPC

LEMMA PendingFinite ==
  ASSUME TypeInv
  PROVE  /\ IsFiniteSet(Pending)
         /\ \A i \in Instances : IsFiniteSet(JobsOf(i)) /\ Cardinality(JobsOf(i)) \in Nat
<1>1. submitted \in Seq(Instances) /\ DOMAIN submitted = 1 .. Len(submitted) /\ Len(submitted) \in Nat
  BY LenProperties DEF TypeInv, EventType
<1>2. IsFiniteSet(DOMAIN submitted)
  BY <1>1, FS_Interval
<1>3. Pending \in SUBSET DOMAIN submitted
  BY DEF TypeInv, JobsOK
<1>4. IsFiniteSet(Pending)
  BY <1>2, <1>3, FS_Subset
<1>5. ASSUME NEW i \in Instances
      PROVE  IsFiniteSet(JobsOf(i)) /\ Cardinality(JobsOf(i)) \in Nat
  <2>1. JobsOf(i) \in SUBSET Pending
    BY DEF JobsOf
  <2>2. QED
    BY <1>4, <2>1, FS_Subset, FS_CardinalityType
<1>6. QED
  BY <1>4, <1>5

\* The references follow from what is pending and what the shell holds.
LEMMA RefsKept ==
  ASSUME TypeInv, Pending' = Pending, UNCHANGED <<submitted, refs, _systemServices>>,
         Holds' = Holds
  PROVE  RefsOK'
<1>1. \A i \in Instances : JobsOf(i)' = JobsOf(i)
  BY DEF JobsOf
<1>2. \A i \in Instances : Held(i)' = Held(i)
  BY DEF Held
<1>3. QED
  BY <1>1, <1>2 DEF TypeInv, RefsOK

\* n references are dropped: two of the shell, or that of a job.
LEMMA RefsDropped ==
  ASSUME TypeInv, NEW i \in Instances, NEW n \in Nat, Release(i, n),
         \A j \in Instances :
           /\ Held(j) + Cardinality(JobsOf(j)) =
                Held(j)' + Cardinality(JobsOf(j)') + (IF j = i THEN n ELSE 0)
           /\ Held(j)' + Cardinality(JobsOf(j)') \in Nat
  PROVE  RefsOK'
<1>1. \A j \in Instances : refs[j] = Held(j) + Cardinality(JobsOf(j)) /\ refs[j] \in Nat
  BY DEF TypeInv, RefsOK
<1>2. refs \in [Instances -> Nat] /\ refs' = [refs EXCEPT ![i] = refs[i] - n]
  BY DEF Release, TypeInv, RefsOK
<1>3. ASSUME NEW j \in Instances
      PROVE  refs'[j] = Held(j)' + Cardinality(JobsOf(j)') /\ refs'[j] \in Nat
  <2>1. CASE j = i
    BY <1>1, <1>2, <2>1
  <2>2. CASE j # i
    BY <1>1, <1>2, <2>2
  <2>3. QED
    BY <2>1, <2>2
<1>4. QED
  BY <1>2, <1>3 DEF RefsOK

\* What a step leaves alone keeps its part of the invariant.
LEMMA Unchanged ==
  ASSUME TypeInv
  PROVE  /\ UNCHANGED <<_systemServicesNotification, _adminLock>> => ListType'
         /\ UNCHANGED _systemServicesNotification => ListsOK'
         /\ UNCHANGED <<job, todo, pc>> => PoolType'
         /\ UNCHANGED <<submitted, queue, received>> => EventType'
         /\ UNCHANGED <<queue, job, pc>> => Pending' = Pending
         /\ UNCHANGED <<submitted, queue, job, pc>> => JobsOK'
         /\ UNCHANGED <<shell, _systemServices>> => Holds' = Holds
         /\ UNCHANGED <<shell, _systemServices, _instance, object, pmSinks, submitted>> => BornOK'
<1>1. /\ UNCHANGED <<_systemServicesNotification, _adminLock>> => ListType'
      /\ UNCHANGED _systemServicesNotification => ListsOK'
  BY DEF TypeInv, ListType, ListsOK
<1>2. UNCHANGED <<job, todo, pc>> => PoolType'
  BY DEF TypeInv, PoolType
<1>3. UNCHANGED <<submitted, queue, received>> => EventType'
  BY DEF TypeInv, EventType
<1>4. UNCHANGED <<queue, job, pc>> => Pending' = Pending
  BY DEF Pending, Dispatching
<1>5. UNCHANGED <<submitted, queue, job, pc>> => JobsOK'
  BY <1>4 DEF TypeInv, JobsOK, Dispatching
<1>6. UNCHANGED <<shell, _systemServices>> => Holds' = Holds
  BY DEF Holds
<1>7. UNCHANGED <<shell, _systemServices, _instance, object, pmSinks, submitted>> => BornOK'
  BY <1>6 DEF TypeInv, BornOK
<1>8. QED
  BY <1>1, <1>2, <1>3, <1>4, <1>5, <1>6, <1>7

\* The queue and the threads do not change their jobs.
LEMMA JobsKept ==
  ASSUME TypeInv, UNCHANGED <<submitted, queue, job, pc, refs, _systemServices>>, Holds' = Holds
  PROVE  JobsOK' /\ RefsOK'
  BY Unchanged, RefsKept

LEMMA SubmittedFacts ==
  ASSUME TypeInv
  PROVE  /\ submitted \in Seq(Instances) /\ Len(submitted) \in Nat
         /\ DOMAIN submitted = 1 .. Len(submitted)
         /\ \A e \in DOMAIN submitted : submitted[e] \in Instances
  BY LenProperties, ElementOfSeq DEF TypeInv, EventType

LEMMA OfType == ASSUME TypeInv, NEW p \in PoolThreads, pc[p] # "idle"
                PROVE  Of(p) \in Instances /\ job[p] \in DOMAIN submitted
  BY SubmittedFacts DEF Of, TypeInv, JobsOK

\* Submitting an event: it is a new one, and the last of the queue.
LEMMA DispatchEventFacts ==
  ASSUME TypeInv, NEW i \in Instances, dispatchEvent(i)
  PROVE  \E n \in Events :
           /\ n \notin DOMAIN submitted /\ DOMAIN submitted' = DOMAIN submitted \union {n}
           /\ submitted' \in Seq(Instances) /\ Len(submitted') <= MaxEvents
           /\ submitted'[n] = i /\ \A e \in DOMAIN submitted : submitted'[e] = submitted[e]
           /\ n \notin Pending /\ n \notin Range(queue)
           /\ queue' \in Seq(Events) /\ Range(queue') = Range(queue) \union {n}
           /\ IsInjective(queue')
<1> DEFINE n == Len(submitted) + 1
<1>1. /\ submitted \in Seq(Instances) /\ queue \in Seq(Events) /\ Len(submitted) \in Nat
      /\ DOMAIN submitted = 1 .. Len(submitted) /\ Len(submitted) < MaxEvents
      /\ submitted' = Append(submitted, i) /\ queue' = Append(queue, n)
      /\ refs' = [refs EXCEPT ![i] = refs[i] + 1]
  BY SubmittedFacts DEF TypeInv, EventType, dispatchEvent
<1>2. n \in Events
  BY <1>1, EventDispatchAssumption DEF Events
<1>3. /\ submitted' \in Seq(Instances) /\ Len(submitted') = Len(submitted) + 1
      /\ DOMAIN submitted' = 1 .. Len(submitted) + 1
      /\ \A e \in DOMAIN submitted : e \in DOMAIN submitted' /\ submitted'[e] = submitted[e]
      /\ submitted'[n] = i
  <2>1. /\ submitted' \in Seq(Instances) /\ Len(submitted') = Len(submitted) + 1
        /\ \A e \in 1 .. Len(submitted) : submitted'[e] = submitted[e]
        /\ submitted'[Len(submitted) + 1] = i
    BY <1>1, AppendProperties
  <2>2. DOMAIN submitted' = 1 .. Len(submitted) + 1
    BY <2>1, LenProperties
  <2>3. QED
    BY <1>1, <2>1, <2>2
<1> HIDE DEF n
<1>4. n \notin DOMAIN submitted /\ n \in DOMAIN submitted'
  BY <1>1, <1>3 DEF n
<1>5. n \notin Pending /\ n \notin Range(queue) /\ IsInjective(queue)
  <2>1. n \notin Pending /\ IsInjective(queue)
    BY <1>4 DEF TypeInv, JobsOK
  <2>2. QED
    BY <2>1 DEF Pending
<1>6. queue' \in Seq(Events) /\ Range(queue') = Range(queue) \union {n} /\ IsInjective(queue')
  <2>1. queue \in Seq(Events) /\ n \in Events
    BY <1>1, <1>2
  <2>2. /\ Append(queue, n) \in Seq(Events)
        /\ Range(Append(queue, n)) = Range(queue) \union {n}
        /\ IsInjective(queue) /\ n \notin Range(queue) => IsInjective(Append(queue, n))
    BY <2>1, AppendFacts
  <2>3. QED
    BY <1>1, <1>5, <2>2
<1>7. DOMAIN submitted' = DOMAIN submitted \union {n}
  BY <1>1, <1>3 DEF n
<1>8. Len(submitted') <= MaxEvents
  BY <1>1, <1>3, EventDispatchAssumption
<1>9. QED
  BY <1>2, <1>3, <1>4, <1>5, <1>6, <1>7, <1>8

LEMMA DispatchEventType ==
  ASSUME TypeInv, NEW i \in Instances, object[i] # "unborn", dispatchEvent(i),
         UNCHANGED <<shell, _systemServices, _instance, object, pmSinks, job, pc, received>>
  PROVE  EventType' /\ JobsOK' /\ BornOK' /\ RefsOK'
<1>1. PICK n \in Events :
        /\ n \notin DOMAIN submitted /\ DOMAIN submitted' = DOMAIN submitted \union {n}
        /\ submitted' \in Seq(Instances) /\ Len(submitted') <= MaxEvents
        /\ submitted'[n] = i /\ \A e \in DOMAIN submitted : submitted'[e] = submitted[e]
        /\ n \notin Pending /\ n \notin Range(queue)
        /\ queue' \in Seq(Events) /\ Range(queue') = Range(queue) \union {n}
        /\ IsInjective(queue')
  BY DispatchEventFacts
<1>2. refs' = [refs EXCEPT ![i] = refs[i] + 1]
  BY DEF dispatchEvent
<1>3. EventType'
  BY <1>1 DEF EventType, TypeInv
<1>4. Pending' = Pending \union {n}
  BY <1>1 DEF Pending, Dispatching
<1>5. JobsOK'
  <2>1. \A p \in PoolThreads : Dispatching(p)' = Dispatching(p) /\ (Dispatching(p) => job[p] \in Pending)
    BY DEF Dispatching, Pending
  <2>2. \A p \in PoolThreads : Dispatching(p)' => job'[p] \notin Range(queue')
    BY <1>1, <2>1 DEF TypeInv, JobsOK
  <2>3. \A e \in Pending' : e \in DOMAIN submitted'
    BY <1>1, <1>4 DEF TypeInv, JobsOK
  <2>4. \A p \in PoolThreads : pc'[p] # "idle" => job'[p] \in DOMAIN submitted'
    BY <1>1 DEF TypeInv, JobsOK
  <2>5. \A p, q \in PoolThreads :
          Dispatching(p)' /\ Dispatching(q)' /\ job'[p] = job'[q] => p = q
    BY <2>1 DEF TypeInv, JobsOK
  <2>6. QED
    BY <1>1, <2>2, <2>3, <2>4, <2>5 DEF JobsOK
<1>6. BornOK'
  <2>1. \A e \in DOMAIN submitted' : object'[submitted'[e]] # "unborn"
    BY <1>1 DEF TypeInv, BornOK
  <2>2. Holds' = Holds
    BY DEF Holds
  <2>3. QED
    BY <2>1, <2>2 DEF TypeInv, BornOK
<1>7. RefsOK'
  <2>1. \A j \in Instances : Held(j)' = Held(j) /\ Held(j) \in Nat
    BY DEF Held, Holds
  <2>2. JobsOf(i)' = JobsOf(i) \union {n} /\ n \notin JobsOf(i)
    BY <1>1, <1>4 DEF JobsOf, TypeInv, JobsOK
  <2>3. \A j \in Instances \ {i} : JobsOf(j)' = JobsOf(j)
    BY <1>1, <1>4 DEF JobsOf, TypeInv, JobsOK
  <2>4. Cardinality(JobsOf(i)') = Cardinality(JobsOf(i)) + 1
    BY <2>2, PendingFinite, FS_AddElement
  <2>5. refs \in [Instances -> Nat] /\ \A j \in Instances : refs[j] = Held(j) + Cardinality(JobsOf(j))
    BY DEF TypeInv, RefsOK
  <2>6. ASSUME NEW j \in Instances
        PROVE  refs'[j] \in Nat /\ refs'[j] = Held(j)' + Cardinality(JobsOf(j)')
    <3>1. Cardinality(JobsOf(j)) \in Nat
      BY PendingFinite
    <3>2. CASE j = i
      BY <1>2, <2>1, <2>4, <2>5, <3>1, <3>2
    <3>3. CASE j # i
      BY <1>2, <2>1, <2>3, <2>5, <3>1, <3>3
    <3>4. QED
      BY <3>2, <3>3
  <2>7. refs' \in [Instances -> Nat]
    BY <1>2, <2>5, <2>6
  <2>8. QED
    BY <2>6, <2>7 DEF RefsOK
<1>8. QED
  BY <1>3, <1>5, <1>6, <1>7

LEMMA ApiEventType == ASSUME TypeInv, ApiEvent PROVE TypeInv'
<1>1. _systemServices \in Instances /\ object[_systemServices] # "unborn"
  BY DEF ApiEvent, TypeInv, BornOK, LifeType, Holds
<1>2. /\ dispatchEvent(_systemServices)
      /\ UNCHANGED <<shell, _systemServices, _instance, object, pmSinks, job, pc, received>>
  BY DEF ApiEvent, registrations, pool
<1>3. EventType' /\ JobsOK' /\ BornOK' /\ RefsOK'
  BY <1>1, <1>2, DispatchEventType
<1>4. LifeType'
  BY DEF ApiEvent, registrations, TypeInv, LifeType
<1>5. ListType' /\ PoolType' /\ ListsOK'
  BY Unchanged DEF ApiEvent, pool
<1>6. QED
  BY <1>3, <1>4, <1>5 DEF TypeInv

LEMMA PowerEventType == ASSUME TypeInv, NEW i \in Instances, PowerEvent(i) PROVE TypeInv'
<1>1. object[i] # "unborn"
  BY DEF PowerEvent, TypeInv, BornOK
<1>2. /\ dispatchEvent(i)
      /\ UNCHANGED <<shell, _systemServices, _instance, object, pmSinks, job, pc, received>>
  BY DEF PowerEvent, registrations, pool
<1>3. EventType' /\ JobsOK' /\ BornOK' /\ RefsOK'
  BY <1>1, <1>2, DispatchEventType
<1>4. LifeType'
  BY DEF PowerEvent, registrations, TypeInv, LifeType
<1>5. ListType' /\ PoolType' /\ ListsOK'
  BY Unchanged DEF PowerEvent, pool
<1>6. QED
  BY <1>3, <1>4, <1>5 DEF TypeInv

LEMMA BusCheckType == ASSUME TypeInv, BusCheck PROVE TypeInv'
<1>1. LifeType'
  BY DEF BusCheck, life, registrations, TypeInv, LifeType
<1>2. ListType' /\ PoolType' /\ EventType' /\ BornOK' /\ ListsOK'
  BY Unchanged DEF BusCheck, life, registrations, pool, jobs
<1>3. JobsOK' /\ RefsOK'
  BY JobsKept, Unchanged DEF BusCheck, life, pool, jobs
<1>4. QED
  BY <1>1, <1>2, <1>3 DEF TypeInv

LEMMA BusCallType == ASSUME TypeInv, BusCall PROVE TypeInv'
<1>1. _instance \in Instances /\ object[_instance] # "unborn"
  BY DEF BusCall, TypeInv, BornOK, LifeType
<1>2. /\ dispatchEvent(_instance)
      /\ UNCHANGED <<shell, _systemServices, _instance, object, pmSinks, job, pc, received>>
  BY DEF BusCall, registrations, pool
<1>3. EventType' /\ JobsOK' /\ BornOK' /\ RefsOK'
  BY <1>1, <1>2, DispatchEventType
<1>4. LifeType'
  BY DEF BusCall, registrations, TypeInv, LifeType
<1>5. ListType' /\ PoolType' /\ ListsOK'
  BY Unchanged DEF BusCall, pool
<1>6. QED
  BY <1>3, <1>4, <1>5 DEF TypeInv

\* A thread goes on with its job: what is pending stays pending.
LEMMA DispatchingKept ==
  ASSUME TypeInv, NEW p \in PoolThreads, NEW l, pc' = [pc EXCEPT ![p] = l],
         Dispatching(p), l \in {"lock", "call", "callback"},
         UNCHANGED <<submitted, queue, job, refs, shell, _systemServices, _instance, object, pmSinks>>
  PROVE  JobsOK' /\ RefsOK' /\ BornOK'
<1>1. pc \in [PoolThreads -> PoolPC]
  BY DEF TypeInv, PoolType
<1>2. \A q \in PoolThreads : Dispatching(q)' = Dispatching(q)
  BY <1>1 DEF Dispatching
<1>3. Pending' = Pending
  BY <1>2 DEF Pending
<1>4. JobsOK'
  BY <1>1, <1>2, <1>3 DEF TypeInv, JobsOK, Dispatching
<1>5. Holds' = Holds
  BY DEF Holds
<1>6. RefsOK'
  BY <1>3, <1>5, RefsKept
<1>7. BornOK'
  BY Unchanged
<1>8. QED
  BY <1>4, <1>6, <1>7

LEMMA TakeJobType == ASSUME TypeInv, NEW p \in PoolThreads, TakeJob(p) PROVE TypeInv'
<1> DEFINE e == Head(queue)
<1>1. /\ queue \in Seq(Events) /\ queue # <<>> /\ queue' = Tail(queue)
      /\ job' = [job EXCEPT ![p] = e] /\ pc' = [pc EXCEPT ![p] = "lock"]
      /\ pc[p] = "idle"
      /\ UNCHANGED <<submitted, refs, shell, _systemServices, _instance, object, pmSinks,
                     _systemServicesNotification, _adminLock, todo, received>>
  BY DEF TakeJob, TypeInv, EventType, life, registrations
<1>2. /\ pc \in [PoolThreads -> PoolPC] /\ job \in [PoolThreads -> Events \union {NoJob}]
  BY DEF TypeInv, PoolType
<1>3. /\ e \in Events /\ Tail(queue) \in Seq(Events)
      /\ Range(queue) = {e} \union Range(Tail(queue))
      /\ IsInjective(queue) => IsInjective(Tail(queue)) /\ e \notin Range(Tail(queue))
  BY <1>1, TailFacts
<1> HIDE DEF e
<1>4. IsInjective(queue') /\ e \notin Range(queue') /\ Range(queue) = {e} \union Range(queue')
  BY <1>1, <1>3 DEF TypeInv, JobsOK
<1>5. /\ ~Dispatching(p) /\ Dispatching(p)' /\ job'[p] = e
      /\ \A q \in PoolThreads \ {p} : Dispatching(q)' = Dispatching(q) /\ job'[q] = job[q]
  BY <1>1, <1>2 DEF Dispatching
<1>6. Pending' = Pending
  BY <1>4, <1>5 DEF Pending
<1>7. e \in Pending /\ e \in DOMAIN submitted
  BY <1>4 DEF Pending, TypeInv, JobsOK
<1>8. JobsOK'
  <2>1. \A x \in Pending' : x \in DOMAIN submitted'
    BY <1>1, <1>6 DEF TypeInv, JobsOK
  <2>2. \A q \in PoolThreads : pc'[q] # "idle" => job'[q] \in DOMAIN submitted'
    BY <1>1, <1>2, <1>7 DEF TypeInv, JobsOK
  <2>3. \A q \in PoolThreads : Dispatching(q) => job[q] \notin Range(queue)
    BY DEF TypeInv, JobsOK
  <2>4. \A q \in PoolThreads : Dispatching(q)' => job'[q] \notin Range(queue')
    BY <1>4, <1>5, <2>3
  <2>5. \A q, r \in PoolThreads : Dispatching(q) /\ Dispatching(r) /\ job[q] = job[r] => q = r
    BY DEF TypeInv, JobsOK
  <2>6. \A q, r \in PoolThreads : Dispatching(q)' /\ Dispatching(r)' /\ job'[q] = job'[r] => q = r
    BY <1>4, <1>5, <2>3, <2>5
  <2>7. QED
    BY <1>4, <2>1, <2>2, <2>4, <2>6 DEF JobsOK
<1>9. Holds' = Holds
  BY <1>1 DEF Holds
<1>10. RefsOK'
  BY <1>1, <1>6, <1>9, RefsKept
<1>11. EventType' /\ PoolType'
  BY <1>1, <1>2, <1>3 DEF EventType, PoolType, TypeInv, PoolPC
<1>12. LifeType'
  BY DEF TakeJob, life, registrations, TypeInv, LifeType
<1>13. ListType' /\ BornOK' /\ ListsOK'
  BY <1>1, Unchanged
<1>14. QED
  BY <1>8, <1>10, <1>11, <1>12, <1>13 DEF TypeInv

LEMMA DispatchLockType == ASSUME TypeInv, NEW p \in PoolThreads, DispatchLock(p) PROVE TypeInv'
<1>1. Of(p) \in Instances
  BY OfType DEF DispatchLock
<1>2. JobsOK' /\ RefsOK' /\ BornOK'
  <2>1. PICK l \in {"lock", "call", "callback"} : l = "call"
    OBVIOUS
  <2>2. pc' = [pc EXCEPT ![p] = l] /\ Dispatching(p)
    BY <2>1 DEF DispatchLock, Dispatching
  <2>3. QED
    BY <2>2, DispatchingKept DEF DispatchLock, life, registrations, jobs
<1>3. LifeType'
  BY DEF DispatchLock, life, registrations, TypeInv, LifeType
<1>4. ListType' /\ PoolType'
  BY <1>1 DEF DispatchLock, TypeInv, ListType, PoolType, PoolPC
<1>5. EventType' /\ ListsOK'
  BY Unchanged DEF DispatchLock, jobs
<1>6. QED
  BY <1>2, <1>3, <1>4, <1>5 DEF TypeInv

LEMMA DispatchCallType == ASSUME TypeInv, NEW p \in PoolThreads, DispatchCall(p) PROVE TypeInv'
<1>1. JobsOK' /\ RefsOK' /\ BornOK'
  <2>1. PICK l \in {"lock", "call", "callback"} : l = "callback"
    OBVIOUS
  <2>2. pc' = [pc EXCEPT ![p] = l] /\ Dispatching(p)
    BY <2>1 DEF DispatchCall, Dispatching
  <2>3. QED
    BY <2>2, DispatchingKept DEF DispatchCall, life, registrations, jobs
<1>2. LifeType'
  BY DEF DispatchCall, life, registrations, TypeInv, LifeType
<1>3. PoolType'
  BY DEF DispatchCall, TypeInv, PoolType, PoolPC
<1>4. ListType' /\ ListsOK'
  BY Unchanged DEF DispatchCall
<1>5. EventType'
  <2>1. Head(todo[p]) \in Sinks
    BY HeadTailProperties DEF DispatchCall, TypeInv, PoolType
  <2>2. job[p] \in Events
    <3>1. job[p] \in DOMAIN submitted /\ job[p] \in Events \union {NoJob}
      BY OfType DEF DispatchCall, TypeInv, PoolType
    <3>2. QED
      BY <3>1, SubmittedFacts DEF NoJob
  <2>3. received \in [Sinks -> Seq(Events)]
    BY DEF TypeInv, EventType
  <2>4. received[Head(todo[p])] \in Seq(Events)
    BY <2>1, <2>3
  <2>5. Append(received[Head(todo[p])], job[p]) \in Seq(Events)
    BY <2>2, <2>4, AppendProperties
  <2>6. received' \in [Sinks -> Seq(Events)]
    BY <2>1, <2>3, <2>5 DEF DispatchCall
  <2>7. QED
    BY <2>6 DEF DispatchCall, jobs, TypeInv, EventType
<1>6. QED
  BY <1>1, <1>2, <1>3, <1>4, <1>5 DEF TypeInv

LEMMA CallbackReturnsType ==
  ASSUME TypeInv, OnceInv, NEW p \in PoolThreads, CallbackReturns(p) PROVE TypeInv'
<1>1. JobsOK' /\ RefsOK' /\ BornOK'
  <2>1. PICK l \in {"lock", "call", "callback"} : l = "call"
    OBVIOUS
  <2>2. pc' = [pc EXCEPT ![p] = l] /\ Dispatching(p)
    BY <2>1 DEF CallbackReturns, Dispatching
  <2>3. QED
    BY <2>2, DispatchingKept DEF CallbackReturns, life, registrations, jobs
<1>2. LifeType'
  BY DEF CallbackReturns, life, registrations, TypeInv, LifeType
<1>3. PoolType'
  <2>1. todo[p] \in Seq(Sinks) /\ todo[p] # <<>>
    BY DEF CallbackReturns, TypeInv, PoolType, OnceInv, TodoOK
  <2>2. Tail(todo[p]) \in Seq(Sinks)
    BY <2>1, TailFacts
  <2>3. QED
    BY <2>2 DEF CallbackReturns, TypeInv, PoolType, PoolPC
<1>4. ListType' /\ EventType' /\ ListsOK'
  BY Unchanged DEF CallbackReturns, jobs
<1>5. QED
  BY <1>1, <1>2, <1>3, <1>4 DEF TypeInv

\* The destructor's place changes; no constructed object becomes a new one.
LEMMA ObjectSteps ==
  ASSUME TypeInv, \A j \in Instances : object[j] # "unborn" => object'[j] # "unborn",
         pmSinks' \subseteq pmSinks, _instance' = NoInstance \/ _instance' = _instance,
         UNCHANGED <<submitted, _systemServices>>, Holds' => Holds
  PROVE  BornOK'
  BY SubmittedFacts DEF TypeInv, BornOK, LifeType

LEMMA ReleaseObject ==
  ASSUME TypeInv, NEW i \in Instances, NEW n, Release(i, n)
  PROVE  /\ object' \in [Instances -> ObjectPC]
         /\ \A j \in Instances : object[j] # "unborn" => object'[j] # "unborn"
  BY DEF Release, TypeInv, LifeType, ObjectPC

LEMMA DispatchUnlockType ==
  ASSUME TypeInv, NEW p \in PoolThreads, DispatchUnlock(p) PROVE TypeInv'
<1>1. PICK i \in Instances : i = Of(p) /\ i = submitted[job[p]] /\ job[p] \in DOMAIN submitted
  BY OfType DEF DispatchUnlock, Of
<1>0. PICK l \in {"destroy", "done"} : l = AfterRelease(i, 1, "done")
  BY DEF AfterRelease
<1>2. /\ pc' = [pc EXCEPT ![p] = l] /\ Release(i, 1)
      /\ pc \in [PoolThreads -> PoolPC] /\ Dispatching(p)
      /\ UNCHANGED <<shell, _systemServices, _instance, pmSinks, iarmHandlers, bus, calls,
                     _systemServicesNotification, job, todo, submitted, queue, received>>
  BY <1>0, <1>1 DEF DispatchUnlock, Dispatching, TypeInv, PoolType, registrations, jobs
<1>3. ~Dispatching(p)' /\ \A q \in PoolThreads \ {p} : Dispatching(q)' = Dispatching(q)
  BY <1>2 DEF Dispatching
<1>4. Pending' = Pending \ {job[p]} /\ job[p] \in Pending
  BY <1>2, <1>3 DEF Pending, TypeInv, JobsOK
<1>5. JobsOK'
  <2>1. \A q \in PoolThreads : pc'[q] # "idle" => job'[q] \in DOMAIN submitted'
    BY <1>1, <1>2 DEF TypeInv, JobsOK
  <2>2. \A e \in Pending' : e \in DOMAIN submitted'
    BY <1>2, <1>4 DEF TypeInv, JobsOK
  <2>3. \A q \in PoolThreads : Dispatching(q)' => q # p /\ Dispatching(q) /\ job'[q] = job[q]
    BY <1>2, <1>3
  <2>4. QED
    BY <1>2, <2>1, <2>2, <2>3 DEF TypeInv, JobsOK
<1>6. RefsOK'
  <2>1. JobsOf(i)' = JobsOf(i) \ {job[p]} /\ job[p] \in JobsOf(i)
    BY <1>1, <1>2, <1>4 DEF JobsOf
  <2>2. \A j \in Instances \ {i} : JobsOf(j)' = JobsOf(j)
    BY <1>1, <1>2, <1>4 DEF JobsOf
  <2>3. \A j \in Instances : Held(j)' = Held(j) /\ Held(j) \in Nat
    BY <1>2 DEF Held, Holds
  <2>4. /\ Cardinality(JobsOf(i)') = Cardinality(JobsOf(i)) - 1
        /\ IsFiniteSet(JobsOf(i)') /\ Cardinality(JobsOf(i)') \in Nat
    <3>1. IsFiniteSet(JobsOf(i))
      BY <1>1, PendingFinite
    <3>2. /\ IsFiniteSet(JobsOf(i) \ {job[p]})
          /\ Cardinality(JobsOf(i) \ {job[p]}) = Cardinality(JobsOf(i)) - 1
      BY <2>1, <3>1, FS_RemoveElement
    <3>3. QED
      BY <2>1, <3>2, FS_CardinalityType
  <2>5. ASSUME NEW j \in Instances
        PROVE  /\ Held(j) + Cardinality(JobsOf(j)) =
                    Held(j)' + Cardinality(JobsOf(j)') + (IF j = i THEN 1 ELSE 0)
               /\ Held(j)' + Cardinality(JobsOf(j)') \in Nat
    <3>1. Cardinality(JobsOf(j)) \in Nat /\ Held(j) \in Nat /\ Held(j)' = Held(j)
      BY <2>3, PendingFinite
    <3>2. CASE j = i
      <4>1. /\ Cardinality(JobsOf(j)') = Cardinality(JobsOf(j)) - 1
            /\ Cardinality(JobsOf(j)') \in Nat
        BY <2>4, <3>2
      <4>2. QED
        BY <3>1, <3>2, <4>1
    <3>3. CASE j # i
      BY <2>2, <2>3, <3>1, <3>3
    <3>4. QED
      BY <3>2, <3>3
  <2>6. 1 \in Nat
    OBVIOUS
  <2>7. QED
    BY <1>1, <1>2, <2>5, <2>6, RefsDropped
<1>7. BornOK'
  <2>1. Holds' = Holds
    BY <1>2 DEF Holds
  <2>2. QED
    BY <1>1, <1>2, <2>1, ReleaseObject, ObjectSteps
<1>8. LifeType'
  <2>1. object' \in [Instances -> ObjectPC]
    BY <1>1, <1>2, ReleaseObject
  <2>2. QED
    BY <1>2, <2>1 DEF TypeInv, LifeType
<1>9. ListType'
  BY <1>1, <1>2 DEF DispatchUnlock, TypeInv, ListType
<1>10. PoolType'
  BY <1>2 DEF TypeInv, PoolType, PoolPC
<1>11. EventType' /\ ListsOK'
  BY <1>2, Unchanged
<1>12. QED
  BY <1>5, <1>6, <1>7, <1>8, <1>9, <1>10, <1>11 DEF TypeInv

LEMMA JobDoneType == ASSUME TypeInv, NEW p \in PoolThreads, JobDone(p) PROVE TypeInv'
<1>1. /\ pc' = [pc EXCEPT ![p] = "idle"] /\ job' = [job EXCEPT ![p] = NoJob]
      /\ pc[p] \in {"done", "destroy"}
      /\ UNCHANGED <<shell, _systemServices, _instance, object, refs, pmSinks, iarmHandlers, bus,
                     calls, _systemServicesNotification, _adminLock, todo, submitted, queue, received>>
  BY DEF JobDone, life, registrations, jobs
<1>2. pc \in [PoolThreads -> PoolPC] /\ job \in [PoolThreads -> Events \union {NoJob}]
  BY DEF TypeInv, PoolType
<1>3. /\ ~Dispatching(p) /\ ~Dispatching(p)'
      /\ \A q \in PoolThreads \ {p} : Dispatching(q)' = Dispatching(q) /\ job'[q] = job[q]
  BY <1>1, <1>2 DEF Dispatching
<1>4. Pending' = Pending
  BY <1>1, <1>3 DEF Pending
<1>5. JobsOK'
  <2>1. \A q \in PoolThreads : pc'[q] # "idle" => job'[q] \in DOMAIN submitted'
    BY <1>1, <1>2 DEF TypeInv, JobsOK
  <2>2. QED
    BY <1>1, <1>3, <1>4, <2>1 DEF TypeInv, JobsOK
<1>6. Holds' = Holds
  BY <1>1 DEF Holds
<1>7. RefsOK'
  BY <1>1, <1>4, <1>6, RefsKept
<1>8. LifeType'
  BY <1>1 DEF TypeInv, LifeType
<1>9. PoolType'
  BY <1>1, <1>2 DEF TypeInv, PoolType, PoolPC
<1>10. ListType' /\ EventType' /\ BornOK' /\ ListsOK'
  BY <1>1, Unchanged
<1>11. QED
  BY <1>5, <1>7, <1>8, <1>9, <1>10 DEF TypeInv

LEMMA LeavePowerManagerType ==
  ASSUME TypeInv, NEW i \in Instances, LeavePowerManager(i) PROVE TypeInv'
<1>1. LifeType'
  BY DEF LeavePowerManager, TypeInv, LifeType, ObjectPC
<1>2. BornOK'
  <2>1. \A j \in Instances : object[j] # "unborn" => object'[j] # "unborn"
    BY DEF LeavePowerManager, TypeInv, LifeType
  <2>2. Holds' = Holds
    BY DEF LeavePowerManager, Holds
  <2>3. QED
    BY <2>1, <2>2, ObjectSteps DEF LeavePowerManager, jobs
<1>3. JobsOK' /\ RefsOK'
  BY JobsKept, Unchanged DEF LeavePowerManager, pool, jobs
<1>4. ListType' /\ PoolType' /\ EventType' /\ ListsOK'
  BY Unchanged DEF LeavePowerManager, pool, jobs
<1>5. QED
  BY <1>1, <1>2, <1>3, <1>4 DEF TypeInv

LEMMA LeaveIARMType == ASSUME TypeInv, NEW i \in Instances, LeaveIARM(i) PROVE TypeInv'
<1>1. LifeType'
  BY DEF LeaveIARM, TypeInv, LifeType, ObjectPC
<1>2. BornOK'
  <2>1. \A j \in Instances : object[j] # "unborn" => object'[j] # "unborn"
    BY DEF LeaveIARM, TypeInv, LifeType
  <2>2. Holds' = Holds
    BY DEF LeaveIARM, Holds
  <2>3. QED
    BY <2>1, <2>2, ObjectSteps DEF LeaveIARM, jobs
<1>3. JobsOK' /\ RefsOK'
  BY JobsKept, Unchanged DEF LeaveIARM, pool, jobs
<1>4. ListType' /\ PoolType' /\ EventType' /\ ListsOK'
  BY Unchanged DEF LeaveIARM, pool, jobs
<1>5. QED
  BY <1>1, <1>2, <1>3, <1>4 DEF TypeInv

LEMMA ForgetInstanceType ==
  ASSUME TypeInv, NEW i \in Instances, ForgetInstance(i) PROVE TypeInv'
<1>1. LifeType'
  BY DEF ForgetInstance, registrations, TypeInv, LifeType, ObjectPC
<1>2. BornOK'
  <2>1. \A j \in Instances : object[j] # "unborn" => object'[j] # "unborn"
    BY DEF ForgetInstance, TypeInv, LifeType
  <2>2. Holds' = Holds
    BY DEF ForgetInstance, Holds
  <2>3. QED
    BY <2>1, <2>2, ObjectSteps DEF ForgetInstance, registrations, jobs
<1>3. JobsOK' /\ RefsOK'
  BY JobsKept, Unchanged DEF ForgetInstance, pool, jobs
<1>4. PoolType' /\ EventType'
  BY Unchanged DEF ForgetInstance, pool, jobs
<1>5. <<>> \in Seq(Sinks) /\ IsInjective(<<>>)
  BY EmptySeq DEF IsInjective
<1>6. ListType'
  BY <1>5 DEF ForgetInstance, pool, TypeInv, ListType
<1>7. ListsOK'
  BY <1>5 DEF ForgetInstance, TypeInv, ListType, ListsOK
<1>8. QED
  BY <1>1, <1>2, <1>3, <1>4, <1>6, <1>7 DEF TypeInv

\* Lists stay free of duplicates, whoever joins or leaves.
LEMMA RegisterFacts ==
  ASSUME TypeInv, NEW i \in Instances, NEW s \in Sinks, Register(i, s)
  PROVE  \E l \in Seq(Sinks) :
           /\ _systemServicesNotification' = [_systemServicesNotification EXCEPT ![i] = l]
           /\ IsInjective(l)
           /\ Range(l) = Range(_systemServicesNotification[i]) \union {s}
<1> DEFINE seq == _systemServicesNotification[i]
<1>1. /\ _systemServicesNotification \in [Instances -> Seq(Sinks)] /\ seq \in Seq(Sinks)
      /\ IsInjective(seq)
  BY DEF TypeInv, ListType, ListsOK
<1>2. CASE Registered(i, s)
  <2>1. /\ _systemServicesNotification' = [_systemServicesNotification EXCEPT ![i] = seq]
        /\ Range(seq) = Range(seq) \union {s}
    BY <1>1, <1>2 DEF Register, Registered
  <2>2. QED
    BY <1>1, <2>1
<1>3. CASE ~Registered(i, s)
  <2>1. /\ Append(seq, s) \in Seq(Sinks) /\ Range(Append(seq, s)) = Range(seq) \union {s}
        /\ IsInjective(seq) /\ s \notin Range(seq) => IsInjective(Append(seq, s))
    BY <1>1, AppendFacts
  <2>2. _systemServicesNotification' =
          [_systemServicesNotification EXCEPT ![i] = Append(seq, s)]
    BY <1>3 DEF Register
  <2>3. IsInjective(Append(seq, s))
    BY <1>1, <1>3, <2>1 DEF Registered
  <2>4. QED
    BY <2>1, <2>2, <2>3
<1>4. QED
  BY <1>2, <1>3

LEMMA UnregisterFacts ==
  ASSUME TypeInv, NEW i \in Instances, NEW s \in Sinks, Unregister(i, s)
  PROVE  \E l \in Seq(Sinks) :
           /\ _systemServicesNotification' = [_systemServicesNotification EXCEPT ![i] = l]
           /\ IsInjective(l)
           /\ Range(l) = Range(_systemServicesNotification[i]) \ {s}
<1> DEFINE seq == _systemServicesNotification[i]
<1>1. /\ _systemServicesNotification \in [Instances -> Seq(Sinks)] /\ seq \in Seq(Sinks)
      /\ IsInjective(seq)
  BY DEF TypeInv, ListType, ListsOK
<1>2. CASE /\ ~Registered(i, s)
           /\ UNCHANGED _systemServicesNotification
  <2>1. /\ _systemServicesNotification' = [_systemServicesNotification EXCEPT ![i] = seq]
        /\ Range(seq) = Range(seq) \ {s}
    BY <1>1, <1>2 DEF Registered
  <2>2. QED
    BY <1>1, <2>1
<1>3. CASE \E k \in DOMAIN seq :
             /\ seq[k] = s
             /\ _systemServicesNotification' =
                  [_systemServicesNotification EXCEPT ![i] = RemoveAt(seq, k)]
  <2>1. PICK k \in DOMAIN seq :
          /\ seq[k] = s
          /\ _systemServicesNotification' =
               [_systemServicesNotification EXCEPT ![i] = RemoveAt(seq, k)]
    BY <1>3
  <2>2. /\ RemoveAt(seq, k) \in Seq(Sinks) /\ IsInjective(RemoveAt(seq, k))
        /\ Range(RemoveAt(seq, k)) = Range(seq) \ {seq[k]}
    BY <1>1, RemoveAtFacts
  <2>3. QED
    BY <2>1, <2>2
<1>4. QED
  BY <1>2, <1>3 DEF Unregister

LEMMA ListsKept ==
  ASSUME TypeInv, NEW i \in Instances, NEW s \in Sinks,
         Register(i, s) \/ Unregister(i, s), UNCHANGED _adminLock
  PROVE  ListType' /\ ListsOK'
<1>1. PICK l \in Seq(Sinks) :
        /\ _systemServicesNotification' = [_systemServicesNotification EXCEPT ![i] = l]
        /\ IsInjective(l)
  BY RegisterFacts, UnregisterFacts
<1>2. QED
  BY <1>1 DEF TypeInv, ListType, ListsOK

LEMMA HoldsFacts ==
  ASSUME TypeInv, Holds
  PROVE  _systemServices \in Instances /\ object[_systemServices] # "unborn"
  BY DEF TypeInv, LifeType, BornOK

LEMMA ClientCallType ==
  ASSUME TypeInv, NEW c \in Clients, ClientRegisters(c) \/ ClientUnregisters(c) PROVE TypeInv'
<1>1. /\ Register(_systemServices, c) \/ Unregister(_systemServices, c)
      /\ shell = "active" /\ calls < MaxCalls /\ calls' = calls + 1
      /\ UNCHANGED <<life, registrations, pool, jobs, bus, received>>
  BY DEF ClientRegisters, ClientUnregisters
<1>2. _systemServices \in Instances /\ c \in Sinks
  BY <1>1, HoldsFacts DEF Holds, Sinks
<1>3. ListType' /\ ListsOK'
  BY <1>1, <1>2, ListsKept DEF pool
<1>4. calls' \in 0 .. MaxCalls
  BY <1>1, EventDispatchAssumption DEF TypeInv, LifeType
<1>5. LifeType'
  BY <1>1, <1>4 DEF life, registrations, TypeInv, LifeType
<1>6. PoolType' /\ EventType' /\ BornOK'
  BY <1>1, Unchanged DEF pool, jobs, life, registrations
<1>7. JobsOK' /\ RefsOK'
  BY <1>1, JobsKept, Unchanged DEF pool, jobs, life
<1>8. QED
  BY <1>3, <1>5, <1>6, <1>7 DEF TypeInv

LEMMA InitializeType == ASSUME TypeInv, Initialize PROVE TypeInv'
<1>1. PICK i \in Instances :
        /\ object[i] = "unborn"
        /\ object' = [object EXCEPT ![i] = "live"] /\ refs' = [refs EXCEPT ![i] = 2]
        /\ _systemServices' = i /\ _instance' = i
  BY DEF Initialize
<1>2. /\ shell = "inactive" /\ shell' = "configure"
      /\ UNCHANGED <<pmSinks, iarmHandlers, _systemServicesNotification, _adminLock, job, todo, pc,
                     submitted, queue, bus, received, calls>>
  BY DEF Initialize, registrations, pool, jobs
<1>3. object \in [Instances -> ObjectPC] /\ refs \in [Instances -> Nat]
  BY DEF TypeInv, LifeType, RefsOK
<1>4. LifeType'
  BY <1>1, <1>2, <1>3 DEF TypeInv, LifeType, ShellPC, ObjectPC
<1>5. ListType' /\ PoolType' /\ EventType' /\ JobsOK' /\ ListsOK' /\ Pending' = Pending
  BY <1>2, Unchanged
<1>6. BornOK'
  <2>1. \A j \in Instances : object[j] # "unborn" => object'[j] # "unborn"
    BY <1>1, <1>3
  <2>2. object'[i] # "unborn" /\ i # NoInstance
    BY <1>1, <1>3 DEF Instances, NoInstance
  <2>3. QED
    BY <1>1, <1>2, <2>1, <2>2, SubmittedFacts DEF TypeInv, LifeType, BornOK
<1>7. RefsOK'
  <2>1. JobsOf(i) = {}
    <3>1. ASSUME NEW e \in Pending, submitted[e] = i
          PROVE  FALSE
      BY <1>1, <3>1 DEF TypeInv, JobsOK, BornOK
    <3>2. QED
      BY <3>1 DEF JobsOf
  <2>2. \A j \in Instances : JobsOf(j)' = JobsOf(j)
    BY <1>2, <1>5 DEF JobsOf
  <2>3. Cardinality({}) = 0
    BY FS_EmptySet
  <2>4. Held(i)' = 2 /\ \A j \in Instances \ {i} : Held(j)' = 0 /\ Held(j) = 0
    BY <1>1, <1>2 DEF Held, Holds
  <2>5. \A j \in Instances : refs[j] = Held(j) + Cardinality(JobsOf(j))
    BY DEF TypeInv, RefsOK
  <2>6. ASSUME NEW j \in Instances
        PROVE  refs'[j] = Held(j)' + Cardinality(JobsOf(j)')
    <3>1. CASE j = i
      BY <1>1, <1>3, <2>1, <2>2, <2>3, <2>4, <3>1
    <3>2. CASE j # i
      BY <1>1, <1>3, <2>2, <2>4, <2>5, <3>2
    <3>3. QED
      BY <3>1, <3>2
  <2>7. QED
    BY <1>1, <1>3, <2>6 DEF RefsOK
<1>8. QED
  BY <1>4, <1>5, <1>6, <1>7 DEF TypeInv

LEMMA ConfigureType == ASSUME TypeInv, Configure PROVE TypeInv'
<1>1. _systemServices \in Instances /\ object[_systemServices] # "unborn" /\ Holds /\ Holds'
  BY HoldsFacts DEF Configure, Holds
<1>2. LifeType'
  BY <1>1 DEF Configure, TypeInv, LifeType, ShellPC
<1>3. BornOK'
  BY <1>1 DEF Configure, jobs, TypeInv, BornOK
<1>4. JobsOK' /\ RefsOK'
  BY <1>1, JobsKept DEF Configure, pool, jobs, Holds
<1>5. ListType' /\ PoolType' /\ EventType' /\ ListsOK'
  BY Unchanged DEF Configure, pool, jobs
<1>6. QED
  BY <1>2, <1>3, <1>4, <1>5 DEF TypeInv

LEMMA ShellCallType ==
  ASSUME TypeInv, ShellRegisters \/ Deinitialize PROVE TypeInv'
<1>1. /\ Register(_systemServices, Shell) \/ Unregister(_systemServices, Shell)
      /\ shell \in {"register", "active"} /\ shell' \in {"active", "release"}
      /\ UNCHANGED <<_systemServices, _instance, object, refs, registrations, pool, jobs, bus,
                     received, calls>>
  BY DEF ShellRegisters, Deinitialize
<1>2. _systemServices \in Instances /\ Shell \in Sinks /\ Holds /\ Holds'
  BY <1>1, HoldsFacts DEF Holds, Sinks
<1>3. ListType' /\ ListsOK'
  BY <1>1, <1>2, ListsKept DEF pool
<1>4. LifeType'
  BY <1>1 DEF registrations, TypeInv, LifeType, ShellPC
<1>5. BornOK'
  BY <1>1, <1>2 DEF registrations, jobs, TypeInv, BornOK
<1>6. JobsOK' /\ RefsOK'
  BY <1>1, <1>2, JobsKept DEF pool, jobs, Holds
<1>7. PoolType' /\ EventType'
  BY <1>1, Unchanged DEF pool, jobs
<1>8. QED
  BY <1>3, <1>4, <1>5, <1>6, <1>7 DEF TypeInv

LEMMA ShellReleasesType == ASSUME TypeInv, ShellReleases PROVE TypeInv'
<1>1. PICK i \in Instances : i = _systemServices /\ i # NoInstance
  BY HoldsFacts DEF ShellReleases, Holds, Instances, NoInstance
<1>2. /\ Release(i, 2) /\ shell = "release" /\ shell' \in {"destroy", "released"}
      /\ UNCHANGED <<_systemServices, _instance, pmSinks, iarmHandlers, _adminLock, job, todo, pc,
                     _systemServicesNotification, submitted, queue, bus, received, calls>>
  BY <1>1 DEF ShellReleases, AfterRelease, registrations, pool, jobs
<1>3. /\ object' \in [Instances -> ObjectPC]
      /\ \A j \in Instances : object[j] # "unborn" => object'[j] # "unborn"
  <2>1. PICK n \in Nat : n = 2
    OBVIOUS
  <2>2. QED
    BY <1>2, <2>1, ReleaseObject
<1>4. LifeType'
  BY <1>2, <1>3 DEF TypeInv, LifeType, ShellPC
<1>5. ListType' /\ PoolType' /\ EventType' /\ JobsOK' /\ ListsOK' /\ Pending' = Pending
  BY <1>2, Unchanged
<1>6. BornOK'
  BY <1>2, <1>3, ObjectSteps DEF Holds
<1>7. RefsOK'
  <2>1. \A j \in Instances : JobsOf(j)' = JobsOf(j) /\ Cardinality(JobsOf(j)) \in Nat
    BY <1>2, <1>5, PendingFinite DEF JobsOf
  <2>2. /\ Held(i) = 2
        /\ \A j \in Instances : Held(j)' = 0 /\ (j # i => Held(j) = 0)
    BY <1>1, <1>2 DEF Held, Holds
  <2>3. ASSUME NEW j \in Instances
        PROVE  /\ Held(j) + Cardinality(JobsOf(j)) =
                    Held(j)' + Cardinality(JobsOf(j)') + (IF j = i THEN 2 ELSE 0)
               /\ Held(j)' + Cardinality(JobsOf(j)') \in Nat
    <3>1. CASE j = i
      BY <2>1, <2>2, <3>1
    <3>2. CASE j # i
      BY <2>1, <2>2, <3>2
    <3>3. QED
      BY <3>1, <3>2
  <2>4. 2 \in Nat
    OBVIOUS
  <2>5. QED
    BY <1>2, <2>3, <2>4, RefsDropped
<1>8. QED
  BY <1>4, <1>5, <1>6, <1>7 DEF TypeInv

LEMMA DeinitializedType == ASSUME TypeInv, Deinitialized PROVE TypeInv'
<1>1. /\ ~Holds /\ ~Holds' /\ shell' = "inactive" /\ _systemServices' = NoInstance
      /\ UNCHANGED <<_instance, object, refs, pmSinks, iarmHandlers, _adminLock, job, todo, pc,
                     _systemServicesNotification, submitted, queue, bus, received, calls>>
  BY DEF Deinitialized, Holds, registrations, pool, jobs
<1>2. LifeType'
  BY <1>1 DEF TypeInv, LifeType, ShellPC
<1>3. ListType' /\ PoolType' /\ EventType' /\ JobsOK' /\ ListsOK' /\ Pending' = Pending
  BY <1>1, Unchanged
<1>4. BornOK'
  BY <1>1 DEF TypeInv, BornOK
<1>5. RefsOK'
  <2>1. \A j \in Instances : JobsOf(j)' = JobsOf(j) /\ Held(j)' = Held(j)
    BY <1>1, <1>3 DEF JobsOf, Held
  <2>2. QED
    BY <1>1, <2>1 DEF TypeInv, RefsOK
<1>6. QED
  BY <1>2, <1>3, <1>4, <1>5 DEF TypeInv

-----------------------------------------------------------------------------
(* Nobody is called twice.                                                 *)

\* A thread has fewer sinks to call for its job, or takes one from the queue.
LEMMA OnceThread ==
  ASSUME OnceInv, UNCHANGED <<received, submitted>>, Range(queue') \subseteq Range(queue), TodoOK',
         \A q \in PoolThreads : Dispatching(q)' =>
           \/ Dispatching(q) /\ job'[q] = job[q] /\ ToCall(q)' \subseteq ToCall(q)
           \/ job'[q] \in Range(queue)
  PROVE  OnceInv'
  BY DEF OnceInv, ReceivedOK

LEMMA OnceKept ==
  ASSUME OnceInv, UNCHANGED <<received, submitted, queue, job, todo, pc>>
  PROVE  OnceInv'
  BY DEF OnceInv, ReceivedOK, TodoOK, ToCall, Dispatching

LEMMA DispatchEventOnce ==
  ASSUME TypeInv, OnceInv, NEW i \in Instances, dispatchEvent(i),
         UNCHANGED <<received, job, todo, pc>>
  PROVE  OnceInv'
<1>1. PICK n \in Events :
        /\ n \notin DOMAIN submitted /\ DOMAIN submitted' = DOMAIN submitted \union {n}
        /\ Range(queue') = Range(queue) \union {n}
  BY DispatchEventFacts
<1>2. TodoOK'
  BY DEF OnceInv, TodoOK
<1>3. \A q \in PoolThreads : Dispatching(q)' = Dispatching(q) /\ ToCall(q)' = ToCall(q)
  BY DEF Dispatching, ToCall
<1>4. QED
  BY <1>1, <1>2, <1>3 DEF OnceInv, ReceivedOK

LEMMA TakeJobOnce == ASSUME TypeInv, OnceInv, NEW p \in PoolThreads, TakeJob(p) PROVE OnceInv'
<1>1. /\ queue \in Seq(Events) /\ queue # <<>> /\ queue' = Tail(queue)
      /\ job' = [job EXCEPT ![p] = Head(queue)] /\ pc' = [pc EXCEPT ![p] = "lock"]
      /\ UNCHANGED <<todo, submitted, received>>
      /\ pc \in [PoolThreads -> PoolPC] /\ job \in [PoolThreads -> Events \union {NoJob}]
  BY DEF TakeJob, TypeInv, EventType, PoolType
<1>2. Range(queue) = {Head(queue)} \union Range(queue')
  BY <1>1, TailFacts
<1>3. TodoOK'
  BY <1>1 DEF OnceInv, TodoOK
<1>4. job'[p] \in Range(queue)
  BY <1>1, <1>2
<1>5. \A q \in PoolThreads \ {p} :
        Dispatching(q)' = Dispatching(q) /\ job'[q] = job[q] /\ ToCall(q)' = ToCall(q)
  BY <1>1 DEF Dispatching, ToCall
<1>6. QED
  BY <1>1, <1>2, <1>3, <1>4, <1>5, OnceThread

LEMMA DispatchLockOnce ==
  ASSUME TypeInv, OnceInv, NEW p \in PoolThreads, DispatchLock(p) PROVE OnceInv'
<1>1. PICK i \in Instances : i = Of(p)
  BY OfType DEF DispatchLock
<1>2. /\ _systemServicesNotification[i] \in Seq(Sinks)
      /\ IsInjective(_systemServicesNotification[i])
  BY DEF TypeInv, ListType, ListsOK
<1>3. /\ todo' = [todo EXCEPT ![p] = _systemServicesNotification[i]]
      /\ pc[p] = "lock" /\ pc' = [pc EXCEPT ![p] = "call"]
      /\ UNCHANGED <<job, submitted, queue, received>>
      /\ pc \in [PoolThreads -> PoolPC] /\ todo \in [PoolThreads -> Seq(Sinks)]
  BY <1>1 DEF DispatchLock, jobs, TypeInv, PoolType
<1>4. TodoOK'
  BY <1>2, <1>3 DEF OnceInv, TodoOK
<1>5. Range(_systemServicesNotification[i]) \subseteq Sinks
  BY <1>2, LenProperties, ElementOfSeq DEF Range
<1>6. Dispatching(p) /\ ToCall(p)' \subseteq ToCall(p)
  BY <1>3, <1>5 DEF Dispatching, ToCall
<1>7. \A q \in PoolThreads \ {p} : Dispatching(q)' = Dispatching(q) /\ ToCall(q)' = ToCall(q)
  BY <1>3 DEF Dispatching, ToCall
<1>8. QED
  BY <1>3, <1>4, <1>6, <1>7, OnceThread

LEMMA CallbackReturnsOnce ==
  ASSUME TypeInv, OnceInv, NEW p \in PoolThreads, CallbackReturns(p) PROVE OnceInv'
<1>1. /\ todo' = [todo EXCEPT ![p] = Tail(todo[p])]
      /\ pc[p] = "callback" /\ pc' = [pc EXCEPT ![p] = "call"]
      /\ UNCHANGED <<job, submitted, queue, received>>
      /\ pc \in [PoolThreads -> PoolPC] /\ todo \in [PoolThreads -> Seq(Sinks)]
  BY DEF CallbackReturns, jobs, TypeInv, PoolType
<1>2. todo[p] \in Seq(Sinks) /\ todo[p] # <<>> /\ IsInjective(todo[p])
  BY <1>1 DEF OnceInv, TodoOK
<1>3. IsInjective(Tail(todo[p]))
  BY <1>2, TailFacts
<1>4. TodoOK'
  BY <1>1, <1>3 DEF OnceInv, TodoOK
<1>5. Dispatching(p) /\ ToCall(p)' \subseteq ToCall(p)
  BY <1>1 DEF Dispatching, ToCall
<1>6. \A q \in PoolThreads \ {p} : Dispatching(q)' = Dispatching(q) /\ ToCall(q)' = ToCall(q)
  BY <1>1 DEF Dispatching, ToCall
<1>7. QED
  BY <1>1, <1>4, <1>5, <1>6, OnceThread

LEMMA ThreadLeavesOnce ==
  ASSUME TypeInv, OnceInv, NEW p \in PoolThreads, DispatchUnlock(p) \/ JobDone(p) PROVE OnceInv'
<1>1. PICK l \in {"destroy", "done", "idle"} : pc' = [pc EXCEPT ![p] = l]
  BY DEF DispatchUnlock, JobDone, AfterRelease
<1>2. /\ UNCHANGED <<todo, submitted, queue, received>>
      /\ \A q \in PoolThreads \ {p} : job'[q] = job[q]
      /\ pc \in [PoolThreads -> PoolPC]
  BY DEF DispatchUnlock, JobDone, jobs, TypeInv, PoolType
<1>3. ~Dispatching(p)'
  BY <1>1, <1>2 DEF Dispatching
<1>4. \A q \in PoolThreads \ {p} : Dispatching(q)' = Dispatching(q) /\ ToCall(q)' = ToCall(q)
  BY <1>1, <1>2 DEF Dispatching, ToCall
<1>5. TodoOK'
  BY <1>1, <1>2 DEF OnceInv, TodoOK
<1>6. QED
  BY <1>2, <1>3, <1>4, <1>5, OnceThread

\* The next sink was not called for the event before, and is not to be again.
LEMMA DispatchCallFacts ==
  ASSUME TypeInv, OnceInv, NEW p \in PoolThreads, DispatchCall(p)
  PROVE  \E s \in Sinks, e \in Events :
           /\ s = Head(todo[p]) /\ e = job[p] /\ e \in DOMAIN submitted
           /\ Range(todo[p]) = {s} \union Range(Tail(todo[p])) /\ s \notin Range(Tail(todo[p]))
           /\ e \notin Range(received[s])
           /\ Range(received'[s]) = Range(received[s]) \union {e} /\ IsInjective(received'[s])
           /\ \A t \in Sinks \ {s} : received'[t] = received[t]
<1>1. PICK s \in Sinks : s = Head(todo[p])
  BY HeadTailProperties DEF DispatchCall, TypeInv, PoolType
<1>2. PICK e \in DOMAIN submitted : e = job[p] /\ e \in Events
  <2>1. job[p] \in DOMAIN submitted /\ job[p] \in Events \union {NoJob}
    BY OfType DEF DispatchCall, TypeInv, PoolType
  <2>2. QED
    BY <2>1, SubmittedFacts DEF NoJob
<1>3. /\ received' = [received EXCEPT ![s] = Append(received[s], e)]
      /\ pc[p] = "call" /\ pc' = [pc EXCEPT ![p] = "callback"] /\ todo[p] # <<>>
      /\ UNCHANGED <<job, todo, submitted, queue>>
      /\ pc \in [PoolThreads -> PoolPC] /\ todo[p] \in Seq(Sinks)
      /\ received \in [Sinks -> Seq(Events)]
  BY <1>1, <1>2 DEF DispatchCall, jobs, TypeInv, PoolType, EventType
<1>4. /\ Range(todo[p]) = {s} \union Range(Tail(todo[p])) /\ s \notin Range(Tail(todo[p]))
  <2>1. IsInjective(todo[p])
    BY <1>3 DEF OnceInv, TodoOK
  <2>2. QED
    BY <1>1, <1>3, <2>1, TailFacts
<1>5. Dispatching(p) /\ ToCall(p) = Range(todo[p]) /\ ToCall(p)' = Range(Tail(todo[p]))
  BY <1>3 DEF Dispatching, ToCall
<1>6. e \notin Range(received[s])
  BY <1>2, <1>4, <1>5 DEF OnceInv, ReceivedOK
<1>7. /\ received'[s] = Append(received[s], e)
      /\ \A t \in Sinks \ {s} : received'[t] = received[t]
  BY <1>3
<1>8. Range(received'[s]) = Range(received[s]) \union {e} /\ IsInjective(received'[s])
  <2>1. received[s] \in Seq(Events) /\ IsInjective(received[s])
    BY <1>3 DEF OnceInv, ReceivedOK
  <2>2. QED
    BY <1>2, <1>6, <1>7, <2>1, AppendFacts
<1>9. QED
  BY <1>1, <1>2, <1>4, <1>6, <1>7, <1>8

LEMMA DispatchCallOnce ==
  ASSUME TypeInv, OnceInv, NEW p \in PoolThreads, DispatchCall(p) PROVE OnceInv'
<1>1. PICK s \in Sinks, e \in Events :
        /\ s = Head(todo[p]) /\ e = job[p] /\ e \in DOMAIN submitted
        /\ Range(todo[p]) = {s} \union Range(Tail(todo[p])) /\ s \notin Range(Tail(todo[p]))
        /\ e \notin Range(received[s])
        /\ Range(received'[s]) = Range(received[s]) \union {e} /\ IsInjective(received'[s])
        /\ \A t \in Sinks \ {s} : received'[t] = received[t]
  BY DispatchCallFacts
<1>2. /\ pc[p] = "call" /\ pc' = [pc EXCEPT ![p] = "callback"] /\ todo[p] # <<>>
      /\ UNCHANGED <<job, todo, submitted, queue>>
      /\ pc \in [PoolThreads -> PoolPC]
  BY DEF DispatchCall, jobs, TypeInv, PoolType
<1>3. Dispatching(p) /\ ToCall(p) = Range(todo[p]) /\ ToCall(p)' = Range(Tail(todo[p]))
  BY <1>2 DEF Dispatching, ToCall
<1>4. \A q \in PoolThreads : Dispatching(q)' = Dispatching(q) /\ ToCall(q)' \subseteq ToCall(q)
  <2>1. \A q \in PoolThreads \ {p} : Dispatching(q)' = Dispatching(q) /\ ToCall(q)' = ToCall(q)
    BY <1>2 DEF Dispatching, ToCall
  <2>2. Dispatching(p)' = Dispatching(p)
    BY <1>2 DEF Dispatching
  <2>3. QED
    <3>1. Range(Tail(todo[p])) \subseteq Range(todo[p])
      BY <1>1
    <3>2. ToCall(p)' \subseteq ToCall(p)
      BY <1>3, <3>1
    <3>3. QED
      BY <2>1, <2>2, <3>2
<1>5. TodoOK'
  BY <1>2 DEF OnceInv, TodoOK
<1>6. e \notin Range(queue)
  BY <1>1, <1>3 DEF TypeInv, JobsOK
<1>7. \A q \in PoolThreads : Dispatching(q)' /\ job'[q] = e => s \notin ToCall(q)'
  <2>1. \A q \in PoolThreads : Dispatching(q) /\ job[q] = e => q = p
    BY <1>1, <1>3 DEF TypeInv, JobsOK
  <2>2. QED
    BY <1>1, <1>2, <1>3, <1>4, <2>1
<1>8. ReceivedOK'
  <2>1. ASSUME NEW t \in Sinks
        PROVE  /\ IsInjective(received'[t])
               /\ \A x \in Range(received'[t]) :
                    /\ x \in DOMAIN submitted /\ x \notin Range(queue)
                    /\ \A q \in PoolThreads :
                         Dispatching(q)' /\ job'[q] = x => t \notin ToCall(q)'
    <3>1. /\ IsInjective(received[t])
          /\ \A x \in Range(received[t]) :
               /\ x \in DOMAIN submitted /\ x \notin Range(queue)
               /\ \A q \in PoolThreads : Dispatching(q)' /\ job'[q] = x => t \notin ToCall(q)'
      BY <1>2, <1>4 DEF OnceInv, ReceivedOK
    <3>2. CASE t = s
      BY <1>1, <1>6, <1>7, <3>1, <3>2
    <3>3. CASE t # s
      BY <1>1, <3>1, <3>3
    <3>4. QED
      BY <3>2, <3>3
  <2>2. QED
    BY <1>2, <2>1 DEF ReceivedOK
<1>9. QED
  BY <1>5, <1>8 DEF OnceInv

-----------------------------------------------------------------------------
(* The inductive invariant.                                                *)

IInv == TypeInv /\ OnceInv

LEMMA InitIInv == Init => IInv
<1> SUFFICES ASSUME Init PROVE IInv
  OBVIOUS
<1>1. <<>> \in Seq(Instances) /\ <<>> \in Seq(Events) /\ <<>> \in Seq(Sinks) /\ Len(<<>>) = 0
  BY EmptySeq
<1>2. IsInjective(<<>>) /\ Range(<<>>) = {} /\ DOMAIN <<>> = {}
  BY DEF IsInjective, Range
<1>3. LifeType
  BY EventDispatchAssumption DEF Init, LifeType, ShellPC, ObjectPC
<1>4. ListType /\ PoolType /\ EventType /\ ListsOK
  BY <1>1, <1>2, EventDispatchAssumption
     DEF Init, ListType, PoolType, EventType, ListsOK, PoolPC
<1>5. \A p \in PoolThreads : ~Dispatching(p) /\ pc[p] = "idle"
  BY DEF Init, Dispatching
<1>6. Pending = {}
  BY <1>2, <1>5 DEF Init, Pending
<1>7. JobsOK
  BY <1>2, <1>5, <1>6 DEF Init, JobsOK
<1>8. BornOK
  BY <1>2 DEF Init, BornOK, Holds
<1>9. RefsOK
  <2>1. \A i \in Instances : JobsOf(i) = {} /\ Held(i) = 0 /\ refs[i] = 0
    BY <1>6 DEF JobsOf, Held, Holds, Init
  <2>2. Cardinality({}) = 0
    BY FS_EmptySet
  <2>3. \A i \in Instances : refs[i] = Held(i) + Cardinality(JobsOf(i))
    BY <2>1, <2>2
  <2>4. refs \in [Instances -> Nat]
    BY DEF Init
  <2>5. QED
    BY <2>3, <2>4 DEF RefsOK
<1>10. OnceInv
  BY <1>2, <1>5 DEF Init, OnceInv, TodoOK, ReceivedOK
<1>11. QED
  BY <1>3, <1>4, <1>7, <1>8, <1>9, <1>10 DEF IInv, TypeInv

LEMMA PoolStepIInv ==
  ASSUME IInv, NEW p \in PoolThreads, PoolStep(p) PROVE IInv'
<1>1. CASE TakeJob(p)
  BY <1>1, TakeJobType, TakeJobOnce DEF IInv
<1>2. CASE DispatchLock(p)
  BY <1>2, DispatchLockType, DispatchLockOnce DEF IInv
<1>3. CASE DispatchCall(p)
  BY <1>3, DispatchCallType, DispatchCallOnce DEF IInv
<1>4. CASE CallbackReturns(p)
  BY <1>4, CallbackReturnsType, CallbackReturnsOnce DEF IInv
<1>5. CASE DispatchUnlock(p)
  BY <1>5, DispatchUnlockType, ThreadLeavesOnce DEF IInv
<1>6. CASE JobDone(p)
  BY <1>6, JobDoneType, ThreadLeavesOnce DEF IInv
<1>7. QED
  BY <1>1, <1>2, <1>3, <1>4, <1>5, <1>6 DEF PoolStep

LEMMA EventIInv ==
  ASSUME IInv, ApiEvent \/ BusCheck \/ BusCall \/ \E i \in Instances : PowerEvent(i) PROVE IInv'
<1>1. CASE ApiEvent
  <2>1. _systemServices \in Instances
    BY <1>1, HoldsFacts DEF ApiEvent, Holds, IInv
  <2>2. QED
    BY <1>1, <2>1, ApiEventType, DispatchEventOnce DEF ApiEvent, pool, IInv
<1>2. CASE BusCheck
  BY <1>2, BusCheckType, OnceKept DEF BusCheck, pool, jobs, IInv
<1>3. CASE BusCall
  <2>1. _instance \in Instances
    BY <1>3 DEF BusCall, IInv, TypeInv, LifeType
  <2>2. QED
    BY <1>3, <2>1, BusCallType, DispatchEventOnce DEF BusCall, pool, IInv
<1>4. ASSUME NEW i \in Instances, PowerEvent(i)
      PROVE  IInv'
  BY <1>4, PowerEventType, DispatchEventOnce DEF PowerEvent, pool, IInv
<1>5. QED
  BY <1>1, <1>2, <1>3, <1>4

LEMMA DestructorIInv ==
  ASSUME IInv, NEW i \in Instances, DestructorStep(i) PROVE IInv'
<1>1. OnceInv'
  BY OnceKept DEF DestructorStep, LeavePowerManager, LeaveIARM, ForgetInstance, pool, jobs, IInv
<1>2. TypeInv'
  BY LeavePowerManagerType, LeaveIARMType, ForgetInstanceType DEF DestructorStep, IInv
<1>3. QED
  BY <1>1, <1>2 DEF IInv

LEMMA ShellIInv ==
  ASSUME IInv, Initialize \/ Deinitialize \/ ShellStep PROVE IInv'
<1>1. OnceInv'
  BY OnceKept DEF Initialize, Deinitialize, ShellStep, Configure, ShellRegisters, ShellReleases,
     Deinitialized, pool, jobs, IInv
<1>2. TypeInv'
  BY InitializeType, ShellCallType, ConfigureType, ShellReleasesType, DeinitializedType
     DEF ShellStep, IInv
<1>3. QED
  BY <1>1, <1>2 DEF IInv

LEMMA ClientIInv ==
  ASSUME IInv, NEW c \in Clients, ClientRegisters(c) \/ ClientUnregisters(c) PROVE IInv'
<1>1. OnceInv'
  BY OnceKept DEF ClientRegisters, ClientUnregisters, pool, jobs, IInv
<1>2. QED
  BY <1>1, ClientCallType DEF IInv

LEMMA StutterIInv == ASSUME IInv, UNCHANGED vars PROVE IInv'
<1> USE DEF vars, life, registrations, pool, jobs, IInv
<1>1. OnceInv'
  BY OnceKept
<1>2. LifeType'
  BY DEF TypeInv, LifeType
<1>3. ListType' /\ PoolType' /\ EventType' /\ BornOK' /\ ListsOK'
  BY Unchanged
<1>4. JobsOK' /\ RefsOK'
  BY JobsKept, Unchanged
<1>5. QED
  BY <1>1, <1>2, <1>3, <1>4 DEF TypeInv

LEMMA NextIInv == IInv /\ [Next]_vars => IInv'
<1> SUFFICES ASSUME IInv, [Next]_vars PROVE IInv'
  OBVIOUS
<1>1. CASE Initialize \/ Deinitialize \/ ShellStep
  BY <1>1, ShellIInv
<1>2. CASE ApiEvent \/ BusCheck \/ BusCall \/ \E i \in Instances : PowerEvent(i)
  BY <1>2, EventIInv
<1>3. CASE \E i \in Instances : DestructorStep(i)
  BY <1>3, DestructorIInv
<1>4. CASE \E p \in PoolThreads : PoolStep(p)
  BY <1>4, PoolStepIInv
<1>5. CASE \E c \in Clients : ClientRegisters(c) \/ ClientUnregisters(c)
  BY <1>5, ClientIInv
<1>6. CASE UNCHANGED vars
  BY <1>6, StutterIInv
<1>7. QED
  BY <1>1, <1>2, <1>3, <1>4, <1>5, <1>6 DEF Next

LEMMA SpecIInv == Spec => []IInv
  BY InitIInv, NextIInv, PTL DEF Spec

\* Every variable keeps its type; the references of the shell and of the jobs
\* are those that exist, so no reference count falls below zero.
THEOREM TypeCorrect == Spec => []TypeOK
<1>1. IInv => TypeOK
  BY TypeInvTypeOK DEF IInv
<1>2. QED
  BY <1>1, SpecIInv, PTL

\* No sink is called twice for an event, whatever threads dispatch and clients
\* register while it is delivered (Dispatch under _adminLock, Register and
\* Unregister with find and push_back or erase).
THEOREM NeverTwice == Spec => []CalledOnce
<1>1. IInv => CalledOnce
  BY DEF IInv, OnceInv, ReceivedOK, CalledOnce
<1>2. QED
  BY <1>1, SpecIInv, PTL

-----------------------------------------------------------------------------
(* No implementation is left over.                                         *)

\* Who lives is referenced: the last reference starts the destructor.
LiveReferenced == \A i \in Instances : object[i] = "live" => refs[i] > 0

\* A release takes no more references than there are, and the last one's ends
\* the living.
LEMMA ReleaseReferenced ==
  ASSUME TypeInv, TypeInv', LiveReferenced, NEW i \in Instances, NEW n \in Nat, Release(i, n)
  PROVE  LiveReferenced'
<1>1. /\ refs \in [Instances -> Nat] /\ refs' \in [Instances -> Nat]
      /\ object \in [Instances -> ObjectPC]
  BY DEF TypeInv, LifeType, RefsOK
<1>2. /\ refs' = [refs EXCEPT ![i] = refs[i] - n]
      /\ object' = [object EXCEPT ![i] =
           IF refs[i] = n /\ object[i] = "live" THEN "leave_pm" ELSE object[i]]
  BY DEF Release
<1>3. ASSUME NEW j \in Instances, object'[j] = "live"
      PROVE  refs'[j] > 0
  <2>1. CASE j = i
    <3>1. refs[i] # n
      BY <1>1, <1>2, <1>3, <2>1
    <3>2. refs'[i] = refs[i] - n /\ refs'[i] \in Nat /\ refs[i] \in Nat
      BY <1>1, <1>2
    <3>3. QED
      BY <2>1, <3>1, <3>2
  <2>2. CASE j # i
    BY <1>1, <1>2, <1>3, <2>2 DEF LiveReferenced
  <2>3. QED
    BY <2>1, <2>2
<1>4. QED
  BY <1>3 DEF LiveReferenced

\* An event adds a reference, whoever noticed it and whatever the object does.
LEMMA EventReferenced ==
  ASSUME TypeInv, LiveReferenced, ApiEvent \/ BusCall \/ \E i \in Instances : PowerEvent(i)
  PROVE  LiveReferenced'
<1>1. PICK i \in Instances : dispatchEvent(i)
  <2>1. CASE ApiEvent
    BY <2>1, HoldsFacts DEF ApiEvent, Holds
  <2>2. CASE BusCall
    BY <2>2 DEF BusCall, TypeInv, LifeType
  <2>3. CASE \E i \in Instances : PowerEvent(i)
    BY <2>3 DEF PowerEvent
  <2>4. QED
    BY <2>1, <2>2, <2>3
<1>2. refs' = [refs EXCEPT ![i] = refs[i] + 1] /\ refs \in [Instances -> Nat]
  BY <1>1 DEF dispatchEvent, TypeInv, RefsOK
<1>3. UNCHANGED object
  BY DEF ApiEvent, BusCall, PowerEvent
<1>4. ASSUME NEW j \in Instances, object[j] = "live"
      PROVE  refs'[j] > 0
  <2>1. refs[j] > 0 /\ refs[j] \in Nat
    BY <1>2, <1>4 DEF LiveReferenced
  <2>2. refs'[j] = refs[j] \/ refs'[j] = refs[j] + 1
    BY <1>2
  <2>3. QED
    BY <2>1, <2>2
<1>5. QED
  BY <1>3, <1>4 DEF LiveReferenced

LEMMA NextReferenced ==
  ASSUME IInv, IInv', LiveReferenced, [Next]_vars
  PROVE  LiveReferenced'
<1> USE DEF IInv
<1>1. CASE Initialize
  <2>1. PICK i \in Instances :
          object' = [object EXCEPT ![i] = "live"] /\ refs' = [refs EXCEPT ![i] = 2]
    BY <1>1 DEF Initialize
  <2>2. QED
    BY <2>1 DEF LiveReferenced, TypeInv, RefsOK, LifeType
<1>2. CASE ShellReleases
  <2>1. PICK n \in Nat : n = 2
    OBVIOUS
  <2>2. _systemServices \in Instances /\ Release(_systemServices, n)
    BY <1>2, <2>1, HoldsFacts DEF ShellReleases, Holds
  <2>3. QED
    BY <2>2, ReleaseReferenced
<1>3. CASE \E p \in PoolThreads : DispatchUnlock(p)
  <2>1. PICK p \in PoolThreads : DispatchUnlock(p)
    BY <1>3
  <2>2. Of(p) \in Instances /\ Release(Of(p), 1)
    BY <2>1, OfType DEF DispatchUnlock
  <2>3. QED
    BY <2>2, ReleaseReferenced
<1>4. CASE ApiEvent \/ BusCall \/ \E i \in Instances : PowerEvent(i)
  BY <1>4, EventReferenced
<1>5. CASE \E i \in Instances : DestructorStep(i)
  <2>1. PICK i \in Instances : DestructorStep(i)
    BY <1>5
  <2>2. /\ UNCHANGED refs
        /\ \A j \in Instances : object'[j] = "live" => object[j] = "live"
    BY <2>1 DEF DestructorStep, LeavePowerManager, LeaveIARM, ForgetInstance, TypeInv, LifeType
  <2>3. QED
    BY <2>2 DEF LiveReferenced
<1>6. CASE UNCHANGED <<object, refs>>
  BY <1>6 DEF LiveReferenced
<1>7. \/ UNCHANGED <<object, refs>> \/ Initialize \/ ShellReleases
      \/ \E p \in PoolThreads : DispatchUnlock(p)
      \/ ApiEvent \/ BusCall \/ \E i \in Instances : PowerEvent(i)
      \/ \E i \in Instances : DestructorStep(i)
  <2>1. CASE Deinitialize \/ ShellStep
    BY <2>1 DEF Deinitialize, ShellStep, Configure, ShellRegisters, Deinitialized
  <2>2. CASE \E p \in PoolThreads : PoolStep(p)
    BY <2>2 DEF PoolStep, TakeJob, DispatchLock, DispatchCall, CallbackReturns, JobDone, life
  <2>3. CASE BusCheck \/ \E c \in Clients : ClientRegisters(c) \/ ClientUnregisters(c)
    BY <2>3 DEF BusCheck, ClientRegisters, ClientUnregisters, life
  <2>4. CASE UNCHANGED vars
    BY <2>4 DEF vars, life
  <2>5. QED
    BY <2>1, <2>2, <2>3, <2>4 DEF Next
<1>8. QED
  BY <1>1, <1>2, <1>3, <1>4, <1>5, <1>6, <1>7

\* An implementation that lives is the one the shell holds, or a job about it
\* is still to be delivered: none is left over with nobody to release it
\* (AddRef and Release of the shell and of Job), wherever events come from.
THEOREM NoneLeftOver ==
  Spec => [](\A i \in Instances :
               object[i] = "live" => (Holds /\ _systemServices = i) \/ JobsOf(i) # {})
<1>1. Init => LiveReferenced
  BY DEF Init, LiveReferenced
<1>2. IInv /\ IInv' /\ LiveReferenced /\ [Next]_vars => LiveReferenced'
  BY NextReferenced
<1>3. ASSUME IInv, LiveReferenced, NEW i \in Instances, object[i] = "live", JobsOf(i) = {}
      PROVE  Holds /\ _systemServices = i
  <2>1. refs[i] > 0 /\ refs[i] = Held(i) + Cardinality(JobsOf(i))
    BY <1>3 DEF IInv, TypeInv, RefsOK, LiveReferenced
  <2>2. Cardinality(JobsOf(i)) = 0
    BY <1>3, FS_EmptySet
  <2>3. QED
    BY <2>1, <2>2 DEF Held
<1>4. IInv /\ LiveReferenced =>
        \A i \in Instances :
          object[i] = "live" => (Holds /\ _systemServices = i) \/ JobsOf(i) # {}
  BY <1>3
<1>5. QED
  BY <1>1, <1>2, <1>4, SpecIInv, PTL DEF Spec

-----------------------------------------------------------------------------
(* Where events come from calls only.                                      *)

ApiOnly == Sources \subseteq {"api"}

\* Whoever is referenced lives.
LifeOK == \A i \in Instances : refs[i] > 0 => object[i] = "live"

Calling(p) == pc[p] \in {"call", "callback"}

\* A thread that calls sinks has the lock, so they are still registered.
LockOK ==
  \A p \in PoolThreads : Calling(p) =>
    /\ _adminLock[Of(p)] = p
    /\ Range(todo[p]) \subseteq Range(_systemServicesNotification[Of(p)])

ApiInv == LifeOK /\ LockOK /\ bus = "idle"

LEMMA PendingLive ==
  ASSUME TypeInv, LifeOK
  PROVE  \A e \in Pending :
           submitted[e] \in Instances /\ refs[submitted[e]] > 0 /\ object[submitted[e]] = "live"
<1>1. TAKE e \in Pending
<1>2. PICK i \in Instances : i = submitted[e]
  BY SubmittedFacts DEF TypeInv, JobsOK
<1>3. e \in JobsOf(i) /\ IsFiniteSet(JobsOf(i)) /\ Cardinality(JobsOf(i)) \in Nat
  BY <1>2, PendingFinite DEF JobsOf
<1>4. Cardinality(JobsOf(i)) # 0
  BY <1>3, FS_EmptySet
<1>5. refs[i] = Held(i) + Cardinality(JobsOf(i)) /\ Held(i) \in Nat
  BY DEF TypeInv, RefsOK, Held
<1>6. refs[i] > 0
  BY <1>3, <1>4, <1>5
<1>7. QED
  BY <1>2, <1>6 DEF LifeOK

LEMMA HeldLive ==
  ASSUME TypeInv, LifeOK, Holds
  PROVE  object[_systemServices] = "live"
<1>1. PICK i \in Instances : i = _systemServices
  BY HoldsFacts
<1>2. refs[i] = Held(i) + Cardinality(JobsOf(i)) /\ Cardinality(JobsOf(i)) \in Nat
  BY PendingFinite DEF TypeInv, RefsOK
<1>3. Held(i) = 2
  BY <1>1 DEF Held
<1>4. refs[i] > 0
  BY <1>2, <1>3
<1>5. QED
  BY <1>1, <1>4 DEF LifeOK

LEMMA CallingFacts ==
  ASSUME TypeInv, LifeOK, NEW p \in PoolThreads, Calling(p)
  PROVE  /\ Of(p) \in Instances /\ job[p] \in DOMAIN submitted /\ job[p] \in Pending
         /\ object[Of(p)] = "live"
<1>1. Of(p) \in Instances /\ job[p] \in DOMAIN submitted
  BY OfType DEF Calling
<1>2. job[p] \in Pending
  BY DEF Calling, Pending, Dispatching
<1>3. QED
  BY <1>1, <1>2, PendingLive DEF Of

\* The last reference is the end of the living.
LEMMA ReleaseLife ==
  ASSUME TypeInv, LifeOK, NEW i \in Instances, NEW n \in Nat, Release(i, n)
  PROVE  LifeOK'
<1>1. refs \in [Instances -> Nat] /\ object \in [Instances -> ObjectPC]
  BY DEF TypeInv, LifeType, RefsOK
<1>2. /\ refs' = [refs EXCEPT ![i] = refs[i] - n]
      /\ object' = [object EXCEPT ![i] =
           IF refs[i] = n /\ object[i] = "live" THEN "leave_pm" ELSE object[i]]
  BY DEF Release
<1>3. ASSUME NEW j \in Instances, refs'[j] > 0
      PROVE  object'[j] = "live"
  <2>1. CASE j = i
    <3>1. refs[i] - n > 0 /\ refs[i] \in Nat
      BY <1>1, <1>2, <1>3, <2>1
    <3>2. refs[i] > 0 /\ refs[i] # n
      BY <3>1
    <3>3. QED
      BY <1>1, <1>2, <2>1, <3>2 DEF LifeOK
  <2>2. CASE j # i
    BY <1>1, <1>2, <1>3, <2>2 DEF LifeOK
  <2>3. QED
    BY <2>1, <2>2
<1>4. QED
  BY <1>3 DEF LifeOK

\* Who calls sinks keeps the lock, and goes on from its own list.
LEMMA LockKept ==
  ASSUME TypeInv, LockOK, UNCHANGED <<job, pc, todo, _adminLock, _systemServicesNotification>>,
         \A e \in DOMAIN submitted : submitted'[e] = submitted[e]
  PROVE  LockOK'
<1>1. ASSUME NEW p \in PoolThreads, Calling(p)'
      PROVE  Of(p)' = Of(p) /\ Calling(p)
  <2>1. Calling(p)
    BY <1>1 DEF Calling
  <2>2. job[p] \in DOMAIN submitted
    BY <2>1, OfType DEF Calling
  <2>3. QED
    BY <2>1, <2>2 DEF Of
<1>2. QED
  BY <1>1 DEF LockOK

LEMMA ApiEventApi ==
  ASSUME TypeInv, ApiInv, ApiEvent PROVE ApiInv'
<1>1. PICK i \in Instances : i = _systemServices
  BY HoldsFacts DEF ApiEvent, Holds
<1>2. object[i] = "live"
  BY <1>1, HeldLive DEF ApiEvent, Holds, ApiInv
<1>3. /\ dispatchEvent(i) /\ refs' = [refs EXCEPT ![i] = refs[i] + 1]
      /\ UNCHANGED <<object, job, pc, todo, _adminLock, _systemServicesNotification, bus>>
  BY <1>1 DEF ApiEvent, dispatchEvent, pool
<1>4. LifeOK'
  BY <1>2, <1>3 DEF ApiInv, LifeOK, TypeInv, RefsOK
<1>5. \A e \in DOMAIN submitted : submitted'[e] = submitted[e]
  BY <1>3, DispatchEventFacts
<1>6. QED
  BY <1>3, <1>4, <1>5, LockKept DEF ApiInv

LEMMA DestructorApi ==
  ASSUME TypeInv, ApiInv, NEW i \in Instances, DestructorStep(i) PROVE ApiInv'
<1>1. /\ object[i] # "live" /\ \A j \in Instances \ {i} : object'[j] = object[j]
      /\ UNCHANGED <<refs, bus, job, pc, todo, _adminLock, submitted>>
  BY DEF DestructorStep, LeavePowerManager, LeaveIARM, ForgetInstance, pool, jobs, TypeInv,
     LifeType
<1>2. LifeOK'
  BY <1>1 DEF ApiInv, LifeOK
<1>3. \A j \in Instances \ {i} :
        _systemServicesNotification'[j] = _systemServicesNotification[j]
  BY DEF DestructorStep, LeavePowerManager, LeaveIARM, ForgetInstance, TypeInv, ListType
<1>4. LockOK'
  <2>1. ASSUME NEW p \in PoolThreads, Calling(p)'
        PROVE  Calling(p) /\ Of(p)' = Of(p) /\ Of(p) \in Instances \ {i}
    <3>1. Calling(p)
      BY <1>1, <2>1 DEF Calling
    <3>2. QED
      BY <1>1, <3>1, CallingFacts DEF ApiInv, Of
  <2>2. QED
    BY <1>1, <1>3, <2>1 DEF ApiInv, LockOK
<1>5. QED
  BY <1>1, <1>2, <1>4 DEF ApiInv

\* A list changes only while nobody has its lock.
LEMMA ListChangeLock ==
  ASSUME TypeInv, ApiInv, NEW i \in Instances, NEW s \in Sinks,
         Register(i, s) \/ Unregister(i, s),
         UNCHANGED <<job, pc, todo, _adminLock, submitted>>, NoThread \notin PoolThreads
  PROVE  LockOK'
<1>1. _adminLock[i] = NoThread
  BY DEF Register, Unregister
<1>2. \A j \in Instances \ {i} :
        _systemServicesNotification'[j] = _systemServicesNotification[j]
  BY RegisterFacts, UnregisterFacts DEF TypeInv, ListType
<1>3. ASSUME NEW p \in PoolThreads, Calling(p)'
      PROVE  Calling(p) /\ Of(p)' = Of(p) /\ Of(p) \in Instances \ {i}
  <2>1. Calling(p)
    BY <1>3 DEF Calling
  <2>2. _adminLock[Of(p)] = p
    BY <2>1 DEF ApiInv, LockOK
  <2>3. QED
    BY <1>1, <2>1, <2>2, CallingFacts DEF ApiInv, Of
<1>4. QED
  BY <1>2, <1>3 DEF ApiInv, LockOK

LEMMA ClientApi ==
  ASSUME TypeInv, ApiInv, NEW c \in Clients, ClientRegisters(c) \/ ClientUnregisters(c)
  PROVE  ApiInv'
<1>1. /\ Register(_systemServices, c) \/ Unregister(_systemServices, c)
      /\ UNCHANGED <<object, refs, job, pc, todo, _adminLock, submitted, bus>>
      /\ shell = "active"
  BY DEF ClientRegisters, ClientUnregisters, life, pool, jobs
<1>2. _systemServices \in Instances /\ c \in Sinks
  BY <1>1, HoldsFacts DEF Holds, Sinks
<1>3. LockOK'
  BY <1>1, <1>2, ListChangeLock, EventDispatchAssumption
<1>4. QED
  BY <1>1, <1>3 DEF ApiInv, LifeOK

LEMMA ShellApi ==
  ASSUME TypeInv, ApiInv, Initialize \/ Deinitialize \/ ShellStep PROVE ApiInv'
<1>1. CASE Initialize
  <2>1. PICK i \in Instances :
          object' = [object EXCEPT ![i] = "live"] /\ refs' = [refs EXCEPT ![i] = 2]
    BY <1>1 DEF Initialize
  <2>2. LifeOK'
    BY <2>1 DEF ApiInv, LifeOK, TypeInv, RefsOK, LifeType
  <2>3. LockOK'
    BY <1>1, LockKept DEF Initialize, pool, jobs, ApiInv
  <2>4. QED
    BY <1>1, <2>2, <2>3 DEF Initialize, ApiInv
<1>2. CASE Configure
  BY <1>2, LockKept DEF Configure, pool, jobs, ApiInv, LifeOK
<1>3. CASE ShellRegisters \/ Deinitialize
  <2>1. /\ Register(_systemServices, Shell) \/ Unregister(_systemServices, Shell)
        /\ UNCHANGED <<object, refs, job, pc, todo, _adminLock, submitted, bus>>
        /\ shell \in {"register", "active"}
    BY <1>3 DEF ShellRegisters, Deinitialize, pool, jobs
  <2>2. _systemServices \in Instances /\ Shell \in Sinks
    BY <2>1, HoldsFacts DEF Holds, Sinks
  <2>3. LockOK'
    BY <2>1, <2>2, ListChangeLock, EventDispatchAssumption
  <2>4. QED
    BY <2>1, <2>3 DEF ApiInv, LifeOK
<1>4. CASE ShellReleases
  <2>1. PICK n \in Nat : n = 2
    OBVIOUS
  <2>2. _systemServices \in Instances /\ Release(_systemServices, n)
    BY <1>4, <2>1, HoldsFacts DEF ShellReleases, Holds
  <2>3. LifeOK'
    BY <2>2, ReleaseLife DEF ApiInv
  <2>4. LockOK'
    BY <1>4, LockKept DEF ShellReleases, pool, jobs, ApiInv
  <2>5. QED
    BY <1>4, <2>3, <2>4 DEF ShellReleases, ApiInv
<1>5. CASE Deinitialized
  BY <1>5, LockKept DEF Deinitialized, pool, jobs, ApiInv, LifeOK
<1>6. QED
  BY <1>1, <1>2, <1>3, <1>4, <1>5 DEF ShellStep

LEMMA PoolApi ==
  ASSUME TypeInv, OnceInv, ApiInv, NEW p \in PoolThreads, PoolStep(p) PROVE ApiInv'
<1> USE DEF ApiInv
<1>1. /\ pc \in [PoolThreads -> PoolPC] /\ job \in [PoolThreads -> Events \union {NoJob}]
      /\ todo \in [PoolThreads -> Seq(Sinks)]
      /\ _adminLock \in [Instances -> PoolThreads \union {NoThread}]
      /\ NoThread \notin PoolThreads
  BY EventDispatchAssumption DEF TypeInv, PoolType, ListType
<1>2. UNCHANGED <<_systemServicesNotification, submitted, bus>>
  BY DEF PoolStep, TakeJob, DispatchLock, DispatchCall, CallbackReturns, DispatchUnlock, JobDone,
     jobs
<1>3. ASSUME NEW q \in PoolThreads, Calling(q)
      PROVE  /\ Of(q) \in Instances /\ _adminLock[Of(q)] = q
             /\ Range(todo[q]) \subseteq Range(_systemServicesNotification[Of(q)])
  BY <1>3, CallingFacts DEF LockOK
<1>4. CASE TakeJob(p) \/ JobDone(p)
  <2>1. UNCHANGED <<refs, object, todo, _adminLock>>
    BY <1>4 DEF TakeJob, JobDone, life
  <2>2. ~Calling(p)'
    BY <1>1, <1>4 DEF TakeJob, JobDone, Calling
  <2>3. \A q \in PoolThreads \ {p} : Calling(q)' = Calling(q) /\ Of(q)' = Of(q)
    BY <1>1, <1>2, <1>4 DEF TakeJob, JobDone, Calling, Of
  <2>4. LockOK'
    BY <1>2, <2>1, <2>2, <2>3 DEF LockOK
  <2>5. QED
    BY <1>2, <2>1, <2>4 DEF LifeOK
<1>5. CASE DispatchLock(p)
  <2>1. PICK i \in Instances : i = Of(p)
    BY <1>5, OfType DEF DispatchLock
  <2>2. /\ _adminLock[i] = NoThread /\ _adminLock' = [_adminLock EXCEPT ![i] = p]
        /\ todo' = [todo EXCEPT ![p] = _systemServicesNotification[i]]
        /\ pc' = [pc EXCEPT ![p] = "call"] /\ UNCHANGED <<refs, object, job>>
    BY <1>5, <2>1 DEF DispatchLock, life
  <2>3. ASSUME NEW q \in PoolThreads, Calling(q)'
        PROVE  /\ _adminLock'[Of(q)'] = q
               /\ Range(todo'[q]) \subseteq Range(_systemServicesNotification'[Of(q)'])
    <3>1. Of(q)' = Of(q)
      BY <1>2, <2>2 DEF Of
    <3>2. CASE q = p
      BY <1>1, <1>2, <2>1, <2>2, <3>1, <3>2
    <3>3. CASE q # p
      <4>1. Calling(q) /\ todo'[q] = todo[q]
        BY <1>1, <2>2, <2>3, <3>3 DEF Calling
      <4>2. Of(q) # i
        BY <1>1, <1>3, <2>2, <4>1
      <4>3. QED
        BY <1>1, <1>2, <1>3, <2>2, <3>1, <4>1, <4>2
    <3>4. QED
      BY <3>2, <3>3
  <2>4. QED
    BY <1>2, <2>2, <2>3 DEF LockOK, LifeOK
<1>6. CASE DispatchCall(p) \/ CallbackReturns(p)
  <2>1. UNCHANGED <<refs, object, job, _adminLock>>
    BY <1>6 DEF DispatchCall, CallbackReturns, life
  <2>2. \A q \in PoolThreads : Calling(q)' = Calling(q) /\ Of(q)' = Of(q)
    BY <1>1, <1>2, <1>6, <2>1 DEF DispatchCall, CallbackReturns, Calling, Of
  <2>3. Range(todo'[p]) \subseteq Range(todo[p])
    <3>1. CASE DispatchCall(p)
      BY <3>1 DEF DispatchCall
    <3>2. CASE CallbackReturns(p)
      <4>1. todo[p] \in Seq(Sinks) /\ todo[p] # <<>> /\ todo'[p] = Tail(todo[p])
        BY <1>1, <3>2 DEF CallbackReturns, OnceInv, TodoOK
      <4>2. QED
        BY <4>1, TailFacts
    <3>3. QED
      BY <1>6, <3>1, <3>2
  <2>4. \A q \in PoolThreads \ {p} : todo'[q] = todo[q]
    BY <1>1, <1>6 DEF DispatchCall, CallbackReturns
  <2>5. LockOK'
    BY <1>2, <2>1, <2>2, <2>3, <2>4 DEF LockOK
  <2>6. QED
    BY <1>2, <2>1, <2>5 DEF LifeOK
<1>7. CASE DispatchUnlock(p)
  <2>1. PICK i \in Instances : i = Of(p) /\ _adminLock[i] = p
    BY <1>3, <1>7 DEF DispatchUnlock, Calling
  <2>2. PICK l \in {"destroy", "done"} : pc' = [pc EXCEPT ![p] = l]
    BY <1>7 DEF DispatchUnlock, AfterRelease
  <2>3. /\ _adminLock' = [_adminLock EXCEPT ![i] = NoThread] /\ UNCHANGED <<job, todo>>
        /\ Release(i, 1)
    BY <1>7, <2>1 DEF DispatchUnlock
  <2>4. LifeOK'
    BY <2>3, ReleaseLife
  <2>5. ASSUME NEW q \in PoolThreads, Calling(q)'
        PROVE  /\ _adminLock'[Of(q)'] = q
               /\ Range(todo'[q]) \subseteq Range(_systemServicesNotification'[Of(q)'])
    <3>1. q # p /\ Calling(q) /\ Of(q)' = Of(q)
      BY <1>1, <1>2, <2>2, <2>3, <2>5 DEF Calling, Of
    <3>2. Of(q) # i
      BY <1>3, <2>1, <3>1
    <3>3. QED
      BY <1>1, <1>2, <1>3, <2>3, <3>1, <3>2
  <2>6. QED
    BY <1>2, <2>4, <2>5 DEF LockOK
<1>8. QED
  BY <1>4, <1>5, <1>6, <1>7 DEF PoolStep

LEMMA NextApiInv ==
  ASSUME ApiOnly, IInv, ApiInv, [Next]_vars
  PROVE  ApiInv'
<1> USE DEF IInv
<1>1. CASE Initialize \/ Deinitialize \/ ShellStep
  BY <1>1, ShellApi
<1>2. CASE ApiEvent
  BY <1>2, ApiEventApi
<1>3. CASE BusCheck \/ BusCall \/ \E i \in Instances : PowerEvent(i)
  BY <1>3 DEF ApiOnly, BusCheck, BusCall, PowerEvent, ApiInv
<1>4. CASE \E i \in Instances : DestructorStep(i)
  BY <1>4, DestructorApi
<1>5. CASE \E p \in PoolThreads : PoolStep(p)
  BY <1>5, PoolApi
<1>6. CASE \E c \in Clients : ClientRegisters(c) \/ ClientUnregisters(c)
  BY <1>6, ClientApi
<1>7. CASE UNCHANGED vars
  BY <1>7, LockKept DEF vars, life, pool, jobs, ApiInv, LifeOK
<1>8. QED
  BY <1>1, <1>2, <1>3, <1>4, <1>5, <1>6, <1>7 DEF Next

LEMMA InitApiInv == Init => ApiInv
  BY DEF Init, ApiInv, LifeOK, LockOK, Calling

\* Where events come from calls only, which the shell's references protect, no
\* job outlives the implementation it is to call (Job's AddRef and Release).
THEOREM JobsKeepObject == ASSUME ApiOnly PROVE Spec => []JobsHoldObject
<1>1. IInv /\ ApiInv => JobsHoldObject
  BY PendingLive DEF IInv, ApiInv, JobsHoldObject
<1>2. IInv /\ ApiInv /\ [Next]_vars => ApiInv'
  BY NextApiInv
<1>3. QED
  BY <1>1, <1>2, SpecIInv, InitApiInv, PTL DEF Spec

\* Where events come from calls only, a thread that calls sinks has the lock of
\* the instance, so that no two threads are in callbacks of one instance, and
\* the list it goes through is not changed under it: what it has still to call
\* is still registered (Dispatch, Register and Unregister under _adminLock).
THEOREM IterationUndisturbed == ASSUME ApiOnly PROVE Spec => []LockOK
<1>1. IInv /\ ApiInv /\ [Next]_vars => ApiInv'
  BY NextApiInv
<1>2. ApiInv => LockOK
  BY DEF ApiInv
<1>3. QED
  BY <1>1, <1>2, SpecIInv, InitApiInv, PTL DEF Spec

-----------------------------------------------------------------------------
(* The promise of the notification interface.                              *)

Subscribed == [i \in Instances |-> Range(_systemServicesNotification[i])]

Sent == [i \in Instances |-> {e \in 1 .. Len(submitted) : submitted[e] = i}]

Called == [s \in Sinks |-> Range(received[s])]

LEMMA DeliverySame ==
  ASSUME UNCHANGED <<_systemServicesNotification, submitted, received>>
  PROVE  UNCHANGED <<Subscribed, Sent, Called>>
  BY DEF Subscribed, Sent, Called

LEMMA SendRefines ==
  ASSUME TypeInv, NEW i \in Instances, dispatchEvent(i),
         UNCHANGED <<_systemServicesNotification, received>>
  PROVE  \E e \in Events : Delivery!Send(i, e)
<1>1. PICK n \in Events :
        /\ n \notin DOMAIN submitted /\ DOMAIN submitted' = DOMAIN submitted \union {n}
        /\ submitted' \in Seq(Instances)
        /\ submitted'[n] = i /\ \A e \in DOMAIN submitted : submitted'[e] = submitted[e]
  BY DispatchEventFacts
<1>2. DOMAIN submitted = 1 .. Len(submitted) /\ DOMAIN submitted' = 1 .. Len(submitted')
  BY <1>1, SubmittedFacts, LenProperties
<1>3. \A j \in Instances : n \notin Sent[j]
  BY <1>1, <1>2 DEF Sent
<1>4. Sent' = [Sent EXCEPT ![i] = Sent[i] \union {n}]
  <2>1. ASSUME NEW j \in Instances
        PROVE  {e \in 1 .. Len(submitted') : submitted'[e] = j} =
                 IF j = i THEN Sent[i] \union {n} ELSE Sent[j]
    BY <1>1, <1>2 DEF Sent
  <2>2. QED
    BY <2>1 DEF Sent
<1>5. UNCHANGED <<Subscribed, Called>>
  BY DEF Subscribed, Called
<1>6. QED
  BY <1>3, <1>4, <1>5 DEF Delivery!Send, Subscribed, Sent, Called

LEMMA RegisterRefines ==
  ASSUME TypeInv, NEW i \in Instances, NEW s \in Sinks, Register(i, s),
         UNCHANGED <<submitted, received>>
  PROVE  Delivery!Subscribe(i, s) \/ UNCHANGED Delivery!deliveryVars
<1>1. CASE Registered(i, s)
  BY <1>1, DeliverySame DEF Register, Delivery!deliveryVars, Subscribed, Sent, Called
<1>2. CASE ~Registered(i, s)
  <2>1. PICK l \in Seq(Sinks) :
          /\ _systemServicesNotification' = [_systemServicesNotification EXCEPT ![i] = l]
          /\ Range(l) = Range(_systemServicesNotification[i]) \union {s}
    BY RegisterFacts
  <2>2. Subscribed' = [Subscribed EXCEPT ![i] = Subscribed[i] \union {s}]
    BY <2>1 DEF Subscribed, TypeInv, ListType
  <2>3. s \notin Subscribed[i]
    BY <1>2 DEF Registered, Subscribed
  <2>4. UNCHANGED <<Sent, Called>>
    BY DEF Sent, Called
  <2>5. QED
    BY <2>2, <2>3, <2>4 DEF Delivery!Subscribe, Subscribed, Sent, Called
<1>3. QED
  BY <1>1, <1>2

LEMMA UnregisterRefines ==
  ASSUME TypeInv, NEW i \in Instances, NEW s \in Sinks, Unregister(i, s),
         UNCHANGED <<submitted, received>>
  PROVE  Delivery!Unsubscribe(i, s) \/ UNCHANGED Delivery!deliveryVars
<1>1. PICK l \in Seq(Sinks) :
        /\ _systemServicesNotification' = [_systemServicesNotification EXCEPT ![i] = l]
        /\ Range(l) = Range(_systemServicesNotification[i]) \ {s}
  BY UnregisterFacts
<1>2. Subscribed' = [Subscribed EXCEPT ![i] = Subscribed[i] \ {s}]
  BY <1>1 DEF Subscribed, TypeInv, ListType
<1>3. UNCHANGED <<Sent, Called>>
  BY DEF Sent, Called
<1>4. CASE s \in Subscribed[i]
  BY <1>2, <1>3, <1>4 DEF Delivery!Unsubscribe, Subscribed, Sent, Called
<1>5. CASE s \notin Subscribed[i]
  <2>1. Subscribed' = Subscribed
    <3>1. Subscribed[i] \ {s} = Subscribed[i] /\ Subscribed = [x \in Instances |-> Subscribed[x]]
      BY <1>5 DEF Subscribed
    <3> HIDE DEF Subscribed
    <3>2. QED
      BY <1>2, <3>1
  <2>2. QED
    BY <1>3, <2>1 DEF Delivery!deliveryVars, Subscribed, Sent, Called
<1>6. QED
  BY <1>4, <1>5

LEMMA WithdrawRefines ==
  ASSUME TypeInv, NEW i \in Instances, ForgetInstance(i)
  PROVE  Delivery!Withdraw(i)
<1>1. Subscribed' = [Subscribed EXCEPT ![i] = {}]
  <2>1. Range(<<>>) = {}
    BY DEF Range
  <2>2. QED
    BY <2>1 DEF ForgetInstance, Subscribed, TypeInv, ListType
<1>2. UNCHANGED <<Sent, Called>>
  BY DEF ForgetInstance, jobs, Sent, Called
<1>3. QED
  BY <1>1, <1>2 DEF Delivery!Withdraw, Subscribed, Sent, Called

LEMMA DeliverRefines ==
  ASSUME TypeInv, OnceInv, ApiInv, NEW p \in PoolThreads, DispatchCall(p)
  PROVE  \E i \in Instances, s \in Sinks, e \in Events : Delivery!Deliver(i, s, e)
<1>1. PICK s \in Sinks, e \in Events :
        /\ s = Head(todo[p]) /\ e = job[p] /\ e \in DOMAIN submitted
        /\ s \in Range(todo[p])
        /\ e \notin Range(received[s])
        /\ Range(received'[s]) = Range(received[s]) \union {e}
        /\ \A t \in Sinks \ {s} : received'[t] = received[t]
  BY DispatchCallFacts
<1>2. Calling(p)
  BY DEF DispatchCall, Calling
<1>3. PICK i \in Instances : i = Of(p)
  BY <1>2, CallingFacts DEF ApiInv
<1>4. s \in Subscribed[i]
  BY <1>1, <1>2, <1>3 DEF ApiInv, LockOK, Subscribed
<1>5. e \in Sent[i] \ Called[s]
  BY <1>1, <1>3, SubmittedFacts DEF Of, Sent, Called
<1>6. Called' = [Called EXCEPT ![s] = Called[s] \union {e}]
  BY <1>1 DEF Called
<1>7. UNCHANGED <<Subscribed, Sent>>
  BY DEF DispatchCall, jobs, Subscribed, Sent
<1>8. Delivery!Deliver(i, s, e)
  BY <1>4, <1>5, <1>6, <1>7 DEF Delivery!Deliver, Subscribed, Sent, Called
<1>9. QED
  BY <1>8

LEMMA NextDelivery ==
  ASSUME IInv, ApiInv, [Next]_vars
  PROVE  [Delivery!DeliveryNext]_(Delivery!deliveryVars)
<1> USE DEF IInv
<1>1. CASE Initialize \/ Configure \/ ShellReleases \/ Deinitialized \/ BusCheck
  BY <1>1, DeliverySame
     DEF Initialize, Configure, ShellReleases, Deinitialized, BusCheck, jobs,
         Delivery!deliveryVars, Subscribed, Sent, Called
<1>2. CASE ApiEvent \/ BusCall \/ \E i \in Instances : PowerEvent(i)
  <2>1. PICK i \in Instances :
          dispatchEvent(i) /\ UNCHANGED <<_systemServicesNotification, received>>
    <3>1. ASSUME ApiEvent PROVE _systemServices \in Instances
      BY <3>1, HoldsFacts DEF ApiEvent, Holds
    <3>2. ASSUME BusCall PROVE _instance \in Instances
      BY <3>2 DEF BusCall, TypeInv, LifeType
    <3>3. QED
      BY <1>2, <3>1, <3>2 DEF ApiEvent, BusCall, PowerEvent
  <2>2. QED
    BY <2>1, SendRefines DEF Delivery!DeliveryNext
<1>3. CASE \/ ShellRegisters \/ Deinitialize
           \/ \E c \in Clients : ClientRegisters(c) \/ ClientUnregisters(c)
  <2>1. PICK s \in Sinks :
          /\ Register(_systemServices, s) \/ Unregister(_systemServices, s)
          /\ UNCHANGED <<submitted, received>> /\ Holds
    BY <1>3 DEF ShellRegisters, Deinitialize, ClientRegisters, ClientUnregisters, Sinks, Holds, jobs
  <2>2. _systemServices \in Instances
    BY <2>1, HoldsFacts
  <2>3. QED
    BY <2>1, <2>2, RegisterRefines, UnregisterRefines DEF Delivery!DeliveryNext
<1>4. CASE \E i \in Instances : DestructorStep(i)
  <2>1. PICK i \in Instances : DestructorStep(i)
    BY <1>4
  <2>2. CASE ForgetInstance(i)
    BY <2>2, WithdrawRefines DEF Delivery!DeliveryNext
  <2>3. CASE LeavePowerManager(i) \/ LeaveIARM(i)
    BY <2>3, DeliverySame
       DEF LeavePowerManager, LeaveIARM, jobs, Delivery!deliveryVars, Subscribed, Sent, Called
  <2>4. QED
    BY <2>1, <2>2, <2>3 DEF DestructorStep
<1>5. CASE \E p \in PoolThreads : PoolStep(p)
  <2>1. PICK p \in PoolThreads : PoolStep(p)
    BY <1>5
  <2>2. CASE DispatchCall(p)
    BY <2>2, DeliverRefines DEF Delivery!DeliveryNext
  <2>3. CASE \/ TakeJob(p) \/ DispatchLock(p) \/ CallbackReturns(p)
             \/ DispatchUnlock(p) \/ JobDone(p)
    BY <2>3, DeliverySame
       DEF TakeJob, DispatchLock, CallbackReturns, DispatchUnlock, JobDone, jobs,
           Delivery!deliveryVars, Subscribed, Sent, Called
  <2>4. QED
    BY <2>1, <2>2, <2>3 DEF PoolStep
<1>6. CASE UNCHANGED vars
  BY <1>6, DeliverySame DEF vars, jobs, Delivery!deliveryVars, Subscribed, Sent, Called
<1>7. QED
  BY <1>1, <1>2, <1>3, <1>4, <1>5, <1>6 DEF Next, ShellStep

LEMMA InitDelivery == Init => Delivery!DeliveryInit
<1> SUFFICES ASSUME Init PROVE Delivery!DeliveryInit
  OBVIOUS
<1>1. Range(<<>>) = {} /\ Len(<<>>) = 0
  BY EmptySeq DEF Range
<1>2. Subscribed = [i \in Instances |-> {}] /\ Called = [s \in Sinks |-> {}]
  BY <1>1 DEF Init, Subscribed, Called
<1>3. Sent = [i \in Instances |-> {}]
  BY <1>1 DEF Init, Sent
<1>4. QED
  BY <1>2, <1>3 DEF Delivery!DeliveryInit, Subscribed, Sent, Called

\* Where events come from calls only, the implementation keeps the promise of
\* EventDelivery: every call is for an event that happened, to a sink that is
\* registered with the instance it happened in, and the first for it.
THEOREM DispatchImplementsDelivery == ASSUME ApiOnly PROVE Spec => ImplementsDelivery
<1>1. IInv /\ ApiInv /\ [Next]_vars => ApiInv'
  BY NextApiInv
<1>2. IInv /\ ApiInv /\ [Next]_vars => [Delivery!DeliveryNext]_(Delivery!deliveryVars)
  BY NextDelivery
<1>3. QED
  BY <1>1, <1>2, SpecIInv, InitApiInv, InitDelivery, PTL
  DEF Spec, ImplementsDelivery, Delivery!DeliverySpec
=============================================================================
