---------------------- MODULE ScenarioProofs ----------------------
(* Proofs about ScenarioConversation and CandidateDiscovery: the           *)
(* conversation that settles the scenario, and the discovery of the        *)
(* candidates it asks for.                                                 *)
EXTENDS ScenarioConversation, CandidateDiscovery, SequenceTheorems,
        FiniteSetTheorems, WellFoundedInduction, TLAPS

-----------------------------------------------------------------------------
(* Induction over numbers, finite sets and folds, in a form the provers    *)
(* can use: what is proved by induction is a set instead of an operator.   *)
(* It all rests on one fact of the library: strict inclusion of finite     *)
(* sets is well-founded.                                                   *)

(* A set of naturals that is not empty has a least element.                *)
LEMMA LeastNatural ==
    ASSUME NEW S \in SUBSET Nat, S # {}
    PROVE  \E n \in S : \A m \in S : n <= m
<1> DEFINE T == {0 .. n : n \in S}
<1>1. T \subseteq FiniteSubsetsOf(Nat)
  <2>1. \A n \in S : 0 .. n \in SUBSET Nat /\ IsFiniteSet(0 .. n)
      BY FS_Interval
  <2> QED BY <2>1 DEF FiniteSubsetsOf
<1>2. PICK t \in T : \A u \in T : ~ (<<u, t>> \in StrictSubsetOrdering(Nat))
  <2>1. T # {}
      OBVIOUS
  <2>2. IsWellFoundedOn(StrictSubsetOrdering(Nat), FiniteSubsetsOf(Nat))
      BY FS_StrictSubsetOrderingWellFounded
  <2> HIDE DEF T
  <2> QED BY <1>1, <2>1, <2>2, WFMin
<1>3. PICK n \in S : t = 0 .. n
    BY <1>2
<1>4. ASSUME NEW m \in S, m < n PROVE FALSE
  <2>1. /\ 0 .. m \in T /\ 0 .. m \subseteq 0 .. n
        /\ n \in 0 .. n /\ n \notin 0 .. m
      BY <1>4
  <2>2. <<0 .. m, t>> \in StrictSubsetOrdering(Nat)
      BY <2>1, <1>3 DEF StrictSubsetOrdering
  <2> QED BY <2>1, <2>2, <1>2
<1> QED BY <1>4

(* What holds of zero and of the successor holds of every natural.         *)
LEMMA Induction ==
    ASSUME NEW S, 0 \in S, \A k \in Nat : k \in S => k + 1 \in S
    PROVE  \A k \in Nat : k \in S
<1> SUFFICES ASSUME Nat \ S # {} PROVE FALSE
    OBVIOUS
<1>1. PICK n \in Nat \ S : \A m \in Nat \ S : n <= m
  <2>1. Nat \ S \in SUBSET Nat
      OBVIOUS
  <2> QED BY <2>1, LeastNatural
<1>2. n - 1 \in Nat /\ n - 1 \in S
    BY <1>1
<1> QED BY <1>1, <1>2

(* The same up to a bound.                                                 *)
LEMMA InductionUpTo ==
    ASSUME NEW n \in Nat, NEW S, 0 \in S,
           \A k \in 0 .. n - 1 : k \in S => k + 1 \in S
    PROVE  \A k \in 0 .. n : k \in S
<1> DEFINE T == S \cup {k \in Nat : k > n}
<1>1. 0 \in T /\ \A k \in Nat : k \in T => k + 1 \in T
    OBVIOUS
<1>2. \A k \in Nat : k \in T
  <2> HIDE DEF T
  <2> QED BY <1>1, Induction
<1> QED BY <1>2

(* A finite set of integers that is not empty has a largest element.       *)
LEMMA MaxOfInterval ==
    ASSUME NEW n \in Nat, NEW S \in SUBSET (1 .. n), S # {}
    PROVE  Max(S) \in S /\ \A x \in S : x <= Max(S)
<1> DEFINE T == {n - x : x \in S}
<1>1. PICK m \in T : \A k \in T : m <= k
  <2>1. \A x \in S : n - x \in Nat
      OBVIOUS
  <2>2. T \in SUBSET Nat
      BY <2>1
  <2>3. T # {}
    <3>1. PICK x \in S : TRUE
        OBVIOUS
    <3>2. n - x \in T
        BY <3>1
    <3> QED BY <3>2
  <2> HIDE DEF T
  <2> QED BY <2>2, <2>3, LeastNatural
<1>2. PICK x \in S : m = n - x
    BY <1>1
<1>3. ASSUME NEW y \in S PROVE x >= y
  <2>1. n - y \in T
      OBVIOUS
  <2>2. m <= n - y
      BY <1>1, <2>1
  <2>3. x \in 1 .. n /\ y \in 1 .. n
      OBVIOUS
  <2> HIDE DEF T
  <2> QED BY <1>2, <2>2, <2>3
<1> QED BY <1>3 DEF Max

LEMMA MaxOfPrefix ==
    ASSUME NEW n \in Nat, NEW k \in 1 .. n
    PROVE  /\ 1 .. k \in SUBSET (1 .. n) /\ 1 .. k # {}
           /\ Max(1 .. k) = k /\ (1 .. k) \ {k} = 1 .. k - 1
<1>1. 1 .. k \in SUBSET (1 .. n) /\ k \in 1 .. k
    OBVIOUS
<1>2. Max(1 .. k) \in 1 .. k /\ \A x \in 1 .. k : x <= Max(1 .. k)
    BY <1>1, MaxOfInterval
<1> QED BY <1>1, <1>2

-----------------------------------------------------------------------------
(* Folds over the elements of a finite set, one picked after the other.    *)

IsPick(pick, S) ==
    \A s \in SUBSET S : s # {} => pick[s] \in s

IsFold(it, S, b, pick, step) ==
    \A s \in SUBSET S :
        it[s] = IF s = {} THEN b ELSE step[<<pick[s], it[s \ {pick[s]}]>>]

UpToSize(S, k) == {s \in SUBSET S : Cardinality(s) <= k}

(* Taking out an element makes a finite set smaller.                       *)
LEMMA Smaller ==
    ASSUME NEW S, IsFiniteSet(S), NEW k \in Nat, NEW s \in UpToSize(S, k + 1),
           NEW x \in s
    PROVE  s \ {x} \in UpToSize(S, k)
<1>1. IsFiniteSet(s) /\ Cardinality(s) \in Nat
    BY FS_Subset, FS_CardinalityType DEF UpToSize
<1>2. Cardinality(s \ {x}) = Cardinality(s) - 1
    BY <1>1, FS_RemoveElement
<1> QED BY <1>1, <1>2 DEF UpToSize

LEMMA SizeZero ==
    ASSUME NEW S, IsFiniteSet(S) PROVE UpToSize(S, 0) = {{}}
<1>1. ASSUME NEW s \in UpToSize(S, 0) PROVE s = {}
  <2>1. IsFiniteSet(s) /\ Cardinality(s) \in Nat /\ Cardinality(s) <= 0
      BY FS_Subset, FS_CardinalityType DEF UpToSize
  <2> QED BY <2>1, FS_EmptySet
<1>2. {} \in UpToSize(S, 0)
    BY FS_EmptySet DEF UpToSize
<1> QED BY <1>1, <1>2

LEMMA AllSizes ==
    ASSUME NEW S, IsFiniteSet(S)
    PROVE  Cardinality(S) \in Nat /\ UpToSize(S, Cardinality(S)) = SUBSET S
  BY FS_Subset, FS_CardinalityType DEF UpToSize

(* What holds of the empty set, and of a set if it holds without its       *)
(* picked element, holds of every subset.                                  *)
LEMMA SubsetInduction ==
    ASSUME NEW S, IsFiniteSet(S), NEW pick, IsPick(pick, S), NEW G, {} \in G,
           \A s \in SUBSET S : s # {} /\ s \ {pick[s]} \in G => s \in G
    PROVE  \A s \in SUBSET S : s \in G
<1> DEFINE K == {k \in Nat : \A s \in UpToSize(S, k) : s \in G}
<1>1. 0 \in K
    BY SizeZero
<1>2. ASSUME NEW k \in Nat, k \in K PROVE k + 1 \in K
  <2> SUFFICES ASSUME NEW s \in UpToSize(S, k + 1), s # {} PROVE s \in G
      OBVIOUS
  <2>1. s \in SUBSET S /\ pick[s] \in s
      BY DEF UpToSize, IsPick
  <2>2. s \ {pick[s]} \in G
      BY <1>2, <2>1, Smaller
  <2> QED BY <2>1, <2>2
<1>3. Cardinality(S) \in K
  <2> HIDE DEF K
  <2> QED BY <1>1, <1>2, AllSizes, Induction
<1> QED BY <1>3, AllSizes

(* A recursive definition over subsets does define a function.             *)
LEMMA FoldExists ==
    ASSUME NEW S, IsFiniteSet(S), NEW D, NEW b \in D, NEW pick,
           IsPick(pick, S), NEW step \in [S \X D -> D]
    PROVE  \E it \in [SUBSET S -> D] : IsFold(it, S, b, pick, step)
<1> DEFINE Good(f, k) ==
               \A s \in UpToSize(S, k) :
                   f[s] = IF s = {} THEN b
                          ELSE step[<<pick[s], f[s \ {pick[s]}]>>]
           K == {k \in Nat : \E f \in [UpToSize(S, k) -> D] : Good(f, k)}
<1>1. 0 \in K
  <2> DEFINE f == [s \in {{}} |-> b]
  <2>1. f \in [UpToSize(S, 0) -> D] /\ Good(f, 0)
      BY SizeZero
  <2> QED BY <2>1
<1>2. ASSUME NEW k \in Nat, k \in K PROVE k + 1 \in K
  <2>1. PICK f \in [UpToSize(S, k) -> D] : Good(f, k)
      BY <1>2
  <2> DEFINE g == [s \in UpToSize(S, k + 1) |->
                      IF s = {} THEN b
                      ELSE step[<<pick[s], f[s \ {pick[s]}]>>]]
  <2>2. ASSUME NEW s \in UpToSize(S, k + 1), s # {}
        PROVE  /\ pick[s] \in S
               /\ s \ {pick[s]} \in UpToSize(S, k)
               /\ s \ {pick[s]} \in UpToSize(S, k + 1)
    <3>1. s \in SUBSET S /\ pick[s] \in s
        BY <2>2 DEF UpToSize, IsPick
    <3>2. s \ {pick[s]} \in UpToSize(S, k)
        BY <3>1, Smaller
    <3>3. /\ s \ {pick[s]} \in SUBSET S
          /\ Cardinality(s \ {pick[s]}) \in Nat
          /\ Cardinality(s \ {pick[s]}) <= k
        BY <3>1, <3>2, FS_Subset, FS_CardinalityType DEF UpToSize
    <3> QED BY <3>1, <3>2, <3>3 DEF UpToSize
  <2>3. g \in [UpToSize(S, k + 1) -> D]
    <3>1. ASSUME NEW s \in UpToSize(S, k + 1), s # {}
          PROVE  step[<<pick[s], f[s \ {pick[s]}]>>] \in D
      <4>1. <<pick[s], f[s \ {pick[s]}]>> \in S \X D
          BY <2>1, <2>2, <3>1
      <4> QED BY <4>1
    <3> QED BY <3>1
  <2>4. ASSUME NEW s \in UpToSize(S, k), s \in UpToSize(S, k + 1)
        PROVE  g[s] = f[s]
      BY <2>1, <2>4
  <2>5. Good(g, k + 1)
    <3> SUFFICES ASSUME NEW s \in UpToSize(S, k + 1), s # {}
                 PROVE  g[s] = step[<<pick[s], g[s \ {pick[s]}]>>]
        OBVIOUS
    <3>1. g[s \ {pick[s]}] = f[s \ {pick[s]}]
        BY <2>2, <2>4
    <3> QED BY <3>1
  <2>6. k + 1 \in Nat
      OBVIOUS
  <2> HIDE DEF g, Good
  <2> QED BY <2>3, <2>5, <2>6
<1>3. Cardinality(S) \in K
  <2> HIDE DEF K
  <2> QED BY <1>1, <1>2, AllSizes, Induction
<1>4. PICK f \in [UpToSize(S, Cardinality(S)) -> D] : Good(f, Cardinality(S))
    BY <1>3
<1> QED BY <1>4, AllSizes DEF IsFold

-----------------------------------------------------------------------------
(* Types.                                                                  *)

WordsSaid == UNION {{m[i].value : i \in DOMAIN m} : m \in Messages}
TopicsSaid == UNION {{m[i].key : i \in DOMAIN m} : m \in Messages}
Words == WordsSaid \cup {None} \cup Nat \cup {Padded[t] : t \in DOMAIN Padded}
Topics == TopicsSaid \cup Fields
Sentences == Messages \cup {<<>>}
Modes == MemoryModes \cup {"disabled"}

PreferenceType == [radius : Words, count : Words]
ValuesType ==
    [project : Words, region : Words, radius : Words, count : Words]
RecordType == [key : Topics, value : Words]
DraftType == [values : ValuesType, recorded : SUBSET RecordType]
VersionType ==
    [id : Nat, number : Nat, parent : Nat,
     status : {"proposed", "confirmed", "superseded"},
     values : ValuesType, said : Sentences, recorded : SUBSET RecordType,
     resolved : BOOLEAN, conflicts : SUBSET Topics, unclear : BOOLEAN]
SessionType ==
    [state : {"absent", "open"}, versions : Seq(VersionType), active : Nat,
     pending : Nat, actor : BOOLEAN, mode : Modes, revision : Nat]
OpType ==
    [kind : {"idle", "turn", "recalled", "confirm"}, copy : SessionType,
     message : Sentences, mode : Modes, recalled : PreferenceType, remember : BOOLEAN]

TalkTypes ==
    /\ store \in SessionType
    /\ op \in [Clients -> OpType]
    /\ memory \in [Projects -> PreferenceType]
    /\ issued \in Nat
    /\ requests \in Nat
    /\ created \in BOOLEAN

-----------------------------------------------------------------------------
(* What a session holds, stored or in a request's hands: Sound.            *)

(* Numbers count up, identifiers are distinct and were handed out.         *)
Numbered(versions) ==
    \A i \in DOMAIN versions : versions[i].number = i
Distinct(versions) ==
    \A i, j \in DOMAIN versions :
        versions[i].id = versions[j].id => i = j
HandedOut(versions, n) ==
    \A i \in DOMAIN versions : versions[i].id \in 1 .. n

(* A status is what the session's two pointers say, and the pending one    *)
(* points to a version.                                                    *)
Pointed(session) ==
    /\ \A i \in DOMAIN session.versions :
        /\ session.versions[i].status = "confirmed"
              <=> session.versions[i].id = session.active
        /\ session.versions[i].status = "proposed"
              <=> session.versions[i].id = session.pending
    /\ session.pending # NoId =>
        \E i \in DOMAIN session.versions :
            session.versions[i].id = session.pending

Descends(versions) ==
    \A i \in DOMAIN versions : versions[i].parent # NoId =>
        \E j \in DOMAIN versions : j < i /\ versions[j].id = versions[i].parent

(* A version holds values the executors accept, knows what is unclear, and *)
(* has a search window for its region or a conflict.                       *)
IsAccepted(v) ==
    /\ ValidProject(v.values) /\ ValidRadius(v.values)
    /\ ValidCount(v.values) /\ v.values = Cast(v.values)
    /\ v.unclear <=> Clarify(v.values)
    /\ v.conflicts = {} /\ v.values.region # None => v.resolved
    /\ v.status = "confirmed" => Ready(v)

(* What is recorded is executed, once it is converted.                     *)
IsExecuted(d) ==
    \A r \in d.recorded : Executable(r.key) =>
        Converted(r.key, d.values[r.key]) = Converted(r.key, r.value)
ExecutesClear(versions) ==
    \A i \in DOMAIN versions :
        (\A j \in 1 .. i : versions[j].conflicts = {})
            => IsExecuted(versions[i])

Sound(session, n) ==
    /\ Numbered(session.versions) /\ Distinct(session.versions)
    /\ session.active \in 0 .. n
    /\ HandedOut(session.versions, n) /\ Pointed(session)
    /\ Descends(session.versions) /\ ExecutesClear(session.versions)
    /\ \A i \in DOMAIN session.versions : IsAccepted(session.versions[i])

(* A confirmation at work has a pending version that may be confirmed.     *)
Confirming(task) ==
    task.kind = "confirm" =>
        /\ task.copy.pending # NoId
        /\ \E i \in DOMAIN task.copy.versions :
            /\ task.copy.versions[i].id = task.copy.pending
            /\ Ready(task.copy.versions[i])

(* A copy that is not stale names the active version of the store, unless  *)
(* the store has expired since.                                            *)
Current(task, stored) ==
    task.kind # "idle" =>
        /\ task.copy.revision <= stored.revision
        /\ task.copy.revision = stored.revision
              => stored.active \in {task.copy.active, NoId}

AtWork(task, stored, n) ==
    Sound(task.copy, n) /\ Confirming(task) /\ Current(task, stored)

SessionsHold ==
    /\ Sound(store, issued)
    /\ store.revision = 0 => store.active = NoId
    /\ \A c \in Clients : AtWork(op[c], store, issued)
TalkInv == TalkTypes /\ SessionsHold

-----------------------------------------------------------------------------
(* What a message makes of a draft.                                        *)

LEMMA SentenceIsSequence ==
    \A m \in Sentences : Len(m) \in Nat /\ DOMAIN m = 1 .. Len(m)
  BY MessagesAssumption DEF Sentences

(* A set of drafts that contains the first one and is closed under the     *)
(* actions of a message contains what the message makes of it.             *)
LEMMA AppliedIsIn ==
    ASSUME NEW base, NEW preference, NEW m \in Sentences, NEW D,
           Draft(base, preference) \in D,
           \A d \in D : \A i \in DOMAIN m :
              Taken(d, m[i], Defaults(IF base = <<>> THEN preference
                                          ELSE NoPreference)) \in D
    PROVE  Applied(base, preference, m) \in D
<1> DEFINE n == Len(m)
           S == 1 .. n
           first == Draft(base, preference)
           defaults == Defaults(IF base = <<>> THEN preference
                                            ELSE NoPreference)
           pick == [s \in SUBSET S |-> Max(s)]
           step == [p \in S \X D |-> Taken(p[2], m[p[1]], defaults)]
           Body(it) == [s \in SUBSET S |->
                          IF s = {} THEN first
                          ELSE Taken(it[s \ {Max(s)}], m[Max(s)], defaults)]
           iter == CHOOSE it : it = Body(it)
<1>1. n \in Nat /\ DOMAIN m = S
    BY SentenceIsSequence
<1>2. IsFiniteSet(S)
    BY <1>1, FS_Interval
<1>3. IsPick(pick, S)
  <2>1. \A s \in SUBSET S : s # {} => Max(s) \in s
      BY <1>1, MaxOfInterval
  <2> QED BY <2>1 DEF IsPick
<1>4. step \in [S \X D -> D]
    BY <1>1
<1>5. PICK it \in [SUBSET S -> D] : IsFold(it, S, first, pick, step)
  <2>1. first \in D
      OBVIOUS
  <2> HIDE DEF S, first, pick, step
  <2> QED BY <1>2, <1>3, <1>4, <2>1, FoldExists
<1>6. ASSUME NEW s \in SUBSET S, s # {}
      PROVE  it[s] = Taken(it[s \ {Max(s)}], m[Max(s)], defaults)
  <2>1. pick[s] = Max(s) /\ Max(s) \in S
      BY <1>3, <1>6 DEF IsPick
  <2>2. it[s \ {Max(s)}] \in D
      BY <1>5
  <2>3. it[s] = step[<<Max(s), it[s \ {Max(s)}]>>]
      BY <1>5, <1>6, <2>1 DEF IsFold
  <2> QED BY <2>1, <2>2, <2>3
<1>7. it[{}] = first
    BY <1>5 DEF IsFold
<1>8. it = Body(it)
    BY <1>5, <1>6, <1>7
<1>9. iter = Body(iter)
  <2> HIDE DEF Body
  <2> QED BY <1>8
<1>10. Applied(base, preference, m) = iter[S]
    BY <1>1, Zenon DEF Applied, FoldLeft, MapThenFoldSet
<1> DEFINE G == {t \in SUBSET S : iter[t] \in D}
<1>11. \A s \in SUBSET S : s \in G
  <2>1. {} \in G
      BY <1>9
  <2>2. ASSUME NEW s \in SUBSET S, s # {}, s \ {pick[s]} \in G
        PROVE  s \in G
    <3>1. pick[s] = Max(s) /\ Max(s) \in S
        BY <1>3, <2>2 DEF IsPick
    <3>2. iter[s] = Taken(iter[s \ {Max(s)}], m[Max(s)], defaults)
        BY <1>9, <2>2
    <3>3. iter[s \ {Max(s)}] \in D
        BY <2>2, <3>1
    <3>4. iter[s] \in D
        BY <1>1, <3>1, <3>2, <3>3
    <3> QED BY <3>4
  <2> HIDE DEF G, pick, S
  <2> QED BY <1>2, <1>3, <2>1, <2>2, SubsetInduction
<1> QED BY <1>1, <1>10, <1>11

LEMMA ConstantsTyped ==
    /\ DefaultRadius \in Nat /\ MinRadius \in Nat /\ MaxRadius \in Nat
    /\ DefaultCount \in Nat /\ MinCount \in Nat /\ MaxCount \in Nat
    /\ DefaultRadius \in MinRadius .. MaxRadius
    /\ DefaultCount \in MinCount .. MaxCount
    /\ Truncated(DefaultCount) = DefaultCount
    /\ NoPreference \in PreferenceType
<1>1. 0 \in Words
    BY DEF Words
<1> QED BY <1>1, ConversationConstants
        DEF Truncated, NoPreference, PreferenceType

(* Half a candidate is dropped once, and blanks are stripped once.         *)
LEMMA ConvertedIs ==
    ASSUME NEW key, NEW value \in Words
    PROVE  /\ Converted(key, value) \in Words
           /\ Converted(key, Converted(key, value)) = Converted(key, value)
<1>1. CASE key = "count" /\ value \in Nat
  <2>1. /\ Truncated(value) \in Nat
        /\ Truncated(Truncated(value)) = Truncated(value)
      BY <1>1 DEF Truncated
  <2> QED BY <1>1, <2>1 DEF Converted, Words
<1>2. CASE key = "region" /\ value \in DOMAIN Padded
  <2>1. Padded[value] \in Words /\ Padded[value] \notin DOMAIN Padded
      BY <1>2, PaddedAssumption DEF Words
  <2> QED BY <1>2, <2>1 DEF Converted
<1>3. CASE ~(key = "count" /\ value \in Nat)
           /\ ~(key = "region" /\ value \in DOMAIN Padded)
    BY <1>3 DEF Converted
<1> QED BY <1>1, <1>2, <1>3

(* What is cast, field by field.                                           *)
LEMMA CastIs ==
    ASSUME NEW values \in ValuesType
    PROVE  /\ Cast(values) \in ValuesType
           /\ \A key \in Fields :
                Cast(values)[key] = Converted(key, values[key])
           /\ Cast(values) =
                [project |-> values.project, radius |-> values.radius,
                 region |-> Converted("region", values.region),
                 count |-> Converted("count", values.count)]
<1>1. Converted("region", values.region) \in Words
    BY ConvertedIs DEF ValuesType
<1>2. Converted("count", values.count) \in Words
    BY ConvertedIs DEF ValuesType
<1>3. Cast(values) =
         [project |-> values.project, radius |-> values.radius,
          region |-> Converted("region", values.region),
          count |-> Converted("count", values.count)]
  <2> DEFINE region == Converted("region", values.region)
             count == Converted("count", values.count)
  <2>1. Cast(values) = [values EXCEPT !.region = region, !.count = count]
      BY DEF Cast
  <2> HIDE DEF region, count
  <2>2. [values EXCEPT !.region = region, !.count = count] =
           [project |-> values.project, region |-> region,
            radius |-> values.radius, count |-> count]
    <3> DEFINE once == [values EXCEPT !.region = region]
    <3>1. once = [project |-> values.project, region |-> region,
                  radius |-> values.radius, count |-> values.count]
        BY DEF ValuesType
    <3> HIDE DEF once
    <3>2. [once EXCEPT !.count = count] =
             [project |-> values.project, region |-> region,
              radius |-> values.radius, count |-> count]
        BY <3>1
    <3> QED BY <3>2 DEF once
  <2> QED BY <2>1, <2>2 DEF region, count
<1>4. Cast(values) \in ValuesType
    BY <1>1, <1>2, <1>3 DEF ValuesType
<1>5. ASSUME NEW key \in Fields
      PROVE  Cast(values)[key] = Converted(key, values[key])
  <2>1. CASE key = "project"
      BY <1>3, <2>1 DEF Converted
  <2>2. CASE key = "radius"
      BY <1>3, <2>2 DEF Converted
  <2>3. CASE key = "region"
      BY <1>3, <2>3
  <2>4. CASE key = "count"
      BY <1>3, <2>4
  <2> QED BY <2>1, <2>2, <2>3, <2>4 DEF Fields
<1> QED BY <1>3, <1>4, <1>5

Bases == {<<>>} \cup {<<v>> : v \in VersionType}

LEMMA DefaultsTyped ==
    ASSUME NEW preference \in PreferenceType
    PROVE  /\ Defaults(preference) \in ValuesType
           /\ preference # NoPreference =>
                /\ Defaults(preference).radius = preference.radius
                /\ Defaults(preference).count = preference.count
<1>1. /\ None \in Words /\ DefaultRadius \in Words /\ DefaultCount \in Words
      /\ preference.radius \in Words /\ preference.count \in Words
    BY ConstantsTyped DEF Words, PreferenceType
<1> DEFINE radius == IF preference = NoPreference THEN DefaultRadius
                     ELSE preference.radius
           count == IF preference = NoPreference THEN DefaultCount
                    ELSE preference.count
<1>2. Defaults(preference) = [project |-> None, region |-> None,
                              radius |-> radius, count |-> count]
    BY DEF Defaults, Unset, None
<1> QED BY <1>1, <1>2 DEF ValuesType

LEMMA DraftTyped ==
    ASSUME NEW base \in Bases, NEW preference \in PreferenceType
    PROVE  Draft(base, preference) \in DraftType
<1>1. CASE base = <<>>
  <2>1. /\ [key |-> "radius", value |-> preference.radius] \in RecordType
        /\ [key |-> "count", value |-> preference.count] \in RecordType
      BY DEF RecordType, Topics, Fields, PreferenceType
  <2> QED BY <1>1, <2>1, DefaultsTyped DEF Draft, DraftType
<1>2. CASE base # <<>>
  <2>1. base[1] \in VersionType
      BY <1>2 DEF Bases
  <2> QED BY <1>2, <2>1 DEF Draft, DraftType, VersionType
<1> QED BY <1>1, <1>2

LEMMA SaidTyped ==
    ASSUME NEW m \in Sentences, NEW i \in DOMAIN m
    PROVE  m[i].key \in Topics /\ m[i].value \in Words
<1>1. CASE m \in Messages
  <2>1. {m[j].key : j \in DOMAIN m} \subseteq TopicsSaid
      BY <1>1, Zenon DEF TopicsSaid
  <2>2. {m[j].value : j \in DOMAIN m} \subseteq WordsSaid
      BY <1>1, Zenon DEF WordsSaid
  <2> QED BY <2>1, <2>2 DEF Topics, Words
<1>2. CASE m = <<>>
    BY <1>2
<1> QED BY <1>1, <1>2 DEF Sentences

(* One field set to a word: what both kinds of action do to the values.    *)
LEMMA FieldSet ==
    ASSUME NEW values \in ValuesType, NEW key \in Fields, NEW word \in Words
    PROVE  /\ [values EXCEPT ![key] = word] \in ValuesType
           /\ [values EXCEPT ![key] = word][key] = word
           /\ \A other \in Fields \ {key} :
                [values EXCEPT ![key] = word][other] = values[other]
           /\ values[key] \in Words
<1>1. key \in {"project", "region", "radius", "count"}
    BY DEF Fields
<1>2. DOMAIN values = {"project", "region", "radius", "count"}
    BY DEF ValuesType
<1>3. CASE key = "project"
    BY <1>2, <1>3 DEF ValuesType, Fields
<1>4. CASE key = "region"
    BY <1>2, <1>4 DEF ValuesType, Fields
<1>5. CASE key = "radius"
    BY <1>2, <1>5 DEF ValuesType, Fields
<1>6. CASE key = "count"
    BY <1>2, <1>6 DEF ValuesType, Fields
<1> QED BY <1>1, <1>3, <1>4, <1>5, <1>6

LEMMA TakenTyped ==
    ASSUME NEW d \in DraftType, NEW m \in Sentences, NEW i \in DOMAIN m,
           NEW defaults \in ValuesType
    PROVE  /\ Taken(d, m[i], defaults) \in DraftType
           /\ IsExecuted(d) => IsExecuted(Taken(d, m[i], defaults))
<1> DEFINE a == m[i]
<1>1. a.key \in Topics /\ a.value \in Words
    BY SaidTyped
<1>2. d.values \in ValuesType /\ d.recorded \in SUBSET RecordType
    BY DEF DraftType
<1>3. Without(d.recorded, a.key) \in SUBSET RecordType
    BY <1>2 DEF Without
<1> DEFINE word == IF a.op = "remove" THEN defaults[a.key] ELSE a.value
           values == IF Executable(a.key)
                     THEN [d.values EXCEPT ![a.key] = word] ELSE d.values
           recorded == IF a.op = "remove" THEN Without(d.recorded, a.key)
                       ELSE Without(d.recorded, a.key)
                              \cup {[key |-> a.key, value |-> a.value]}
<1>4. Taken(d, a, defaults) = [recorded |-> recorded, values |-> values]
    BY DEF Taken, Forget, Record
<1>5. Executable(a.key) => word \in Words
    BY <1>1, FieldSet DEF Executable
<1>6. values \in ValuesType
    BY <1>2, <1>5, FieldSet DEF Executable
<1>7. recorded \in SUBSET RecordType
  <2>1. [key |-> a.key, value |-> a.value] \in RecordType
      BY <1>1 DEF RecordType
  <2> QED BY <1>3, <2>1
<1>8. ASSUME IsExecuted(d), NEW r \in recorded, Executable(r.key)
      PROVE  Converted(r.key, values[r.key]) = Converted(r.key, r.value)
  <2>1. CASE r \in Without(d.recorded, a.key)
    <3>1. r \in d.recorded /\ r.key # a.key
        BY <2>1 DEF Without
    <3>2. Converted(r.key, d.values[r.key]) = Converted(r.key, r.value)
        BY <1>8, <3>1 DEF IsExecuted
    <3>3. values[r.key] = d.values[r.key]
        BY <1>2, <1>5, <1>8, <3>1, FieldSet DEF Executable
    <3> QED BY <3>2, <3>3
  <2>2. CASE r \notin Without(d.recorded, a.key)
    <3>1. /\ a.op # "remove"
          /\ r = [key |-> a.key, value |-> a.value]
        BY <1>8, <2>2
    <3>2. values[a.key] = a.value
      <4>1. a.key \in Fields /\ word = a.value /\ a.value \in Words
          BY <1>1, <1>8, <3>1 DEF Executable
      <4>2. values = [d.values EXCEPT ![a.key] = a.value]
          BY <4>1 DEF Executable
      <4> QED BY <1>2, <4>1, <4>2, FieldSet
    <3> QED BY <3>1, <3>2
  <2> QED BY <2>1, <2>2
<1> HIDE DEF values, recorded
<1>9. Taken(d, a, defaults) \in DraftType
    BY <1>4, <1>6, <1>7 DEF DraftType
<1>10. IsExecuted(d) => IsExecuted(Taken(d, a, defaults))
    BY <1>4, <1>8 DEF IsExecuted
<1> QED BY <1>9, <1>10

LEMMA AppliedTyped ==
    ASSUME NEW base \in Bases, NEW preference \in PreferenceType, NEW m \in Sentences
    PROVE  Applied(base, preference, m) \in DraftType
<1> DEFINE defaults == Defaults(IF base = <<>> THEN preference
                                            ELSE NoPreference)
<1>1. defaults \in ValuesType
    BY DefaultsTyped, ConstantsTyped
<1>2. \A d \in DraftType : \A i \in DOMAIN m :
         Taken(d, m[i], defaults) \in DraftType
    BY <1>1, TakenTyped
<1> QED BY <1>2, DraftTyped, AppliedIsIn

LEMMA AppliedExecutes ==
    ASSUME NEW base \in Bases, NEW preference \in PreferenceType, NEW m \in Sentences,
           base # <<>> => IsExecuted(base[1])
    PROVE  IsExecuted(Applied(base, preference, m))
<1> DEFINE defaults == Defaults(IF base = <<>> THEN preference
                                            ELSE NoPreference)
           D == {d \in DraftType : IsExecuted(d)}
<1>1. defaults \in ValuesType
    BY DefaultsTyped, ConstantsTyped
<1>2. \A d \in D : \A i \in DOMAIN m : Taken(d, m[i], defaults) \in D
    BY <1>1, TakenTyped
<1>3. IsExecuted(Draft(base, preference))
  <2>1. CASE base # <<>>
      BY <2>1 DEF Draft, IsExecuted
  <2>2. CASE base = <<>>
    <3>1. CASE preference = NoPreference
        BY <2>2, <3>1 DEF Draft, IsExecuted
    <3>2. CASE preference # NoPreference
      <4>1. /\ Defaults(preference)["radius"] = preference.radius
            /\ Defaults(preference)["count"] = preference.count
          BY <3>2, DefaultsTyped
      <4> QED BY <2>2, <3>2, <4>1 DEF Draft, IsExecuted
    <3> QED BY <3>1, <3>2
  <2> QED BY <2>1, <2>2
<1>4. Draft(base, preference) \in D
    BY <1>3, DraftTyped
<1>5. Applied(base, preference, m) \in D
  <2> HIDE DEF D
  <2> QED BY <1>2, <1>4, AppliedIsIn
<1> QED BY <1>5

-----------------------------------------------------------------------------
(* What a turn builds, and how sessions change.                            *)

LEMMA VersionOfIs ==
    ASSUME NEW session \in SessionType, NEW id \in Nat
    PROVE  /\ VersionOf(session, id) \in Bases
           /\ VersionOf(session, id) # <<>> =>
                \E i \in DOMAIN session.versions :
                    /\ session.versions[i].id = id
                    /\ VersionOf(session, id) = <<session.versions[i]>>
           /\ (\E i \in DOMAIN session.versions : session.versions[i].id = id)
                => VersionOf(session, id) # <<>>
<1> DEFINE named == {i \in DOMAIN session.versions :
                        session.versions[i].id = id}
<1>1. /\ session.versions \in Seq(VersionType)
      /\ DOMAIN session.versions \subseteq Nat
      /\ \A i \in DOMAIN session.versions :
            session.versions[i] \in VersionType
    BY ElementOfSeq, LenProperties DEF SessionType
<1>2. CASE named = {}
    BY <1>2 DEF VersionOf, Bases
<1>3. CASE named # {}
  <2>1. named \in SUBSET Nat
      BY <1>1
  <2>2. \E n \in named : \A k \in named : n <= k
    <3> HIDE DEF named
    <3> QED BY <1>3, <2>1, LeastNatural
  <2>3. Min(named) \in named
      BY <2>2 DEF Min
  <2>4. VersionOf(session, id) = <<session.versions[Min(named)]>>
      BY <1>3 DEF VersionOf
  <2>5. /\ Min(named) \in DOMAIN session.versions
        /\ session.versions[Min(named)].id = id
      BY <2>3
  <2> HIDE DEF named
  <2>6. session.versions[Min(named)] \in VersionType
      BY <1>1, <2>5
  <2> QED BY <2>4, <2>5, <2>6 DEF Bases
<1> QED BY <1>2, <1>3

LEMMA BaseIs ==
    ASSUME NEW session \in SessionType
    PROVE  /\ Base(session) \in Bases
           /\ Base(session) # <<>> =>
                \E i \in DOMAIN session.versions :
                    Base(session) = <<session.versions[i]>>
  BY VersionOfIs DEF Base, SessionType

(* The defaults that replace a value out of range are in range.            *)
LEMMA NormalIs ==
    ASSUME NEW values \in ValuesType
    PROVE  /\ Normal(values) \in ValuesType
           /\ ValidProject(Normal(values)) /\ ValidRadius(Normal(values))
           /\ ValidCount(Normal(values))
           /\ Normal(values).region = values.region
           /\ Normal(values).count \in {values.count, DefaultCount}
           /\ (ValidProject(values) /\ ValidRadius(values)
                  /\ ValidCount(values)) => Normal(values) = values
<1>1. DefaultRadius \in Words /\ DefaultCount \in Words /\ None \in Words
    BY ConstantsTyped DEF Words
<1> DEFINE project == IF ValidProject(values) THEN values.project ELSE None
           radius == IF ValidRadius(values) THEN values.radius
                                            ELSE DefaultRadius
           count == IF ValidCount(values) THEN values.count ELSE DefaultCount
<1>2. /\ Normal(values) \in ValuesType
      /\ Normal(values).project = project
      /\ Normal(values).region = values.region
      /\ Normal(values).radius = radius
      /\ Normal(values).count = count
    BY <1>1 DEF Normal, ValuesType
<1>3. project \in Projects \cup {None}
    BY DEF ValidProject
<1>4. radius \in MinRadius .. MaxRadius /\ count \in MinCount .. MaxCount
    BY ConversationConstants DEF ValidRadius, ValidCount
<1>5. (ValidProject(values) /\ ValidRadius(values) /\ ValidCount(values))
         => Normal(values) = values
    BY DEF Normal, ValuesType
<1> QED BY <1>2, <1>3, <1>4, <1>5 DEF ValidProject, ValidRadius, ValidCount

(* What a version holds is what it would be cast to again.                 *)
LEMMA NormalIsCast ==
    ASSUME NEW values \in ValuesType
    PROVE  Cast(Normal(Cast(values))) = Normal(Cast(values))
<1> DEFINE cast == Cast(values)
           normal == Normal(cast)
<1>1. cast \in ValuesType
    BY CastIs
<1>2. /\ normal \in ValuesType /\ normal.region = cast.region
      /\ normal.count \in {cast.count, DefaultCount}
    BY <1>1, NormalIs
<1>3. /\ cast.region = Converted("region", values.region)
      /\ cast.count = Converted("count", values.count)
      /\ values.region \in Words /\ values.count \in Words
    BY CastIs DEF ValuesType
<1>4. Converted("count", DefaultCount) = DefaultCount
    BY ConstantsTyped DEF Converted
<1> HIDE DEF cast, normal
<1>5. /\ Converted("region", normal.region) = normal.region
      /\ Converted("count", normal.count) = normal.count
    BY <1>2, <1>3, <1>4, ConvertedIs
<1>6. Cast(normal) = normal
    BY <1>2, <1>5 DEF Cast, ValuesType
<1> QED BY <1>6 DEF cast, normal

LEMMA ConflictsAre ==
    ASSUME NEW values \in ValuesType, NEW m \in Sentences,
           NEW online \in BOOLEAN
    PROVE  /\ Conflicts(m, values, online) \in SUBSET Topics
           /\ Conflicts(m, values, online) = {} =>
                /\ ValidProject(values) /\ ValidRadius(values)
                /\ ValidCount(values)
                /\ values.region # None => Resolves(values, online)
<1>1. Duplicates(m) \in SUBSET Topics
  <2>1. Keys(m) \in SUBSET Topics
      BY SaidTyped DEF Keys
  <2> QED BY <2>1 DEF Duplicates
<1>2. /\ "project" \in Topics /\ "radius" \in Topics
      /\ "region" \in Topics /\ "count" \in Topics
    BY DEF Topics, Fields
<1> QED BY <1>1, <1>2 DEF Conflicts

(* A new version, as _build_version makes it.                              *)
IsBuilt(v, id, number, base) ==
    /\ v \in VersionType
    /\ v.id = id /\ v.number = number /\ v.status = "proposed"
    /\ v.parent = IF base = <<>> THEN NoId ELSE base[1].id
    /\ IsAccepted(v)
    /\ v.conflicts = {} /\ (base # <<>> => IsExecuted(base[1]))
         => IsExecuted(v)

LEMMA BuiltIs ==
    ASSUME NEW base \in Bases, NEW preference \in PreferenceType, NEW m \in Sentences,
           NEW id \in Nat, NEW number \in Nat, NEW online \in BOOLEAN
    PROVE  IsBuilt(BuildVersion(id, number, base, preference, m, online),
                   id, number, base)
<1> DEFINE draft == Applied(base, preference, m)
           cast == Cast(draft.values)
           values == Normal(cast)
           parent == IF base = <<>> THEN NoId ELSE base[1].id
           resolved == Resolves(cast, online)
           conflicts == Conflicts(m, cast, online)
<1> DEFINE v == BuildVersion(id, number, base, preference, m, online)
<1>1. v = [id |-> id, number |-> number, parent |-> parent,
           status |-> "proposed", values |-> values, said |-> m,
           recorded |-> draft.recorded, resolved |-> resolved,
           conflicts |-> conflicts, unclear |-> Clarify(values)]
    BY DEF BuildVersion
<1>2. draft \in DraftType
    BY AppliedTyped
<1>3. /\ draft.values \in ValuesType
      /\ draft.recorded \in SUBSET RecordType
      /\ cast \in ValuesType
    BY <1>2, CastIs DEF DraftType
<1>4. parent \in Nat
    BY DEF Bases, VersionType, NoId
<1>5. resolved \in BOOLEAN /\ Clarify(values) \in BOOLEAN
    BY DEF Resolves, Clarify
<1>6. conflicts \in SUBSET Topics
    BY <1>3, ConflictsAre
<1>7. /\ values \in ValuesType /\ ValidProject(values)
      /\ ValidRadius(values) /\ ValidCount(values)
      /\ values = Cast(values)
    BY <1>3, NormalIs, NormalIsCast
<1>8. conflicts = {} => /\ values = cast
                        /\ values.region # None => resolved
    BY <1>3, ConflictsAre, NormalIs
<1>9. (base # <<>> => IsExecuted(base[1])) => IsExecuted(draft)
    BY AppliedExecutes
<1>13. \A key \in Fields :
          Converted(key, cast[key]) = Converted(key, draft.values[key])
  <2>1. ASSUME NEW key \in Fields
        PROVE  Converted(key, cast[key]) = Converted(key, draft.values[key])
    <3>1. cast[key] = Converted(key, draft.values[key])
        BY <1>3, CastIs
    <3>2. draft.values[key] \in Words
      <4>1. draft.values \in ValuesType /\ None \in Words
          BY <1>3 DEF Words
      <4> HIDE DEF draft
      <4> QED BY <4>1, FieldSet
    <3> QED BY <3>1, <3>2, ConvertedIs
  <2> QED BY <2>1
<1> HIDE DEF v, draft, cast, values, parent, resolved, conflicts
<1>10. v \in VersionType
    BY <1>1, <1>3, <1>4, <1>5, <1>6, <1>7 DEF VersionType
<1>11. IsAccepted(v)
    BY <1>1, <1>7, <1>8 DEF IsAccepted
<1>12. v.conflicts = {} /\ (base # <<>> => IsExecuted(base[1]))
          => IsExecuted(v)
    BY <1>1, <1>8, <1>9, <1>13 DEF IsExecuted, Executable
<1> QED BY <1>1, <1>10, <1>11, <1>12 DEF IsBuilt, v, parent

(* What marking changes of a version: its status.                          *)
SameBut(v, w) ==
    /\ v.id = w.id /\ v.number = w.number /\ v.parent = w.parent
    /\ v.values = w.values /\ v.recorded = w.recorded
    /\ v.resolved = w.resolved /\ v.conflicts = w.conflicts
    /\ v.unclear = w.unclear

LEMMA MarkedIs ==
    ASSUME NEW session \in SessionType, NEW id \in Nat,
           NEW status \in {"proposed", "confirmed", "superseded"}
    PROVE  /\ Marked(session, id, status) \in Seq(VersionType)
           /\ Len(Marked(session, id, status)) = Len(session.versions)
           /\ DOMAIN Marked(session, id, status) = DOMAIN session.versions
           /\ \A i \in DOMAIN session.versions :
                /\ SameBut(Marked(session, id, status)[i],
                           session.versions[i])
                /\ Marked(session, id, status)[i].status =
                      IF session.versions[i].id = id THEN status
                      ELSE session.versions[i].status
<1> DEFINE vs == session.versions
           n == Len(vs)
           marked == Marked(session, id, status)
<1>1. vs \in Seq(VersionType) /\ n \in Nat /\ DOMAIN vs = 1 .. n
    BY LenProperties DEF SessionType
<1>2. marked = [i \in 1 .. n |-> IF vs[i].id = id
                   THEN [vs[i] EXCEPT !.status = status] ELSE vs[i]]
    BY <1>1 DEF Marked
<1>3. ASSUME NEW i \in 1 .. n
      PROVE  /\ marked[i] \in VersionType
             /\ SameBut(marked[i], vs[i])
             /\ marked[i].status = IF vs[i].id = id THEN status
                                   ELSE vs[i].status
  <2>1. vs[i] \in VersionType
      BY <1>1, ElementOfSeq
  <2>2. marked[i] = IF vs[i].id = id
                    THEN [vs[i] EXCEPT !.status = status] ELSE vs[i]
      BY <1>2
  <2> HIDE DEF marked
  <2> QED BY <2>1, <2>2 DEF VersionType, SameBut
<1>4. marked \in Seq(VersionType) /\ Len(marked) = n
  <2>1. marked \in [1 .. n -> VersionType]
      BY <1>2, <1>3
  <2> QED BY <1>1, <2>1, SeqDef, LenProperties
<1>5. DOMAIN marked = 1 .. n
    BY <1>2
<1> HIDE DEF marked
<1> QED BY <1>1, <1>3, <1>4, <1>5 DEF marked

(* Values, conflicts and record of a version do not depend on its status.  *)
LEMMA SameHolds ==
    ASSUME NEW v \in VersionType, NEW w \in VersionType, SameBut(v, w)
    PROVE  /\ IsExecuted(v) <=> IsExecuted(w)
           /\ Ready(v) <=> Ready(w)
           /\ IsAccepted(w) /\ (v.status = "confirmed" => Ready(w))
                => IsAccepted(v)
  BY DEF SameBut, IsExecuted, Ready, IsAccepted

LEMMA SpokenTyped ==
    ASSUME NEW session \in SessionType, NEW v \in VersionType,
           NEW mode \in Modes
    PROVE  /\ Spoken(session, v, mode) \in SessionType
           /\ Spoken(session, v, mode).active = session.active
           /\ Spoken(session, v, mode).pending = v.id
           /\ Spoken(session, v, mode).versions
                = Append(Marked(session, session.pending, "superseded"), v)
<1> DEFINE vs == Append(Marked(session, session.pending, "superseded"), v)
<1>1. vs \in Seq(VersionType)
    BY MarkedIs, AppendProperties DEF SessionType
<1>2. v.id \in Nat
    BY DEF VersionType
<1> HIDE DEF vs
<1>3. Spoken(session, v, mode)
        = [session EXCEPT !.versions = vs, !.pending = v.id, !.mode = mode]
    BY DEF Spoken, vs
<1> QED BY <1>1, <1>2, <1>3 DEF SessionType, vs

LEMMA AcceptedTyped ==
    ASSUME NEW session \in SessionType
    PROVE  /\ Accepted(session) \in SessionType
           /\ Accepted(session).active = session.pending
           /\ Accepted(session).pending = NoId
           /\ Len(Accepted(session).versions) = Len(session.versions)
           /\ \A i \in DOMAIN session.versions :
                /\ SameBut(Accepted(session).versions[i],
                           session.versions[i])
                /\ Accepted(session).versions[i].status =
                     IF session.versions[i].id = session.pending
                     THEN "confirmed"
                     ELSE IF session.versions[i].id = session.active
                     THEN "superseded" ELSE session.versions[i].status
<1> DEFINE once == Marked(session, session.active, "superseded")
           outdated == [session EXCEPT !.versions = once]
           vs == Marked(outdated, session.pending, "confirmed")
<1>1. session.active \in Nat /\ session.pending \in Nat
    BY DEF SessionType
<1>2. /\ once \in Seq(VersionType) /\ Len(once) = Len(session.versions)
      /\ DOMAIN once = DOMAIN session.versions
      /\ \A i \in DOMAIN session.versions :
            /\ SameBut(once[i], session.versions[i])
            /\ once[i].status = IF session.versions[i].id = session.active
                                THEN "superseded"
                                ELSE session.versions[i].status
    BY <1>1, MarkedIs
<1> HIDE DEF once
<1>3. outdated \in SessionType /\ outdated.versions = once
    BY <1>2 DEF SessionType
<1> HIDE DEF outdated
<1>4. /\ vs \in Seq(VersionType) /\ Len(vs) = Len(once)
      /\ \A i \in DOMAIN once :
            /\ SameBut(vs[i], once[i])
            /\ vs[i].status = IF once[i].id = session.pending
                              THEN "confirmed" ELSE once[i].status
    BY <1>1, <1>3, MarkedIs
<1> HIDE DEF vs
<1>5. Accepted(session) = [session EXCEPT !.versions = vs,
                              !.active = session.pending, !.pending = NoId]
    BY DEF Accepted, vs, outdated, once
<1>6. /\ Accepted(session) \in SessionType
      /\ Accepted(session).active = session.pending
      /\ Accepted(session).pending = NoId
      /\ Accepted(session).versions = vs
  <2>1. vs \in Seq(VersionType) /\ NoId \in Nat
      BY <1>4 DEF NoId
  <2> QED BY <1>1, <1>5, <2>1 DEF SessionType
<1> QED BY <1>2, <1>4, <1>6 DEF SameBut

(* A turn stores a sound session if it began with one.                     *)
LEMMA SpokenSound ==
    ASSUME NEW session \in SessionType, NEW n \in Nat, Sound(session, n),
           NEW preference \in PreferenceType, NEW m \in Sentences,
           NEW online \in BOOLEAN, NEW mode \in Modes, NEW v,
           v = BuildVersion(n + 1, Len(session.versions) + 1, Base(session),
                            preference, m, online)
    PROVE  /\ v \in VersionType
           /\ Sound(Spoken(session, v, mode), n + 1)
<1> DEFINE old == session.versions
           k == Len(old)
           marked == Marked(session, session.pending, "superseded")
           spoken == Spoken(session, v, mode)
           new == spoken.versions
           from == Base(session)
<1>1. /\ old \in Seq(VersionType) /\ k \in Nat /\ DOMAIN old = 1 .. k
      /\ session.pending \in Nat /\ session.active \in Nat
      /\ \A i \in 1 .. k : old[i] \in VersionType
    BY LenProperties, ElementOfSeq DEF SessionType
<1>2. /\ from \in Bases
      /\ from # <<>> => \E i \in 1 .. k : from = <<old[i]>>
    BY <1>1, BaseIs
<1>3. /\ v \in VersionType
      /\ v.id = n + 1 /\ v.number = k + 1 /\ v.status = "proposed"
      /\ v.parent = IF from = <<>> THEN NoId ELSE from[1].id
      /\ IsAccepted(v)
      /\ v.conflicts = {} /\ (from # <<>> => IsExecuted(from[1]))
           => IsExecuted(v)
  <2>1. n + 1 \in Nat /\ k + 1 \in Nat /\ from \in Bases
      BY <1>1, <1>2
  <2>2. \A id, number \in Nat : \A base \in Bases :
           IsBuilt(BuildVersion(id, number, base, preference, m, online),
                   id, number, base)
      BY BuiltIs
  <2>3. IsBuilt(v, n + 1, k + 1, from)
      BY <2>1, <2>2
  <2> QED BY <2>3 DEF IsBuilt
<1>4. /\ marked \in Seq(VersionType) /\ Len(marked) = k
      /\ \A i \in 1 .. k :
            /\ SameBut(marked[i], old[i])
            /\ marked[i].status = IF old[i].id = session.pending
                                  THEN "superseded" ELSE old[i].status
    BY <1>1, MarkedIs
<1>5. /\ spoken \in SessionType
      /\ spoken.active = session.active /\ spoken.pending = n + 1
      /\ new = Append(marked, v)
    BY <1>3, SpokenTyped
<1> HIDE DEF marked, spoken, from
<1>6. /\ Len(new) = k + 1 /\ DOMAIN new = 1 .. k + 1
      /\ new[k + 1] = v /\ \A i \in 1 .. k : new[i] = marked[i]
      /\ \A i \in 1 .. k + 1 : new[i] \in VersionType
  <2>1. new = Append(marked, v) /\ k \in Nat /\ Len(marked) = k
      BY <1>1, <1>4, <1>5
  <2>2. new \in Seq(VersionType)
      BY <1>5 DEF SessionType
  <2> HIDE DEF new, k
  <2>3. /\ Len(new) = k + 1 /\ new[k + 1] = v
        /\ \A i \in 1 .. k : new[i] = marked[i]
      BY <1>3, <1>4, <2>1, AppendProperties
  <2> QED BY <2>1, <2>2, <2>3, LenProperties, ElementOfSeq
<1>7. \A i \in 1 .. k :
         /\ SameBut(new[i], old[i])
         /\ new[i].status = IF old[i].id = session.pending
                            THEN "superseded" ELSE old[i].status
    BY <1>4, <1>6
<1>8. \A i \in 1 .. k + 1 : i = k + 1 \/ i \in 1 .. k
    BY <1>1
<1> HIDE DEF new, old, k
<1>9. /\ session.active \in 0 .. n
      /\ Numbered(old) /\ Distinct(old) /\ HandedOut(old, n)
      /\ Pointed(session) /\ Descends(old) /\ ExecutesClear(old)
      /\ \A i \in 1 .. k : IsAccepted(old[i])
    BY <1>1 DEF Sound, old
<1>10. Numbered(new)
    BY <1>1, <1>3, <1>6, <1>7, <1>8, <1>9 DEF Numbered, SameBut
<1>11. HandedOut(new, n + 1) /\ Distinct(new)
  <2>1. \A i \in 1 .. k : new[i].id \in 1 .. n
      BY <1>1, <1>7, <1>9 DEF HandedOut, SameBut
  <2>2. \A i, j \in 1 .. k : new[i].id = new[j].id => i = j
      BY <1>1, <1>7, <1>9 DEF Distinct, SameBut
  <2> QED BY <1>3, <1>6, <1>8, <2>1, <2>2 DEF HandedOut, Distinct
<1>12. Pointed(spoken)
  <2>1. ASSUME NEW i \in 1 .. k
        PROVE  /\ new[i].status = "confirmed" <=> new[i].id = session.active
               /\ new[i].status # "proposed" /\ new[i].id # n + 1
    <3>1. /\ old[i].status = "confirmed" <=> old[i].id = session.active
          /\ old[i].status = "proposed" <=> old[i].id = session.pending
          /\ old[i].id \in 1 .. n
        BY <1>1, <1>9 DEF Pointed, HandedOut, old
    <3> QED BY <1>7, <3>1 DEF SameBut
  <2>2. session.active # n + 1
      BY <1>9
  <2> QED BY <1>3, <1>5, <1>6, <1>8, <2>1, <2>2 DEF Pointed, new
<1>13. Descends(new)
  <2>1. ASSUME NEW i \in 1 .. k, new[i].parent # NoId
        PROVE  \E j \in 1 .. k : j < i /\ new[j].id = new[i].parent
    <3>1. PICK j \in 1 .. k : j < i /\ old[j].id = old[i].parent
        BY <1>1, <1>7, <1>9, <2>1 DEF Descends, SameBut
    <3> QED BY <1>7, <3>1 DEF SameBut
  <2>2. ASSUME v.parent # NoId
        PROVE  \E j \in 1 .. k : j < k + 1 /\ new[j].id = v.parent
    <3>1. PICK j \in 1 .. k : from = <<old[j]>>
        BY <1>2, <1>3, <2>2
    <3>2. v.parent = old[j].id
        BY <1>3, <3>1
    <3>3. j < k + 1
        BY <1>1
    <3> QED BY <1>7, <3>2, <3>3 DEF SameBut
  <2>3. 1 .. k \subseteq DOMAIN new
      BY <1>1, <1>6
  <2>4. ASSUME NEW i \in DOMAIN new, new[i].parent # NoId
        PROVE  \E j \in DOMAIN new : j < i /\ new[j].id = new[i].parent
    <3>1. CASE i \in 1 .. k
        BY <2>1, <2>3, <2>4, <3>1
    <3>2. CASE i = k + 1
        BY <1>6, <2>2, <2>3, <2>4, <3>2
    <3> QED BY <1>6, <1>8, <3>1, <3>2
  <2> QED BY <2>4 DEF Descends
<1>14. \A i \in 1 .. k + 1 : IsAccepted(new[i])
  <2>1. ASSUME NEW i \in 1 .. k PROVE IsAccepted(new[i])
    <3>1. /\ IsAccepted(old[i]) /\ SameBut(new[i], old[i])
          /\ new[i].status = "confirmed" => old[i].status = "confirmed"
        BY <1>7, <1>9
    <3>2. new[i] \in VersionType /\ old[i] \in VersionType
        BY <1>1, <1>6
    <3>3. old[i].status = "confirmed" => Ready(old[i])
        BY <3>1 DEF IsAccepted
    <3> QED BY <3>1, <3>2, <3>3, SameHolds
  <2> QED BY <1>3, <1>6, <1>8, <2>1
<1>15. ExecutesClear(new)
  <2>1. ASSUME NEW i \in 1 .. k, \A j \in 1 .. i : new[j].conflicts = {}
        PROVE  IsExecuted(old[i])
    <3>1. 1 .. i \subseteq 1 .. k
        BY <1>1
    <3>2. \A j \in 1 .. i : old[j].conflicts = {}
        BY <1>7, <2>1, <3>1 DEF SameBut
    <3> QED BY <1>1, <1>9, <3>2 DEF ExecutesClear
  <2>2. ASSUME NEW i \in 1 .. k, \A j \in 1 .. i : new[j].conflicts = {}
        PROVE  IsExecuted(new[i])
    <3>1. IsExecuted(old[i])
        BY <2>1, <2>2
    <3> QED BY <1>7, <3>1 DEF SameBut, IsExecuted
  <2>3. ASSUME \A j \in 1 .. k + 1 : new[j].conflicts = {}
        PROVE  IsExecuted(v)
    <3>1. v.conflicts = {}
        BY <1>1, <1>6, <2>3
    <3>2. ASSUME from # <<>> PROVE IsExecuted(from[1])
      <4>1. PICK i \in 1 .. k : from = <<old[i]>>
          BY <1>2, <3>2
      <4>2. \A j \in 1 .. i : new[j].conflicts = {}
          BY <1>1, <2>3
      <4>3. IsExecuted(old[i])
          BY <2>1, <4>2
      <4> QED BY <4>1, <4>3
    <3> QED BY <1>3, <3>1, <3>2
  <2> QED BY <1>6, <1>8, <2>2, <2>3 DEF ExecutesClear
<1>16. spoken.active \in 0 .. n + 1
    BY <1>5, <1>9
<1> QED BY <1>3, <1>6, <1>10, <1>11, <1>12, <1>13, <1>14, <1>15, <1>16
        DEF Sound, new, spoken

(* So does a confirmation of a version that was ready.                     *)
LEMMA AcceptedSound ==
    ASSUME NEW session \in SessionType, NEW n \in Nat, Sound(session, n),
           session.pending # NoId,
           \E i \in DOMAIN session.versions :
              /\ session.versions[i].id = session.pending
              /\ Ready(session.versions[i])
    PROVE  Sound(Accepted(session), n)
<1> DEFINE old == session.versions
           k == Len(old)
           accepted == Accepted(session)
           new == accepted.versions
<1>1. /\ old \in Seq(VersionType) /\ k \in Nat /\ DOMAIN old = 1 .. k
      /\ session.pending \in Nat /\ session.active \in Nat
      /\ \A i \in 1 .. k : old[i] \in VersionType
    BY LenProperties, ElementOfSeq DEF SessionType
<1>2. /\ accepted \in SessionType
      /\ accepted.active = session.pending /\ accepted.pending = NoId
      /\ Len(new) = k
      /\ \A i \in 1 .. k :
            /\ SameBut(new[i], old[i])
            /\ new[i].status = IF old[i].id = session.pending
                               THEN "confirmed"
                               ELSE IF old[i].id = session.active
                               THEN "superseded" ELSE old[i].status
    BY <1>1, AcceptedTyped
<1> HIDE DEF accepted
<1>3. DOMAIN new = 1 .. k /\ \A i \in 1 .. k : new[i] \in VersionType
    BY <1>2, LenProperties, ElementOfSeq DEF SessionType
<1>4. PICK ready \in 1 .. k :
         old[ready].id = session.pending /\ Ready(old[ready])
    BY <1>1
<1> HIDE DEF new, old, k
<1>5. /\ session.active \in 0 .. n
      /\ Numbered(old) /\ Distinct(old) /\ HandedOut(old, n)
      /\ Pointed(session) /\ Descends(old) /\ ExecutesClear(old)
      /\ \A i \in 1 .. k : IsAccepted(old[i])
    BY <1>1 DEF Sound, old
<1>6. Numbered(new) /\ Distinct(new) /\ HandedOut(new, n) /\ Descends(new)
  <2>1. \A i \in 1 .. k : /\ new[i].id = old[i].id
                           /\ new[i].number = old[i].number
                           /\ new[i].parent = old[i].parent
      BY <1>2 DEF SameBut
  <2>2. Numbered(new) /\ Distinct(new) /\ HandedOut(new, n)
      BY <1>1, <1>3, <1>5, <2>1 DEF Numbered, Distinct, HandedOut
  <2>3. Descends(new)
      BY <1>1, <1>3, <1>5, <2>1 DEF Descends
  <2> QED BY <2>2, <2>3
<1>7. Pointed(accepted)
  <2>1. ASSUME NEW i \in 1 .. k
        PROVE  /\ new[i].status = "confirmed" <=> new[i].id = session.pending
               /\ new[i].status # "proposed" /\ new[i].id # NoId
    <3>1. /\ old[i].status = "confirmed" <=> old[i].id = session.active
          /\ old[i].status = "proposed" <=> old[i].id = session.pending
          /\ old[i].id \in 1 .. n
        BY <1>1, <1>5 DEF Pointed, HandedOut, old
    <3> QED BY <1>2, <3>1 DEF SameBut, NoId
  <2> QED BY <1>2, <1>3, <2>1 DEF Pointed, new
<1>8. ASSUME NEW i \in 1 .. k PROVE IsAccepted(new[i])
  <2>1. /\ IsAccepted(old[i]) /\ SameBut(new[i], old[i])
        /\ new[i] \in VersionType /\ old[i] \in VersionType
      BY <1>1, <1>2, <1>3, <1>5
  <2>2. ASSUME new[i].status = "confirmed" PROVE Ready(old[i])
    <3>1. CASE old[i].id = session.pending
        BY <1>1, <1>4, <1>5, <3>1 DEF Distinct
    <3>2. CASE old[i].id # session.pending
        BY <1>2, <2>1, <2>2, <3>2 DEF IsAccepted
    <3> QED BY <3>1, <3>2
  <2> QED BY <2>1, <2>2, SameHolds
<1>9. ExecutesClear(new)
  <2> SUFFICES ASSUME NEW i \in 1 .. k,
                      \A j \in 1 .. i : new[j].conflicts = {}
               PROVE  IsExecuted(new[i])
      BY <1>3 DEF ExecutesClear
  <2>1. 1 .. i \subseteq 1 .. k
      BY <1>1
  <2>2. \A j \in 1 .. i : old[j].conflicts = {}
      BY <1>2, <2>1 DEF SameBut
  <2>3. IsExecuted(old[i])
      BY <1>1, <1>5, <2>2 DEF ExecutesClear
  <2> QED BY <1>2, <2>3 DEF SameBut, IsExecuted
<1>10. accepted.active \in 0 .. n
    BY <1>1, <1>2, <1>4, <1>5 DEF HandedOut
<1> QED BY <1>3, <1>6, <1>7, <1>8, <1>9, <1>10 DEF Sound, new, accepted

-----------------------------------------------------------------------------
(* The invariant holds at the start.                                       *)

LEMMA AbsentIs ==
    /\ Absent \in SessionType /\ Sound(Absent, 0)
    /\ \A n \in Nat : Sound(Absent, n)
    /\ Idle \in OpType /\ Idle.copy = Absent /\ Idle.kind = "idle"
<1>1. Absent.versions = <<>> /\ Absent.active = 0 /\ Absent.pending = 0
    BY DEF Absent, NoId
<1>2. Absent \in SessionType
    BY EmptySeq DEF Absent, SessionType, NoId, Modes
<1>3. ASSUME NEW n \in Nat PROVE Sound(Absent, n)
    BY <1>1 DEF Sound, Numbered, Distinct, HandedOut, Pointed, Descends,
                ExecutesClear, NoId
<1>4. Idle \in OpType /\ Idle.copy = Absent /\ Idle.kind = "idle"
    BY <1>2, ConstantsTyped DEF Idle, OpType, Sentences, Modes
<1> QED BY <1>2, <1>3, <1>4

LEMMA IdleIsAtWork ==
    \A stored : \A n \in Nat : AtWork(Idle, stored, n)
  BY AbsentIs DEF AtWork, Confirming, Current

LEMMA ConversationInitHolds == ConversationInit => TalkInv
<1> SUFFICES ASSUME ConversationInit PROVE TalkInv
    OBVIOUS
<1>1. memory \in [Projects -> PreferenceType]
  <2>1. [radius |-> MaxRadius, count |-> DefaultCount] \in PreferenceType
      BY ConstantsTyped DEF PreferenceType, Words
  <2> QED BY <2>1, ConstantsTyped DEF ConversationInit
<1>2. TalkTypes
    BY <1>1, AbsentIs DEF ConversationInit, TalkTypes
<1>3. SessionsHold
    BY AbsentIs, IdleIsAtWork DEF ConversationInit, SessionsHold, Absent
<1> QED BY <1>2, <1>3 DEF TalkInv

-----------------------------------------------------------------------------
(* The ways a step changes what the invariant is about.                    *)

LEMMA SoundGrows ==
    ASSUME NEW session, NEW n \in Nat, NEW k \in Nat, n <= k,
           Sound(session, n)
    PROVE  Sound(session, k)
<1>1. HandedOut(session.versions, k) /\ session.active \in 0 .. k
    BY DEF Sound, HandedOut
<1> QED BY <1>1 DEF Sound

(* A request works on, and stores nothing.                                 *)
LEMMA OpStep ==
    ASSUME TalkInv, NEW c \in Clients, NEW task \in OpType,
           op' = [op EXCEPT ![c] = task],
           AtWork(task, store, issued), UNCHANGED <<store, issued>>
    PROVE  op' \in [Clients -> OpType] /\ SessionsHold'
<1>1. op \in [Clients -> OpType]
    BY DEF TalkInv, TalkTypes
<1>2. op' \in [Clients -> OpType]
    BY <1>1
<1>3. ASSUME NEW d \in Clients PROVE AtWork(op'[d], store, issued)
  <2>1. CASE d = c
      BY <1>1, <2>1
  <2>2. CASE d # c
    <3>1. op'[d] = op[d]
        BY <1>1, <2>2
    <3>2. AtWork(op[d], store, issued)
        BY DEF TalkInv, SessionsHold
    <3> QED BY <3>1, <3>2
  <2> QED BY <2>1, <2>2
<1> QED BY <1>2, <1>3 DEF TalkInv, SessionsHold

(* A request stores its session and is done.                               *)
LEMMA WriteStep ==
    ASSUME TalkInv, NEW c \in Clients, NEW session \in SessionType,
           Writes(session), op' = [op EXCEPT ![c] = Idle],
           issued' \in Nat, issued <= issued', Sound(session, issued')
    PROVE  /\ store' \in SessionType /\ op' \in [Clients -> OpType]
           /\ SessionsHold'
<1>1. /\ op \in [Clients -> OpType] /\ store.revision \in Nat
      /\ issued \in Nat
    BY DEF TalkInv, TalkTypes, SessionType
<1>2. op' \in [Clients -> OpType]
    BY <1>1, AbsentIs
<1>3. /\ store' \in SessionType /\ store'.revision = store.revision + 1
      /\ store'.versions = session.versions
      /\ store'.active = session.active /\ store'.pending = session.pending
    BY <1>1 DEF Writes, SessionType
<1>4. Sound(store', issued')
    BY <1>3 DEF Sound, Pointed
<1>5. ASSUME NEW d \in Clients PROVE AtWork(op'[d], store', issued')
  <2>1. CASE d = c
      BY <1>1, <2>1, IdleIsAtWork
  <2>2. CASE d # c
    <3>1. op'[d] = op[d] /\ AtWork(op[d], store, issued) /\ op[d] \in OpType
        BY <1>1, <2>2 DEF TalkInv, SessionsHold
    <3>2. Sound(op[d].copy, issued')
        BY <1>1, <3>1, SoundGrows DEF AtWork
    <3>3. Current(op[d], store')
      <4>1. op[d].copy.revision \in Nat
          BY <3>1 DEF OpType, SessionType
      <4> QED BY <1>1, <1>3, <3>1, <4>1 DEF AtWork, Current
    <3> QED BY <3>1, <3>2, <3>3 DEF AtWork
  <2> QED BY <2>1, <2>2
<1> QED BY <1>1, <1>2, <1>3, <1>4, <1>5 DEF SessionsHold

-----------------------------------------------------------------------------
(* Every step keeps the invariant.                                         *)

LEMMA OpenHolds ==
    ASSUME TalkInv, NEW c \in Clients, Open(c) PROVE TalkInv'
<1>1. PICK m \in Messages, mode \in MemoryModes, actor \in BOOLEAN :
         op' = [op EXCEPT ![c] = [Idle EXCEPT
                  !.kind = "turn", !.message = m, !.mode = mode,
                  !.copy = NewSession(actor, mode)]]
    BY DEF Open
<1> DEFINE session == NewSession(actor, mode)
           task == [Idle EXCEPT !.kind = "turn", !.message = m,
                         !.mode = mode, !.copy = session]
<1>2. /\ session \in SessionType /\ session.versions = <<>>
      /\ session.active = NoId /\ session.pending = NoId
      /\ session.revision = 0
    BY AbsentIs DEF NewSession, Absent, SessionType, Modes, NoId
<1> HIDE DEF session
<1>3. task \in OpType /\ task.kind = "turn" /\ task.copy = session
    BY <1>2, AbsentIs DEF OpType, Sentences, Modes
<1> HIDE DEF task
<1>4. issued \in Nat /\ store.revision \in Nat /\ created' \in BOOLEAN
      /\ requests' \in Nat /\ UNCHANGED <<store, memory, issued>>
    BY DEF TalkInv, TalkTypes, SessionType, Open
<1>5. Sound(session, issued)
    BY <1>2, <1>4 DEF Sound, Numbered, Distinct, HandedOut, Pointed,
                      Descends, ExecutesClear, NoId
<1>6. Current(task, store)
    BY <1>2, <1>3, <1>4 DEF Current, TalkInv, SessionsHold
<1>7. AtWork(task, store, issued)
    BY <1>3, <1>5, <1>6 DEF AtWork, Confirming
<1>8. op' \in [Clients -> OpType] /\ SessionsHold'
    BY <1>1, <1>3, <1>4, <1>7, OpStep DEF task, session
<1> QED BY <1>4, <1>8 DEF TalkInv, TalkTypes

LEMMA ConverseHolds ==
    ASSUME TalkInv, NEW c \in Clients, Converse(c) PROVE TalkInv'
<1>1. PICK m \in Messages, mode \in MemoryModes \cup {store.mode} :
         op' = [op EXCEPT ![c] = [Idle EXCEPT
                  !.kind = "turn", !.message = m, !.mode = mode,
                  !.copy = store]]
    BY DEF Converse
<1> DEFINE task == [Idle EXCEPT !.kind = "turn", !.message = m,
                         !.mode = mode, !.copy = store]
<1>2. /\ issued \in Nat /\ store \in SessionType /\ mode \in Modes
      /\ created' \in BOOLEAN /\ requests' \in Nat
      /\ UNCHANGED <<store, memory, issued>>
    BY DEF TalkInv, TalkTypes, SessionType, Modes, Converse
<1>3. task \in OpType /\ task.kind = "turn" /\ task.copy = store
    BY <1>2, AbsentIs DEF OpType, Sentences
<1> HIDE DEF task
<1>4. AtWork(task, store, issued)
  <2>1. store.revision \in Nat
      BY <1>2 DEF SessionType
  <2> QED BY <1>3, <2>1
          DEF AtWork, Confirming, Current, TalkInv, SessionsHold
<1>5. op' \in [Clients -> OpType] /\ SessionsHold'
    BY <1>1, <1>2, <1>3, <1>4, OpStep DEF task
<1> QED BY <1>2, <1>5 DEF TalkInv, TalkTypes

LEMMA RecallHolds ==
    ASSUME TalkInv, NEW c \in Clients, Recall(c) PROVE TalkInv'
<1> DEFINE type == RecallType(op[c].copy, op[c].message)
           known == IF type \in Projects /\ Applies(op[c].copy, op[c].mode)
                    THEN memory[type] ELSE NoPreference
<1>1. PICK read \in {known, NoPreference} :
         op' = [op EXCEPT ![c].kind = "recalled", ![c].recalled = read]
    BY DEF Recall
<1>2. op[c] \in OpType /\ op \in [Clients -> OpType]
      /\ memory \in [Projects -> PreferenceType]
      /\ UNCHANGED <<store, memory, issued, requests, created>>
    BY DEF TalkInv, TalkTypes, Recall
<1>3. read \in PreferenceType
    BY <1>2, ConstantsTyped
<1> DEFINE task == [op[c] EXCEPT !.kind = "recalled", !.recalled = read]
<1>4. op' = [op EXCEPT ![c] = task]
    BY <1>1, <1>2 DEF OpType
<1>5. task \in OpType /\ task.kind = "recalled"
      /\ task.copy = op[c].copy
    BY <1>2, <1>3 DEF OpType
<1> HIDE DEF task
<1>6. AtWork(op[c], store, issued) /\ op[c].kind = "turn"
    BY DEF TalkInv, SessionsHold, Recall
<1>7. AtWork(task, store, issued)
    BY <1>5, <1>6 DEF AtWork, Confirming, Current
<1>8. op' \in [Clients -> OpType] /\ SessionsHold'
    BY <1>2, <1>4, <1>5, <1>7, OpStep
<1> QED BY <1>2, <1>8 DEF TalkInv, TalkTypes

LEMMA ReplyHolds ==
    ASSUME TalkInv, NEW c \in Clients, Reply(c) PROVE TalkInv'
<1> DEFINE session == op[c].copy
<1>1. PICK online \in BOOLEAN :
         Writes(Spoken(session,
            BuildVersion(issued + 1, Len(session.versions) + 1,
                         Base(session), op[c].recalled, op[c].message,
                         online), op[c].mode))
    BY DEF Reply
<1> DEFINE v == BuildVersion(issued + 1, Len(session.versions) + 1,
                             Base(session), op[c].recalled, op[c].message,
                             online)
<1>2. /\ op[c] \in OpType /\ session \in SessionType /\ issued \in Nat
      /\ op[c].recalled \in PreferenceType /\ op[c].message \in Sentences
      /\ op[c].mode \in Modes
      /\ issued' = issued + 1 /\ op' = [op EXCEPT ![c] = Idle]
      /\ UNCHANGED <<memory, requests, created>>
    BY DEF TalkInv, TalkTypes, OpType, Reply
<1>3. Sound(session, issued)
    BY DEF TalkInv, SessionsHold, AtWork
<1> HIDE DEF session
<1>4. /\ v \in VersionType
      /\ Sound(Spoken(session, v, op[c].mode), issued + 1)
    BY <1>2, <1>3, SpokenSound
<1> HIDE DEF v
<1>5. Spoken(session, v, op[c].mode) \in SessionType
    BY <1>2, <1>4, SpokenTyped
<1>6. Writes(Spoken(session, v, op[c].mode))
    BY <1>1 DEF v
<1>7. /\ store' \in SessionType /\ op' \in [Clients -> OpType]
      /\ SessionsHold'
  <2>1. /\ issued' \in Nat /\ issued <= issued'
        /\ Sound(Spoken(session, v, op[c].mode), issued')
      BY <1>2, <1>4
  <2> QED BY <1>2, <1>5, <1>6, <2>1, WriteStep
<1> QED BY <1>2, <1>7 DEF TalkInv, TalkTypes

LEMMA ConfirmHolds ==
    ASSUME TalkInv, NEW c \in Clients, Confirm(c) PROVE TalkInv'
<1>1. PICK remember \in BOOLEAN :
         op' = [op EXCEPT ![c] = [Idle EXCEPT !.kind = "confirm",
                  !.copy = store, !.remember = remember]]
    BY DEF Confirm
<1> DEFINE task == [Idle EXCEPT !.kind = "confirm", !.copy = store,
                         !.remember = remember]
<1>2. /\ issued \in Nat /\ store \in SessionType /\ requests' \in Nat
      /\ store.pending \in Nat /\ store.pending # NoId
      /\ Ready(VersionOf(store, store.pending)[1])
      /\ UNCHANGED <<store, memory, issued, created>>
    BY DEF TalkInv, TalkTypes, SessionType, Confirm
<1>3. task \in OpType /\ task.kind = "confirm"
      /\ task.copy = store
    BY <1>2, AbsentIs DEF OpType
<1> HIDE DEF task
<1>4. Sound(store, issued)
    BY DEF TalkInv, SessionsHold
<1>5. \E i \in DOMAIN store.versions :
         store.versions[i].id = store.pending /\ Ready(store.versions[i])
  <2>1. VersionOf(store, store.pending) # <<>>
      BY <1>2, <1>4, VersionOfIs DEF Sound, Pointed
  <2>2. PICK i \in DOMAIN store.versions :
           /\ store.versions[i].id = store.pending
           /\ VersionOf(store, store.pending) = <<store.versions[i]>>
      BY <1>2, <2>1, VersionOfIs
  <2> QED BY <1>2, <2>2
<1>6. AtWork(task, store, issued)
  <2>1. store.revision \in Nat
      BY <1>2 DEF SessionType
  <2> QED BY <1>2, <1>3, <1>4, <1>5, <2>1 DEF AtWork, Confirming, Current
<1>7. op' \in [Clients -> OpType] /\ SessionsHold'
    BY <1>1, <1>2, <1>3, <1>6, OpStep DEF task
<1> QED BY <1>2, <1>7 DEF TalkInv, TalkTypes

LEMMA RememberHolds ==
    ASSUME TalkInv, NEW c \in Clients, Remember(c) PROVE TalkInv'
<1> DEFINE session == op[c].copy
           values == VersionOf(session, session.pending)[1].values
           task == [op[c] EXCEPT !.remember = FALSE]
<1>1. /\ op[c] \in OpType /\ op \in [Clients -> OpType]
      /\ session \in SessionType /\ session.pending \in Nat
      /\ memory \in [Projects -> PreferenceType] /\ AtWork(op[c], store, issued)
      /\ UNCHANGED <<store, issued, requests, created>>
      /\ op[c].kind = "confirm"
    BY DEF TalkInv, TalkTypes, SessionsHold, OpType, SessionType, Remember
<1>2. op' = [op EXCEPT ![c] = task]
    BY <1>1 DEF Remember, OpType
<1>3. task \in OpType /\ task.kind = op[c].kind
      /\ task.copy = op[c].copy
    BY <1>1 DEF OpType
<1>4. Preferred(values) \in PreferenceType
  <2>1. VersionOf(session, session.pending) # <<>>
      BY <1>1, VersionOfIs DEF AtWork, Confirming
  <2>2. PICK i \in DOMAIN session.versions :
           VersionOf(session, session.pending) = <<session.versions[i]>>
      BY <1>1, <2>1, VersionOfIs
  <2>3. IsAccepted(session.versions[i])
      BY <1>1, <2>2 DEF AtWork, Sound
  <2>4. values = session.versions[i].values
      BY <2>2
  <2>5. values.radius \in Nat /\ values.count \in Nat
      BY <2>3, <2>4, ConstantsTyped DEF IsAccepted, ValidRadius, ValidCount
  <2> QED BY <2>5 DEF Preferred, PreferenceType, Words
<1>5. memory' \in [Projects -> PreferenceType]
  <2>1. \/ memory' = [memory EXCEPT ![values.project] = Preferred(values)]
        \/ memory' = memory
      BY DEF Remember
  <2> HIDE DEF values
  <2> QED BY <1>1, <1>4, <2>1
<1> HIDE DEF task
<1>6. AtWork(task, store, issued)
    BY <1>1, <1>3 DEF AtWork, Confirming, Current
<1>7. op' \in [Clients -> OpType] /\ SessionsHold'
    BY <1>1, <1>2, <1>3, <1>6, OpStep
<1> QED BY <1>1, <1>5, <1>7 DEF TalkInv, TalkTypes

LEMMA ConfirmSavedHolds ==
    ASSUME TalkInv, NEW c \in Clients, ConfirmSaved(c) PROVE TalkInv'
<1>1. /\ op[c] \in OpType /\ op[c].copy \in SessionType
      /\ AtWork(op[c], store, issued) /\ op[c].kind = "confirm"
      /\ issued \in Nat
      /\ Writes(Accepted(op[c].copy)) /\ op' = [op EXCEPT ![c] = Idle]
      /\ UNCHANGED <<memory, issued, requests, created>>
    BY DEF TalkInv, TalkTypes, SessionsHold, OpType, ConfirmSaved
<1>2. Sound(Accepted(op[c].copy), issued)
    BY <1>1, AcceptedSound DEF AtWork, Confirming
<1>3. Accepted(op[c].copy) \in SessionType
    BY <1>1, AcceptedTyped
<1>4. /\ store' \in SessionType /\ op' \in [Clients -> OpType]
      /\ SessionsHold'
  <2>1. /\ issued' \in Nat /\ issued <= issued'
        /\ Sound(Accepted(op[c].copy), issued')
      BY <1>1, <1>2
  <2> QED BY <1>1, <1>3, <2>1, WriteStep
<1> QED BY <1>1, <1>4 DEF TalkInv, TalkTypes

LEMMA DieHolds ==
    ASSUME TalkInv, NEW c \in Clients, Die(c) PROVE TalkInv'
<1>1. op' \in [Clients -> OpType] /\ SessionsHold'
  <2>1. Idle \in OpType /\ AtWork(Idle, store, issued)
      BY AbsentIs, IdleIsAtWork DEF TalkInv, TalkTypes
  <2>2. op' = [op EXCEPT ![c] = Idle] /\ UNCHANGED <<store, issued>>
      BY DEF Die
  <2> QED BY <2>1, <2>2, OpStep
<1> QED BY <1>1 DEF TalkInv, TalkTypes, Die

LEMMA WorldHolds ==
    ASSUME TalkInv, DeleteMemory \/ SessionExpires PROVE TalkInv'
<1>1. CASE DeleteMemory
  <2>1. memory' \in [Projects -> PreferenceType]
      BY <1>1, ConstantsTyped DEF DeleteMemory
  <2> QED BY <1>1, <2>1 DEF DeleteMemory, TalkInv, TalkTypes, SessionsHold
<1>2. CASE SessionExpires
  <2>1. UNCHANGED <<op, memory, issued, requests, created>>
      BY <1>2 DEF SessionExpires
  <2>2. store.revision \in Nat /\ issued \in Nat
      BY DEF TalkInv, TalkTypes, SessionType
  <2>3. /\ store' \in SessionType /\ store'.revision = store.revision
        /\ store'.versions = Absent.versions /\ store'.active = NoId
        /\ store'.pending = Absent.pending
        /\ store'.active = Absent.active
      BY <1>2, <2>2, AbsentIs DEF SessionExpires, Absent, SessionType
  <2>4. Sound(store', issued)
      BY <2>2, <2>3, AbsentIs DEF Sound, Pointed
  <2>5. ASSUME NEW c \in Clients PROVE AtWork(op[c], store', issued)
      BY <2>3 DEF TalkInv, SessionsHold, AtWork, Current
  <2> QED BY <2>1, <2>3, <2>4, <2>5 DEF TalkInv, TalkTypes, SessionsHold
<1> QED BY <1>1, <1>2

LEMMA ConversationNextHolds ==
    TalkInv /\ [ConversationNext]_conversationVars => TalkInv'
<1> SUFFICES ASSUME TalkInv, [ConversationNext]_conversationVars PROVE TalkInv'
    OBVIOUS
<1>1. ASSUME NEW c \in Clients, Open(c) PROVE TalkInv'
    BY <1>1, OpenHolds
<1>2. ASSUME NEW c \in Clients, Converse(c) PROVE TalkInv'
    BY <1>2, ConverseHolds
<1>3. ASSUME NEW c \in Clients, Recall(c) PROVE TalkInv'
    BY <1>3, RecallHolds
<1>4. ASSUME NEW c \in Clients, Reply(c) PROVE TalkInv'
    BY <1>4, ReplyHolds
<1>5. ASSUME NEW c \in Clients, Confirm(c) PROVE TalkInv'
    BY <1>5, ConfirmHolds
<1>6. ASSUME NEW c \in Clients, Remember(c) PROVE TalkInv'
    BY <1>6, RememberHolds
<1>7. ASSUME NEW c \in Clients, ConfirmSaved(c) PROVE TalkInv'
    BY <1>7, ConfirmSavedHolds
<1>8. ASSUME NEW c \in Clients, Die(c) PROVE TalkInv'
    BY <1>8, DieHolds
<1>9. CASE DeleteMemory \/ SessionExpires
    BY <1>9, WorldHolds
<1>10. CASE UNCHANGED conversationVars
    BY <1>10 DEF conversationVars, TalkInv, TalkTypes, SessionsHold
<1> QED BY <1>1, <1>2, <1>3, <1>4, <1>5, <1>6, <1>7, <1>8, <1>9, <1>10
        DEF ConversationNext

-----------------------------------------------------------------------------
(* Theorems.                                                               *)

LEMMA ConversationInvariant == ConversationSpec => []TalkInv
  BY ConversationInitHolds, ConversationNextHolds, PTL DEF ConversationSpec

(* Sessions, requests, memory and counters have their types, whatever      *)
(* users say (converse, confirm).                                          *)
THEOREM ConversationTypeCorrect == ConversationSpec => []TalkTypes
<1>1. TalkInv => TalkTypes
    BY DEF TalkInv
<1> QED BY <1>1, ConversationInvariant, PTL

LEMMA StoreIs ==
    ASSUME TalkInv
    PROVE  /\ store \in SessionType /\ Sound(store, issued)
           /\ Len(store.versions) \in Nat
           /\ DOMAIN store.versions = 1 .. Len(store.versions)
           /\ \A v \in Stored : \E i \in DOMAIN store.versions :
                 v = store.versions[i] /\ v.number = i
           /\ \A i \in DOMAIN store.versions :
                 store.versions[i] \in Stored /\ store.versions[i].number = i
<1>1. store \in SessionType /\ Sound(store, issued)
    BY DEF TalkInv, TalkTypes, SessionsHold
<1>2. store.versions \in Seq(VersionType)
    BY <1>1 DEF SessionType
<1> QED BY <1>1, <1>2, LenProperties DEF Stored, Sound, Numbered

(* However requests overlap, the stored session is one a single user could *)
(* have made (converse, confirm).                                          *)
THEOREM CoherenceCorrect == ConversationSpec => []SessionIsCoherent
<1>1. TalkInv => SessionIsCoherent
  <2> SUFFICES ASSUME TalkInv PROVE SessionIsCoherent
      OBVIOUS
  <2>1. /\ Pointed(store) /\ Descends(store.versions)
        /\ Numbered(store.versions)
      BY StoreIs DEF Sound
  <2>2. ASSUME NEW v \in Stored
        PROVE  /\ v.status = "confirmed" <=> v.id = store.active
               /\ v.status = "proposed" <=> v.id = store.pending
               /\ v.parent # NoId => \E w \in Stored : w.id = v.parent
                                                   /\ w.number < v.number
    <3>1. PICK i \in DOMAIN store.versions :
             v = store.versions[i] /\ v.number = i
        BY StoreIs
    <3>2. ASSUME v.parent # NoId
          PROVE  \E w \in Stored : w.id = v.parent /\ w.number < v.number
      <4>1. PICK j \in DOMAIN store.versions :
               j < i /\ store.versions[j].id = v.parent
          BY <2>1, <3>1, <3>2 DEF Descends
      <4>2. store.versions[j] \in Stored /\ store.versions[j].number = j
          BY StoreIs
      <4> QED BY <3>1, <4>1, <4>2
    <3> QED BY <2>1, <3>1, <3>2 DEF Pointed
  <2> QED BY <2>1, <2>2 DEF SessionIsCoherent, Numbered
<1> QED BY <1>1, ConversationInvariant, PTL

(* A confirmed version has no conflict and nothing left to clarify, runs   *)
(* in the ranges the executors accept, and a retail one has the search     *)
(* window of its own region (ready_for_confirmation).                      *)
THEOREM ExecutableCorrect == ConversationSpec => []ConfirmedIsExecutable
<1>1. TalkInv => ConfirmedIsExecutable
  <2> SUFFICES ASSUME TalkInv, NEW v \in Stored, v.status = "confirmed"
               PROVE  /\ v.conflicts = {}
                      /\ v.values.project \in Projects
                      /\ ValidRadius(v.values) /\ ValidCount(v.values)
                      /\ v.values = Cast(v.values)
                      /\ v.values.project \in Retail => DiscoveryReady(v)
      BY DEF ConfirmedIsExecutable
  <2>1. PICK i \in DOMAIN store.versions : v = store.versions[i]
      BY StoreIs
  <2>2. IsAccepted(v)
      BY <2>1, StoreIs DEF Sound
  <2>3. Ready(v) /\ ~Clarify(v.values)
      BY <2>2 DEF IsAccepted, Ready
  <2> QED BY <2>2, <2>3
          DEF IsAccepted, Ready, DiscoveryReady, Clarify, ValidProject
<1> QED BY <1>1, ConversationInvariant, PTL

(* A version whose line of descent met no conflict executes every value it *)
(* records, once converted: of a count only the fraction is lost, of a     *)
(* region only the blanks (_build_version, _validate_number).              *)
THEOREM RecordedCorrect == ConversationSpec => []RecordedIsExecutedWhenClear
<1>1. TalkInv => RecordedIsExecutedWhenClear
  <2> SUFFICES ASSUME TalkInv, NEW v \in Cleared
               PROVE  Executes(v)
      BY DEF RecordedIsExecutedWhenClear
  <2>1. v \in Stored
      BY DEF Cleared
  <2>2. PICK i \in DOMAIN store.versions :
           v = store.versions[i] /\ v.number = i
      BY <2>1, StoreIs
  <2>3. ASSUME NEW j \in 1 .. i PROVE store.versions[j].conflicts = {}
    <3>1. j \in DOMAIN store.versions
        BY StoreIs
    <3>2. /\ store.versions[j] \in Stored /\ store.versions[j].number = j
        BY <3>1, StoreIs
    <3>3. j <= v.number
        BY <2>2, StoreIs
    <3> QED BY <3>2, <3>3 DEF Cleared
  <2>4. ExecutesClear(store.versions)
      BY StoreIs DEF Sound
  <2>5. IsExecuted(v) /\ IsAccepted(v) /\ v.values \in ValuesType
    <3>1. IsExecuted(v)
        BY <2>2, <2>3, <2>4 DEF ExecutesClear
    <3>2. IsAccepted(v) /\ v \in VersionType
        BY <2>2, StoreIs, ElementOfSeq DEF Sound, SessionType
    <3> QED BY <3>1, <3>2 DEF VersionType
  <2>6. \A key \in Fields : v.values[key] = Converted(key, v.values[key])
      BY <2>5, CastIs DEF IsAccepted
  <2> QED BY <2>5, <2>6 DEF IsExecuted, Executes, Executable
<1> QED BY <1>1, ConversationInvariant, PTL

(* Only a confirmation, or a task that began before the session was     *)
(* last stored, takes the confirmed version away (converse, confirm).      *)
Undone ==
    /\ store.active # NoId /\ store'.state = "open"
    /\ store'.active # store.active
Undoes(c) ==
    /\ op'[c] = Idle /\ op[c] # Idle
    /\ op[c].kind = "confirm" \/ Stale(c)

LEMMA StepUndoes ==
    ASSUME TalkInv, [ConversationNext]_conversationVars, Undone
    PROVE  \E c \in Clients : Undoes(c)
<1>1. store' # store
    BY DEF Undone
<1>2. ASSUME NEW c \in Clients, Reply(c) PROVE Undoes(c)
  <2>1. PICK v : store' = [Spoken(op[c].copy, v, op[c].mode)
                              EXCEPT !.revision = store.revision + 1]
      BY <1>2 DEF Reply, Writes
  <2>2. /\ op[c] \in OpType /\ op[c].copy \in SessionType
        /\ op \in [Clients -> OpType]
        /\ op' = [op EXCEPT ![c] = Idle] /\ op[c].kind = "recalled"
        /\ Current(op[c], store)
      BY <1>2 DEF TalkInv, TalkTypes, SessionsHold, AtWork, OpType, Reply
  <2>3. store'.active = op[c].copy.active
      BY <2>1, <2>2 DEF Spoken, SessionType
  <2>4. Stale(c)
      BY <2>2, <2>3 DEF Current, Stale, Undone
  <2> QED BY <2>2, <2>4, AbsentIs DEF Undoes
<1>3. ASSUME NEW c \in Clients, ConfirmSaved(c) PROVE Undoes(c)
    BY <1>3, AbsentIs DEF ConfirmSaved, Undoes, TalkInv, TalkTypes
<1>4. CASE SessionExpires
    BY <1>4 DEF SessionExpires, Absent, Undone, TalkInv, TalkTypes, SessionType
<1>5. \/ \E c \in Clients : Reply(c) \/ ConfirmSaved(c)
      \/ SessionExpires
    BY <1>1 DEF ConversationNext, conversationVars, Open, Converse, Recall,
                Confirm, Remember, Die, DeleteMemory
<1> QED BY <1>2, <1>3, <1>4, <1>5

\* The active version of a session that stays open changes only as a request ends
\* that is a confirmation, or that writes back a copy read before another request's
\* `_save` (site_selection_conversation.py).
THEOREM UndoingCorrect == ConversationSpec => OnlyStaleWritesUndo
<1>1. TalkInv /\ [ConversationNext]_conversationVars
        => [Undone => \E c \in Clients : Undoes(c)]_conversationVars
    BY StepUndoes
<1>2. ConversationSpec
        => [][Undone => \E c \in Clients : Undoes(c)]_conversationVars
    BY <1>1, ConversationInvariant, PTL DEF ConversationSpec
<1> QED BY <1>2 DEF OnlyStaleWritesUndo, Undone, Undoes

-----------------------------------------------------------------------------
(* The inductive invariant of the discovery.                               *)

(* A set of evidence, as the code builds it.                               *)
IsEvidence(e) ==
    e = [query |-> e.query, at |-> e.at, truncated |-> e.truncated,
         synthetic |-> e.synthetic, fellBack |-> e.fellBack,
         missing |-> e.missing, stored |-> e.stored,
         error |-> e.error, reused |-> e.reused]

(* What a set does not invent, and did not read back, are POIs there are;  *)
(* a set that claims to be real and complete has them all.                 *)
Honest(e, poi) ==
    /\ IsEvidence(e)
    /\ e.at \subseteq Place
    /\ ~e.synthetic /\ ~e.stored => e.at \subseteq Found(poi, e.query)
    /\ Claims(e) => e.at = Found(poi, e.query)
    /\ e.missing => e.truncated

(* No POI that was cut off is nearer than one that was kept.               *)
KeepsNearest(e, poi) ==
    ~e.synthetic /\ ~e.stored =>
        \A p \in Found(poi, e.query) \ e.at : \A r \in e.at :
            Abs(r - e.query.center) <= Abs(p - e.query.center)

MarketStages == {"todo", "broad", "scored", "done", "blocked"}
GraphStages == {"gather", "review", "saved", "reported", "blocked"}
Joined == {"review", "saved", "reported"}

ProgressHolds ==
    /\ phase \in [land : {"todo", "done", "blocked"},
                  market : MarketStages, graph : GraphStages]
    /\ phase.graph \in Joined =>
          /\ phase.land = "done" /\ phase.market = "done"
          /\ ranked = Diversified(market, land.pool)
    /\ report \in BOOLEAN
    /\ report => phase.graph = "reported"
    /\ profile \in {Groups, Groups \o LateGroups}

LandHolds ==
    /\ town.land \in Cadastres
    /\ phase.land = "done" =>
        /\ land.pool \subseteq Sites
        /\ request.mode = "strict" => Formal(land)
        /\ Formal(land) =>
              /\ town.land.layers = 1 /\ town.land.readable
              /\ \A s \in land.pool :
                    town.land.suits[s] \in {"allowed", "review_required"}

MarketHolds ==
    /\ phase.market \in {"todo", "broad"} => tried = {}
    /\ phase.market \in {"todo", "broad", "scored"} => range = NoRange
    /\ IsFiniteSet(DOMAIN market)
    /\ \A g \in DOMAIN market :
          /\ market[g].query = ScopeQuery(g)
          /\ Honest(market[g], town.poi)
          /\ g \notin tried => KeepsNearest(market[g], town.poi)

AnalysisHolds ==
    /\ snapshot.state = "stored" =>
          /\ phase.graph \in {"saved", "reported"}
          /\ snapshot.sets = market
    /\ DOMAIN analysis.evidence # {} => report

DiscoveryInv ==
    /\ ProgressHolds /\ LandHolds /\ MarketHolds /\ AnalysisHolds
    /\ CompleteMeansAll /\ SlicesAreHonest /\ CohortsAreComparable

-----------------------------------------------------------------------------
(* Elements of a finite set, ranked by how many precede them.              *)

StrictOrder(S, R) ==
    /\ \A x \in S : <<x, x>> \notin R
    /\ \A x, y, z \in S : <<x, y>> \in R /\ <<y, z>> \in R => <<x, z>> \in R
Total(S, R) == \A x, y \in S : x = y \/ <<x, y>> \in R \/ <<y, x>> \in R

Preceding(S, R, s) == {t \in S : <<t, s>> \in R}

LEMMA RankIsNatural ==
    ASSUME NEW S, IsFiniteSet(S), NEW R, NEW s \in S, StrictOrder(S, R)
    PROVE  /\ IsFiniteSet(Preceding(S, R, s))
           /\ Cardinality(Preceding(S, R, s)) \in Nat
           /\ Cardinality(S) \in Nat
           /\ Cardinality(Preceding(S, R, s)) < Cardinality(S)
<1>1. Preceding(S, R, s) \subseteq S /\ Preceding(S, R, s) # S
    BY DEF Preceding, StrictOrder
<1>2. /\ Cardinality(Preceding(S, R, s)) <= Cardinality(S)
      /\ Cardinality(Preceding(S, R, s)) # Cardinality(S)
      /\ IsFiniteSet(Preceding(S, R, s))
    BY <1>1, FS_Subset
<1> QED BY <1>2, FS_CardinalityType

LEMMA RankGrows ==
    ASSUME NEW S, IsFiniteSet(S), NEW R, StrictOrder(S, R),
           NEW x \in S, NEW y \in S, <<x, y>> \in R
    PROVE  Cardinality(Preceding(S, R, x)) < Cardinality(Preceding(S, R, y))
<1>1. Preceding(S, R, x) \subseteq Preceding(S, R, y)
    BY DEF Preceding, StrictOrder
<1>2. x \in Preceding(S, R, y) /\ x \notin Preceding(S, R, x)
    BY DEF Preceding, StrictOrder
<1>3. IsFiniteSet(Preceding(S, R, y))
    BY RankIsNatural
<1>4. /\ Cardinality(Preceding(S, R, x)) <= Cardinality(Preceding(S, R, y))
      /\ Cardinality(Preceding(S, R, x)) # Cardinality(Preceding(S, R, y))
    BY <1>1, <1>2, <1>3, FS_Subset
<1> QED BY <1>4, RankIsNatural

(* What is kept of a set that is cut after its first elements.             *)
FirstOf(S, R, n) == {s \in S : Cardinality(Preceding(S, R, s)) < n}

LEMMA CutKeepsFirst ==
    ASSUME NEW S, IsFiniteSet(S), NEW R, StrictOrder(S, R), NEW n \in Nat
    PROVE  /\ Cardinality(S) <= n => FirstOf(S, R, n) = S
           /\ \A p \in S \ FirstOf(S, R, n) : \A r \in FirstOf(S, R, n) :
                 <<p, r>> \notin R
<1>1. ASSUME Cardinality(S) <= n, NEW s \in S PROVE s \in FirstOf(S, R, n)
    BY <1>1, RankIsNatural DEF FirstOf
<1>2. ASSUME NEW p \in S \ FirstOf(S, R, n), NEW r \in FirstOf(S, R, n),
             <<p, r>> \in R
      PROVE  FALSE
  <2>1. r \in S /\ Cardinality(Preceding(S, R, r)) < n
      BY DEF FirstOf
  <2>2. ~(Cardinality(Preceding(S, R, p)) < n)
      BY DEF FirstOf
  <2>3. Cardinality(Preceding(S, R, p)) < Cardinality(Preceding(S, R, r))
      BY <1>2, <2>1, RankGrows
  <2>4. /\ Cardinality(Preceding(S, R, p)) \in Nat
        /\ Cardinality(Preceding(S, R, r)) \in Nat
      BY <2>1, RankIsNatural
  <2> QED BY <2>1, <2>2, <2>3, <2>4
<1>3. FirstOf(S, R, n) \subseteq S
    BY DEF FirstOf
<1> QED BY <1>1, <1>2, <1>3

(* A set in order lists every element once, each after those before it.    *)
IsListed(list, S, R) ==
    /\ list \in [1 .. Cardinality(S) -> S]
    /\ \A s \in S : \E i \in 1 .. Cardinality(S) : list[i] = s
    /\ \A i, j \in 1 .. Cardinality(S) : i < j => <<list[i], list[j]>> \in R

LEMMA InOrderLists ==
    ASSUME NEW S, IsFiniteSet(S), NEW R, StrictOrder(S, R), Total(S, R)
    PROVE  IsListed(InOrder(S, R), S, R)
<1> DEFINE n == Cardinality(S)
           rank == [s \in S |-> Cardinality(Preceding(S, R, s))]
           list == InOrder(S, R)
<1>1. n \in Nat
    BY FS_CardinalityType
<1>2. rank \in [S -> 0 .. n - 1]
    BY RankIsNatural
<1>3. \A x, y \in S : <<x, y>> \in R => rank[x] < rank[y]
    BY RankGrows
<1>4. \A x, y \in S : rank[x] = rank[y] => x = y
  <2> SUFFICES ASSUME NEW x \in S, NEW y \in S, rank[x] = rank[y], x # y
               PROVE  FALSE
      OBVIOUS
  <2>1. rank[x] \in Int /\ rank[y] \in Int
      BY <1>2
  <2>2. <<x, y>> \in R \/ <<y, x>> \in R
      BY DEF Total
  <2> HIDE DEF rank
  <2> QED BY <2>1, <2>2, <1>3
<1>5. rank \in Injection(S, 0 .. n - 1)
    BY <1>2, <1>4 DEF Injection, IsInjective
<1>6. rank \in Surjection(S, 0 .. n - 1)
  <2>1. IsFiniteSet(0 .. n - 1) /\ Cardinality(0 .. n - 1) = n
      BY <1>1, FS_Interval
  <2> HIDE DEF rank
  <2> QED BY <1>5, <2>1, FS_Injection
<1>7. \A k \in 0 .. n - 1 : \E s \in S : rank[s] = k
    BY <1>6 DEF Surjection
<1>8. ASSUME NEW i \in 1 .. n PROVE list[i] \in S /\ rank[list[i]] = i - 1
  <2>1. i - 1 \in 0 .. n - 1
      BY <1>1
  <2>2. PICK s \in S : rank[s] = i - 1
      BY <1>7, <2>1
  <2>3. list[i] = CHOOSE t \in S : rank[t] = i - 1
      BY DEF InOrder, Preceding
  <2> HIDE DEF rank, list
  <2> QED BY <2>2, <2>3
<1>9. list \in [1 .. n -> S]
  <2> DEFINE at(i) == CHOOSE s \in S :
                         Cardinality({t \in S : <<t, s>> \in R}) = i - 1
  <2>1. list = [i \in 1 .. n |-> at(i)]
      BY Zenon DEF InOrder
  <2> HIDE DEF list, at
  <2> QED BY <1>8, <2>1
<1>10. ASSUME NEW s \in S PROVE \E i \in 1 .. n : list[i] = s
  <2>1. rank[s] \in 0 .. n - 1
      BY <1>2
  <2>2. rank[s] + 1 \in 1 .. n
      BY <1>1, <2>1
  <2>3. rank[list[rank[s] + 1]] = rank[s] /\ list[rank[s] + 1] \in S
    <3>1. (rank[s] + 1) - 1 = rank[s]
        BY <2>1
    <3> HIDE DEF rank, list
    <3> QED BY <1>8, <2>2, <3>1
  <2> HIDE DEF rank, list
  <2> QED BY <1>4, <2>2, <2>3
<1>11. ASSUME NEW i \in 1 .. n, NEW j \in 1 .. n, i < j
       PROVE  <<list[i], list[j]>> \in R
  <2>1. /\ list[i] \in S /\ rank[list[i]] = i - 1
        /\ list[j] \in S /\ rank[list[j]] = j - 1
      BY <1>8
  <2> HIDE DEF rank, list
  <2>2. list[i] # list[j]
      BY <1>1, <1>11, <2>1
  <2>3. ~(<<list[j], list[i]>> \in R)
      BY <1>1, <1>3, <1>11, <2>1
  <2> QED BY <2>1, <2>2, <2>3 DEF Total
<1>12. IsListed(list, S, R)
  <2> HIDE DEF list
  <2> QED BY <1>9, <1>10, <1>11 DEF IsListed
<1> QED BY <1>12

-----------------------------------------------------------------------------
(* Folds from left to right.                                               *)

IsStep(step, n, D) == step \in [(1 .. n) \X D -> D]

IsLeftFold(it, n, D, b, step) ==
    /\ it \in [SUBSET (1 .. n) -> D]
    /\ \A s \in SUBSET (1 .. n) :
          /\ s # {} => Max(s) \in 1 .. n /\ it[s \ {Max(s)}] \in D
          /\ it[s] = IF s = {} THEN b
                     ELSE step[<<Max(s), it[s \ {Max(s)}]>>]

LEMMA LeftFoldExists ==
    ASSUME NEW n \in Nat, NEW D, NEW b \in D, NEW step, IsStep(step, n, D)
    PROVE  \E it : IsLeftFold(it, n, D, b, step)
<1> DEFINE S == 1 .. n
           pick == [s \in SUBSET S |-> Max(s)]
<1>1. IsFiniteSet(S)
    BY FS_Interval
<1>2. IsPick(pick, S) /\ \A s \in SUBSET S : pick[s] = Max(s)
  <2>1. \A s \in SUBSET S : s # {} => Max(s) \in s
      BY MaxOfInterval
  <2> QED BY <2>1 DEF IsPick
<1>3. PICK it \in [SUBSET S -> D] : IsFold(it, S, b, pick, step)
  <2>1. step \in [S \X D -> D]
      BY DEF IsStep
  <2> HIDE DEF S, pick
  <2> QED BY <1>1, <1>2, <2>1, FoldExists
<1>4. ASSUME NEW s \in SUBSET S
      PROVE  /\ s # {} => Max(s) \in S /\ it[s \ {Max(s)}] \in D
             /\ it[s] = IF s = {} THEN b
                        ELSE step[<<Max(s), it[s \ {Max(s)}]>>]
  <2> HIDE DEF S, pick
  <2>1. s # {} => Max(s) \in s /\ s \ {Max(s)} \in SUBSET S
      BY <1>2 DEF IsPick
  <2> QED BY <1>2, <1>3, <2>1 DEF IsFold
<1> QED BY <1>3, <1>4 DEF IsLeftFold

(* What holds of the base, and of each step when it held before, holds of  *)
(* the result.                                                             *)
Continues(iter, n, D, step) ==
    \A s \in SUBSET (1 .. n) :
        s # {} /\ iter[s \ {Max(s)}] \in D
            => iter[s] = step[<<Max(s), iter[s \ {Max(s)}]>>]
Keeps(G, n, D, step) ==
    \A k \in 1 .. n : \A d \in D :
        <<k - 1, d>> \in G => <<k, step[<<k, d>>]>> \in G

LEMMA LeftFoldIn ==
    ASSUME NEW n \in Nat, NEW D, NEW b \in D, NEW step, IsStep(step, n, D),
           NEW iter, iter[{}] = b, Continues(iter, n, D, step),
           NEW G, <<0, b>> \in G, Keeps(G, n, D, step)
    PROVE  iter[1 .. n] \in D /\ <<n, iter[1 .. n]>> \in G
<1> DEFINE K == {k \in 0 .. n : iter[1 .. k] \in D /\ <<k, iter[1 .. k]>> \in G}
<1>1. 0 \in K
  <2>1. 1 .. 0 = {}
      OBVIOUS
  <2> QED BY <2>1
<1>2. ASSUME NEW k \in 0 .. n - 1, k \in K PROVE k + 1 \in K
  <2> DEFINE j == k + 1
  <2>1. j \in 1 .. n /\ j - 1 = k
      OBVIOUS
  <2> HIDE DEF j
  <2>2. /\ 1 .. j \in SUBSET (1 .. n) /\ 1 .. j # {}
        /\ Max(1 .. j) = j /\ (1 .. j) \ {j} = 1 .. k
      BY <2>1, MaxOfPrefix
  <2>3. iter[1 .. k] \in D /\ <<k, iter[1 .. k]>> \in G
      BY <1>2
  <2>4. iter[1 .. j] = step[<<j, iter[1 .. k]>>]
      BY <2>2, <2>3 DEF Continues
  <2>5. <<j, step[<<j, iter[1 .. k]>>]>> \in G
      BY <2>1, <2>3 DEF Keeps
  <2>6. step[<<j, iter[1 .. k]>>] \in D
      BY <2>1, <2>3 DEF IsStep
  <2> QED BY <2>1, <2>4, <2>5, <2>6 DEF j
<1>3. \A k \in 0 .. n : k \in K
  <2> HIDE DEF K
  <2> QED BY <1>1, <1>2, InductionUpTo
<1>4. n \in 0 .. n
    OBVIOUS
<1> QED BY <1>3, <1>4

-----------------------------------------------------------------------------
(* What a provider returns for a place.                                    *)

LEMMA PlaneIs ==
    /\ Bound \in Nat /\ Reach \in Nat /\ Span \in Nat /\ Limit \in Nat
    /\ Place \subseteq Int /\ IsFiniteSet(Place)
    /\ Sites \subseteq Place /\ IsFiniteSet(Sites)
    /\ \A c, r : Circle(c, r) \subseteq Place
<1>1. /\ Bound \in Nat /\ Reach \in Nat /\ Span \in Nat /\ Limit \in Nat
    BY DiscoveryConstants DEF Span
<1>2. IsFiniteSet(Place) /\ IsFiniteSet(Sites)
  <2>1. -Span \in Int /\ Span \in Int /\ -Bound \in Int /\ Bound \in Int
      BY <1>1
  <2> QED BY <2>1, FS_Interval DEF Place, Sites
<1>3. Place \subseteq Int /\ Sites \subseteq Place
    BY <1>1 DEF Place, Sites, Span
<1> QED BY <1>1, <1>2, <1>3 DEF Circle

Nearer(S, center) == {pq \in S \X S : Before(pq[1], pq[2], center)}

LEMMA NearerIsOrder ==
    ASSUME NEW S \in SUBSET Int, NEW center \in Int
    PROVE  StrictOrder(S, Nearer(S, center))
<1>1. ASSUME NEW x \in S PROVE <<x, x>> \notin Nearer(S, center)
    BY DEF Nearer, Before, Abs
<1>2. ASSUME NEW x \in S, NEW y \in S, NEW z \in S,
             <<x, y>> \in Nearer(S, center), <<y, z>> \in Nearer(S, center)
      PROVE  <<x, z>> \in Nearer(S, center)
  <2>1. Before(x, y, center) /\ Before(y, z, center)
      BY <1>2 DEF Nearer
  <2>2. \A p \in Int : Abs(p - center) \in Int
      BY DEF Abs
  <2>3. Before(x, z, center)
      BY <2>1, <2>2 DEF Before
  <2> QED BY <2>3 DEF Nearer
<1> QED BY <1>1, <1>2 DEF StrictOrder

LEMMA NearestIsFirst ==
    ASSUME NEW S, NEW center
    PROVE  Nearest(S, center) = FirstOf(S, Nearer(S, center), Limit)
<1>1. ASSUME NEW p \in S
      PROVE  {q \in S : Before(q, p, center)}
                = Preceding(S, Nearer(S, center), p)
    BY DEF Preceding, Nearer
<1> QED BY <1>1 DEF Nearest, FirstOf

LEMMA NearestKeeps ==
    ASSUME NEW S \in SUBSET Place, NEW center \in Int
    PROVE  /\ Nearest(S, center) \subseteq S
           /\ IsFiniteSet(S) /\ Cardinality(S) \in Nat
           /\ Cardinality(S) <= Limit => Nearest(S, center) = S
           /\ \A p \in S \ Nearest(S, center) : \A r \in Nearest(S, center) :
                 Abs(r - center) <= Abs(p - center)
<1>1. S \in SUBSET Int /\ IsFiniteSet(S) /\ Cardinality(S) \in Nat
    BY PlaneIs, FS_Subset, FS_CardinalityType
<1>2. StrictOrder(S, Nearer(S, center))
    BY <1>1, NearerIsOrder
<1>3. Limit \in Nat
    BY PlaneIs
<1>4. /\ Cardinality(S) <= Limit
           => FirstOf(S, Nearer(S, center), Limit) = S
      /\ \A p \in S \ FirstOf(S, Nearer(S, center), Limit) :
            \A r \in FirstOf(S, Nearer(S, center), Limit) :
               <<p, r>> \notin Nearer(S, center)
    BY <1>1, <1>2, <1>3, CutKeepsFirst
<1>5. Nearest(S, center) \subseteq S
    BY DEF Nearest
<1>6. ASSUME NEW p \in S \ Nearest(S, center), NEW r \in Nearest(S, center)
      PROVE  Abs(r - center) <= Abs(p - center)
  <2>1. p \in S /\ r \in S /\ <<p, r>> \notin Nearer(S, center)
      BY <1>4, <1>5, NearestIsFirst
  <2>2. ~Before(p, r, center)
      BY <2>1 DEF Nearer
  <2>3. p - center \in Int /\ r - center \in Int
      BY <2>1, <1>1
  <2>4. Abs(p - center) \in Int /\ Abs(r - center) \in Int
      BY <2>3 DEF Abs
  <2> QED BY <2>2, <2>4 DEF Before
<1> QED BY <1>1, <1>4, <1>5, <1>6, NearestIsFirst

LEMMA FoundIs ==
    \A poi, q : Found(poi, q) \in SUBSET Place
  BY PlaneIs DEF Found

(* The answer to a query, complete or with nothing nearer left out.        *)
Answers(e, q, poi) ==
    e.query = q /\ Honest(e, poi) /\ KeepsNearest(e, poi)

LEMMA LiveAnswers ==
    ASSUME NEW q, q.center \in Int PROVE Answers(Live(q), q, town.poi)
<1> DEFINE hits == Found(town.poi, q)
           at == Nearest(hits, q.center)
           cut == Cardinality(hits) > Limit
<1>1. hits \in SUBSET Place
    BY FoundIs
<1>2. /\ at \subseteq hits
      /\ ~cut => at = hits
      /\ \A p \in hits \ at : \A r \in at :
            Abs(r - q.center) <= Abs(p - q.center)
  <2> HIDE DEF hits
  <2>1. Limit \in Nat
      BY PlaneIs
  <2>2. /\ at \subseteq hits
        /\ Cardinality(hits) \in Nat
        /\ Cardinality(hits) <= Limit => at = hits
        /\ \A p \in hits \ at : \A r \in at :
              Abs(r - q.center) <= Abs(p - q.center)
      BY <1>1, NearestKeeps
  <2> HIDE DEF at
  <2> QED BY <2>1, <2>2
<1>3. Live(q) = Evidence(q, at, cut)
    BY DEF Live
<1> HIDE DEF at, cut
<1> QED BY <1>1, <1>2, <1>3
        DEF Answers, Honest, KeepsNearest, IsEvidence, Claims, Evidence

LEMMA InventedAnswers ==
    ASSUME NEW q, q.center \in Int
    PROVE  \A poi : Answers(Invented(q), q, poi)
<1> DEFINE hits == Found(Fixture, q)
           at == Nearest(hits, q.center)
           cut == Cardinality(hits) > Limit
<1>1. at \subseteq Place
  <2>1. hits \in SUBSET Place
      BY FoundIs
  <2> QED BY <2>1, NearestKeeps
<1>2. Invented(q) = [Evidence(q, at, cut)
                        EXCEPT !.synthetic = TRUE, !.fellBack = FellBack]
    BY DEF Invented
<1> HIDE DEF at, cut
<1> QED BY <1>1, <1>2
        DEF Answers, Honest, KeepsNearest, IsEvidence, Claims, Evidence

LEMMA RecoveredAnswers ==
    ASSUME NEW q, q.center \in Int
    PROVE  \A poi : Answers(Recovered(q), q, poi) /\ Recovered(q).stored
<1> DEFINE hits == Found(Persisted, q)
           at == Nearest(hits, q.center)
<1>1. at \subseteq Place
  <2>1. hits \in SUBSET Place
      BY FoundIs
  <2> QED BY <2>1, NearestKeeps
<1>2. Recovered(q) = [Evidence(q, at, FALSE) EXCEPT !.stored = TRUE]
    BY DEF Recovered
<1> HIDE DEF at
<1> QED BY <1>1, <1>2
        DEF Answers, Honest, KeepsNearest, IsEvidence, Claims, Evidence

LEMMA AnswerAnswers ==
    ASSUME NEW kind, NEW q, q.center \in Int
    PROVE  Answers(Answer(kind, q), q, town.poi)
<1>1. Answers(Unavailable(q), q, town.poi)
  <2> DEFINE e == Unavailable(q)
  <2> DEFINE at == {}
             cut == TRUE
  <2>0. e = [Evidence(q, at, cut) EXCEPT !.missing = TRUE]
      BY DEF Unavailable
  <2> HIDE DEF e
  <2>1. /\ e.query = q /\ e.at = at /\ e.truncated = cut /\ e.missing
        /\ IsEvidence(e)
    <3> HIDE DEF at, cut
    <3> QED BY <2>0 DEF Evidence, IsEvidence
  <2>2. Answers(e, q, town.poi)
      BY <2>1 DEF Answers, Honest, KeepsNearest, Claims
  <2> QED BY <2>2 DEF e
<1> QED BY <1>1, LiveAnswers, InventedAnswers, RecoveredAnswers DEF Answer

(* A bulk answer is cut once for all groups.                               *)
Sooner(hits) == {ab \in hits \X hits : BulkBefore(ab[1], ab[2])}

LEMMA SoonerIsOrder ==
    ASSUME NEW groups, NEW hits \in SUBSET (groups \X Place)
    PROVE  StrictOrder(hits, Sooner(hits))
<1>1. ASSUME NEW a \in hits PROVE a[2] \in Int /\ Abs(a[2]) \in Int
  <2>1. a[2] \in Place
      OBVIOUS
  <2>2. a[2] \in Int
      BY <2>1, PlaneIs
  <2> QED BY <2>2 DEF Abs
<1>2. ASSUME NEW x \in hits PROVE <<x, x>> \notin Sooner(hits)
    BY <1>1 DEF Sooner, BulkBefore
<1>3. ASSUME NEW x \in hits, NEW y \in hits, NEW z \in hits,
             <<x, y>> \in Sooner(hits), <<y, z>> \in Sooner(hits)
      PROVE  <<x, z>> \in Sooner(hits)
  <2>1. BulkBefore(x, y) /\ BulkBefore(y, z)
      BY <1>3 DEF Sooner
  <2>2. BulkBefore(x, z)
      BY <1>1, <2>1 DEF BulkBefore
  <2> QED BY <2>2 DEF Sooner
<1> QED BY <1>2, <1>3 DEF StrictOrder

LEMMA BulkAnswers ==
    ASSUME NEW poi, NEW groups, IsFiniteSet(groups), NEW radius \in Int,
           NEW g \in groups
    PROVE  Answers(Bulk(poi, groups, radius)[g], Query(g, 0, radius), poi)
<1> DEFINE q == Query(g, 0, radius)
           hits == BulkHits(poi, groups, radius)
           kept == {a \in hits :
                       Cardinality({b \in hits : BulkBefore(b, a)}) < Limit}
           at == {a[2] : a \in {b \in kept : b[1] = g}}
<1>1. hits \in SUBSET (groups \X Place)
    BY PlaneIs DEF BulkHits
<1>2. IsFiniteSet(hits)
    BY <1>1, PlaneIs, FS_Product, FS_Subset
<1>3. kept = FirstOf(hits, Sooner(hits), Limit)
  <2>1. ASSUME NEW a \in hits
        PROVE  {b \in hits : BulkBefore(b, a)} = Preceding(hits, Sooner(hits), a)
      BY DEF Preceding, Sooner
  <2> HIDE DEF hits
  <2> QED BY <2>1 DEF FirstOf
<1>4. \A a \in hits \ kept : \A b \in kept : ~BulkBefore(a, b)
  <2>1. \A a \in hits \ kept : \A b \in kept : <<a, b>> \notin Sooner(hits)
    <3>1. Limit \in Nat /\ StrictOrder(hits, Sooner(hits))
        BY <1>1, PlaneIs, SoonerIsOrder
    <3> HIDE DEF hits, kept
    <3> QED BY <1>2, <1>3, <3>1, CutKeepsFirst
  <2> QED BY <2>1 DEF Sooner
<1>5. \A p : p \in Found(poi, q) <=> <<g, p>> \in hits
    BY DEF Found, Query, BulkHits
<1>6. kept \subseteq hits
    OBVIOUS
<1>7. \A p : p \in at <=> <<g, p>> \in kept
  <2> HIDE DEF kept, hits
  <2>1. ASSUME NEW a \in kept, a[1] = g PROVE a = <<g, a[2]>>
    <3>1. a \in groups \X Place
        BY <1>1, <1>6
    <3> QED BY <2>1, <3>1
  <2>2. ASSUME NEW p \in at PROVE <<g, p>> \in kept
    <3>1. PICK a \in {b \in kept : b[1] = g} : p = a[2]
        OBVIOUS
    <3> QED BY <2>1, <3>1
  <2>3. ASSUME NEW p, <<g, p>> \in kept PROVE p \in at
    <3>1. <<g, p>> \in {b \in kept : b[1] = g} /\ <<g, p>>[2] = p
        BY <2>3
    <3> QED BY <3>1
  <2> HIDE DEF at
  <2> QED BY <2>2, <2>3
<1> HIDE DEF hits, kept, at
<1>8. at \subseteq Found(poi, q) /\ at \subseteq Place
    BY <1>5, <1>6, <1>7, FoundIs
<1>9. ASSUME NEW p \in Found(poi, q) \ at, NEW r \in at
      PROVE  Abs(r - q.center) <= Abs(p - q.center)
  <2>1. p \in Int /\ r \in Int
      BY <1>8, FoundIs, PlaneIs
  <2>2. ~BulkBefore(<<g, p>>, <<g, r>>)
      BY <1>4, <1>5, <1>7
  <2>3. Abs(p) \in Int /\ Abs(r) \in Int /\ q.center = 0
      BY <2>1 DEF Abs, Query
  <2>4. r - 0 = r /\ p - 0 = p
      BY <2>1
  <2> QED BY <2>2, <2>3, <2>4 DEF BulkBefore
<1>10. Bulk(poi, groups, radius)[g] = Evidence(q, at, hits # kept)
    BY DEF Bulk, hits, kept, at
<1>11. hits = kept => at = Found(poi, q)
    BY <1>5, <1>7, <1>8
<1> DEFINE e == Bulk(poi, groups, radius)[g]
           cut == hits # kept
<1>12. /\ e.query = q /\ e.at = at /\ e.truncated = cut /\ IsEvidence(e)
       /\ ~e.missing
  <2> HIDE DEF q, cut
  <2> QED BY <1>10 DEF Evidence, IsEvidence, cut
<1> HIDE DEF q, e
<1>13. Answers(e, q, poi)
    BY <1>8, <1>9, <1>11, <1>12 DEF Answers, Honest, KeepsNearest, Claims
<1> QED BY <1>13 DEF e, q

LEMMA BulkInventedAnswers ==
    ASSUME NEW groups, IsFiniteSet(groups), NEW radius \in Int, NEW g \in groups
    PROVE  \A poi : Answers(BulkInvented(groups, radius)[g],
                            Query(g, 0, radius), poi)
<1>1. Answers(Bulk(Fixture, groups, radius)[g], Query(g, 0, radius), Fixture)
    BY BulkAnswers
<1>2. BulkInvented(groups, radius)[g]
        = [Bulk(Fixture, groups, radius)[g]
              EXCEPT !.synthetic = TRUE, !.fellBack = FellBack]
    BY DEF BulkInvented
<1> QED BY <1>1, <1>2 DEF Answers, Honest, KeepsNearest, IsEvidence, Claims

LEMMA RealAnswers ==
    ASSUME NEW kind \in {"live", "stored"}, NEW q, q.center \in Int
    PROVE  /\ ~Answer(kind, q).synthetic /\ ~Answer(kind, q).missing
           /\ Answer(kind, q).stored <=> kind = "stored"
  BY DEF Answer, Live, Recovered, Evidence

(* A repaired group claims to be complete when the tiles, all of them      *)
(* live and uncut, cover the circle of the broad query.                    *)
LEMMA RepairIsHonest ==
    ASSUME NEW g, NEW kinds, market[g].query = ScopeQuery(g),
           Honest(market[g], town.poi)
    PROVE  /\ Repaired(g, kinds).query = ScopeQuery(g)
           /\ Honest(Repaired(g, kinds), town.poi)
<1> DEFINE broad == market[g]
           scope == ScopeQuery(g)
           a == Query(g, -Side, Side + Reach)
           b == Query(g, Side, Side + Reach)
           asked == RepairQueries(g)
           answered == {r \in asked : kinds[r] \in {"live", "stored"}}
           real == {Answer(kinds[q], q) : q \in answered}
           parts == real \cup (IF broad.synthetic THEN {} ELSE {broad})
           circle == Circle(broad.query.center, broad.query.radius)
           at == (UNION {e.at : e \in parts}) \cap circle
           cut == ~CoverageComplete(real, asked) \/ at = {}
           stored == \E e \in parts : e.stored
           made == Merged(broad, real, asked)
<1>1. Repaired(g, kinds) = IF real = {} THEN broad ELSE made
    BY Zenon DEF Repaired
<1>2. made = [Evidence(broad.query, at, cut) EXCEPT !.stored = stored]
    BY DEF Merged
<1>3. /\ Side \in Nat \ {0} /\ Reach \in Nat /\ Bound = Side + Side
      /\ Span = Bound + Reach
    BY DiscoveryConstants DEF Side, Span
<1>4. asked = {a, b} /\ a # b
  <2>1. a.center # b.center
      BY <1>3 DEF Query
  <2>2. asked = {a, b}
      BY DEF RepairQueries
  <2> HIDE DEF a, b
  <2> QED BY <2>1, <2>2
<1>5. /\ a.group = g /\ a.center = -Side /\ a.radius = Side + Reach
      /\ b.group = g /\ b.center = Side /\ b.radius = Side + Reach
      /\ scope.group = g /\ scope.center = 0 /\ scope.radius = Bound + Reach
    BY DEF Query, ScopeQuery
<1>6. broad.query = scope /\ Honest(broad, town.poi)
    OBVIOUS
<1>7. ASSUME NEW e \in real
      PROVE  \E q \in answered :
                /\ q \in {a, b} /\ e = Answer(kinds[q], q)
                /\ Answers(e, q, town.poi) /\ ~e.synthetic /\ ~e.missing
                /\ e.stored <=> kinds[q] = "stored"
  <2>1. PICK q \in answered : e = Answer(kinds[q], q)
      OBVIOUS
  <2>2. q \in {a, b} /\ kinds[q] \in {"live", "stored"}
      BY <1>4
  <2>3. q.center \in Int
      BY <1>3, <1>5, <2>2
  <2> HIDE DEF a, b, asked, answered
  <2> QED BY <2>1, <2>2, <2>3, AnswerAnswers, RealAnswers
<1> HIDE DEF a, b, scope, broad
<1>8. ASSUME NEW e \in parts
      PROVE  /\ e.at \subseteq Place
             /\ ~e.stored => e.at \subseteq town.poi[g]
  <2>1. CASE e = broad /\ ~broad.synthetic
      BY <1>5, <1>6, <2>1 DEF Honest, Found
  <2>2. CASE e \in real
    <3>1. PICK q \in {a, b} : Answers(e, q, town.poi) /\ ~e.synthetic
        BY <1>7, <2>2
    <3> QED BY <1>5, <3>1 DEF Answers, Honest, Found
  <2> QED BY <2>1, <2>2
<1>9. /\ made.query = scope /\ made.at = at /\ made.truncated = cut
      /\ made.stored = stored /\ ~made.synthetic /\ ~made.missing
      /\ IsEvidence(made)
  <2> HIDE DEF at, cut, stored, made
  <2> QED BY <1>2, <1>6 DEF Evidence, IsEvidence
<1>10. at \subseteq Place
  <2> HIDE DEF parts
  <2> QED BY <1>8
<1>11. ~stored => at \subseteq Found(town.poi, scope)
  <2> SUFFICES ASSUME ~stored, NEW p \in at PROVE p \in Found(town.poi, scope)
      OBVIOUS
  <2>1. PICK e \in parts : p \in e.at
      OBVIOUS
  <2>2. ~e.stored
      OBVIOUS
  <2>3. p \in town.poi[g] /\ p \in Circle(scope.center, scope.radius)
    <3>1. p \in circle
      <4> HIDE DEF parts, circle
      <4> QED OBVIOUS
    <3> HIDE DEF parts, at
    <3> QED BY <1>6, <1>8, <2>1, <2>2, <3>1
  <2> QED BY <1>5, <2>3 DEF Found
<1>12. ASSUME ~cut, ~stored
       PROVE  Found(town.poi, scope) \subseteq at
  <2>1. /\ Cardinality(real) = Cardinality(asked)
        /\ \A e \in real : ~e.truncated
      BY <1>12 DEF CoverageComplete
  <2>2. Cardinality(asked) = 2
    <3>1. IsFiniteSet({a}) /\ Cardinality({a}) = 1 /\ b \notin {a}
        BY <1>4, FS_Singleton
    <3>2. asked = {a} \cup {b}
        BY <1>4
    <3>3. Cardinality({a} \cup {b}) = Cardinality({a}) + 1
        BY <3>1, FS_AddElement
    <3> HIDE DEF asked
    <3> QED BY <3>1, <3>2, <3>3
  <2>3. ASSUME NEW q \in {a, b} PROVE q \in answered
    <3> SUFFICES ASSUME q \notin answered PROVE FALSE
        OBVIOUS
    <3>1. PICK r \in {a, b} : answered \subseteq {r}
        BY <1>4
    <3>2. real \subseteq {Answer(kinds[r], r)}
        BY <3>1
    <3>3. Cardinality(real) <= 1
      <4> DEFINE x == Answer(kinds[r], r)
      <4>1. IsFiniteSet({x}) /\ Cardinality({x}) = 1 /\ real \subseteq {x}
          BY <3>2, FS_Singleton
      <4> HIDE DEF real, x
      <4> QED BY <4>1, FS_Subset
    <3> QED BY <2>1, <2>2, <3>3
  <2>4. ASSUME NEW q \in {a, b}
        PROVE  Found(town.poi, q) \subseteq UNION {e.at : e \in parts}
    <3>1. q \in answered
        BY <2>3
    <3>2. Answer(kinds[q], q) \in real
        BY <3>1
    <3> DEFINE e == Answer(kinds[q], q)
    <3>3. /\ Answers(e, q, town.poi) /\ ~e.synthetic /\ ~e.missing
      <4>1. q.center \in Int /\ kinds[q] \in {"live", "stored"}
          BY <1>3, <1>5, <3>1
      <4> QED BY <4>1, AnswerAnswers, RealAnswers
    <3>4. ~e.stored /\ ~e.truncated /\ e \in parts
        BY <1>12, <2>1, <3>2
    <3> HIDE DEF e, parts
    <3>5. e.at = Found(town.poi, q)
        BY <3>3, <3>4 DEF Answers, Honest, Claims
    <3> QED BY <3>4, <3>5
  <2>5. ASSUME NEW p \in Found(town.poi, scope)
        PROVE  p \in at
    <3>1. /\ p \in town.poi[g] /\ p \in Place /\ p \in Int
          /\ p \in Circle(scope.center, scope.radius)
        BY <1>5, FoundIs, PlaneIs DEF Found
    <3>2. Abs(p - 0) <= Bound + Reach
        BY <1>5, <3>1 DEF Circle
    <3>3. Abs(p - (-Side)) <= Side + Reach \/ Abs(p - Side) <= Side + Reach
        BY <1>3, <3>1, <3>2 DEF Abs
    <3>4. \E q \in {a, b} : p \in Found(town.poi, q)
        BY <1>5, <3>1, <3>3 DEF Found, Circle
    <3>5. p \in UNION {e.at : e \in parts}
        BY <2>4, <3>4
    <3>6. p \in circle
        BY <1>6, <3>1
    <3> HIDE DEF parts, circle
    <3> QED BY <3>5, <3>6
  <2> QED BY <2>5
<1>13. made.query = scope /\ Honest(made, town.poi)
  <2> HIDE DEF at, cut, stored, made
  <2> QED BY <1>9, <1>10, <1>11, <1>12 DEF Honest, Claims
<1> HIDE DEF real, made
<1> QED BY <1>1, <1>6, <1>13 DEF scope, broad

-----------------------------------------------------------------------------
(* What an analysis makes of the snapshot.                                 *)

LEMMA FarthestKept ==
    ASSUME NEW at \in SUBSET Place, at # {}
    PROVE  \E r \in {Abs(p - 0) : p \in at} : \A p \in at : Abs(p - 0) <= r
<1> DEFINE T == {Span - Abs(p - 0) : p \in at}
<1>1. \A p \in at : p \in Int /\ Abs(p - 0) \in Nat /\ Abs(p - 0) <= Span
  <2>1. Span \in Nat
      BY PlaneIs
  <2> QED BY <2>1 DEF Place, Abs
<1>2. T \in SUBSET Nat /\ T # {}
  <2>1. Span \in Nat
      BY PlaneIs
  <2>2. ASSUME NEW p \in at PROVE Span - Abs(p - 0) \in Nat
      BY <1>1, <2>1
  <2>3. PICK p \in at : TRUE
      OBVIOUS
  <2>4. Span - Abs(p - 0) \in T
      BY <2>3
  <2> QED BY <2>2, <2>4
<1>3. PICK m \in T : \A k \in T : m <= k
  <2> HIDE DEF T
  <2> QED BY <1>2, LeastNatural
<1>4. PICK r \in at : m = Span - Abs(r - 0)
    BY <1>3
<1>5. ASSUME NEW p \in at PROVE Abs(p - 0) <= Abs(r - 0)
  <2>1. Span - Abs(p - 0) \in T
      OBVIOUS
  <2>2. m <= Span - Abs(p - 0)
      BY <1>3, <2>1
  <2>3. Abs(p - 0) \in Nat /\ Abs(r - 0) \in Nat /\ Span \in Nat
      BY <1>1, PlaneIs
  <2> HIDE DEF T
  <2> QED BY <1>4, <2>2, <2>3
<1> QED BY <1>5

(* A slice of a set never repaired is honest: when the set is truncated,   *)
(* the circle lies inside the radius up to which it kept every record.     *)
LEMMA SliceIsHonest ==
    ASSUME NEW q, q.center \in Int, q.radius \in Int, NEW error,
           snapshot.sets[q.group].query = ScopeQuery(q.group),
           Honest(snapshot.sets[q.group], town.poi)
    PROVE  /\ Slice(q, error).reused
           /\ KeepsNearest(snapshot.sets[q.group], town.poi)
                 => HasAll(Slice(q, error))
<1> DEFINE broad == snapshot.sets[q.group]
           scope == ScopeQuery(q.group)
           hits == broad.at \cap Circle(q.center, q.radius)
           kept == Nearest(hits, q.center)
           cut == \/ broad.truncated /\ ~TruncatedCovers(broad, q)
                  \/ hits # kept
           slice == Slice(q, error)
<1>1. slice = [broad EXCEPT !.query = q, !.at = kept, !.truncated = cut,
                            !.error = error, !.reused = TRUE]
    BY Zenon DEF Slice
<1>2. broad.query = scope /\ Honest(broad, town.poi)
    OBVIOUS
<1>3. /\ scope.group = q.group /\ scope.center = 0 /\ scope.radius = Span
      /\ Span = Bound + Reach /\ Span \in Nat /\ Limit \in Nat
    BY PlaneIs DEF scope, ScopeQuery, Query, Span
<1> HIDE DEF broad, scope
<1>4. /\ slice.query = q /\ slice.at = kept /\ slice.truncated = cut
      /\ slice.synthetic = broad.synthetic /\ slice.missing = broad.missing
      /\ slice.stored = broad.stored /\ slice.reused
  <2> HIDE DEF kept, cut, slice
  <2> QED BY <1>1, <1>2 DEF Honest, IsEvidence
<1>5. ASSUME KeepsNearest(broad, town.poi), Claims(slice)
      PROVE  slice.at = Found(town.poi, q)
  <2>1. /\ ~broad.synthetic /\ ~broad.missing /\ ~broad.stored /\ hits = kept
        /\ broad.truncated => TruncatedCovers(broad, q)
      BY <1>4, <1>5 DEF Claims
  <2>2. /\ broad.at \subseteq Found(town.poi, scope) /\ broad.at \subseteq Place
        /\ \A p \in Found(town.poi, scope) \ broad.at : \A r \in broad.at :
              Abs(r - 0) <= Abs(p - 0)
      BY <1>2, <1>3, <1>5, <2>1 DEF Honest, KeepsNearest
  <2>3. hits \subseteq Found(town.poi, q)
      BY <1>3, <2>2 DEF Found
  <2>4. ASSUME NEW p \in Found(town.poi, q) PROVE p \in broad.at
    <3>1. p \in Place /\ p \in Int
        BY FoundIs, PlaneIs
    <3>2. p \in Circle(0, Span)
        BY <1>3, <3>1 DEF Circle, Place, Abs
    <3>3. p \in Found(town.poi, scope) /\ p \in Circle(q.center, q.radius)
        BY <1>3, <3>2 DEF Found
    <3>4. CASE ~broad.truncated
        BY <1>2, <2>1, <3>3, <3>4 DEF Honest, Claims
    <3>5. CASE broad.truncated /\ p \notin broad.at
      <4>1. /\ Cardinality(broad.at) = Limit
            /\ Abs(0 - q.center) + q.radius < RetainedRadius(broad)
          BY <1>2, <1>3, <2>1, <3>5 DEF TruncatedCovers
      <4>2. broad.at # {}
          BY <4>1, FS_EmptySet, DiscoveryConstants
      <4>3. RetainedRadius(broad) \in {Abs(r - 0) : r \in broad.at}
        <5>1. \E r \in {Abs(s - 0) : s \in broad.at} :
                 \A s \in broad.at : Abs(s - 0) <= r
            BY <2>2, <4>2, FarthestKept
        <5> QED BY <1>2, <1>3, <5>1 DEF RetainedRadius
      <4>4. PICK r \in broad.at : RetainedRadius(broad) = Abs(r - 0)
          BY <4>3
      <4>5. Abs(r - 0) <= Abs(p - 0)
          BY <2>2, <3>3, <3>5
      <4>6. Abs(p - q.center) <= q.radius
          BY <3>3 DEF Circle
      <4>7. Abs(p - 0) <= Abs(0 - q.center) + q.radius
          BY <3>1, <4>6 DEF Abs
      <4>8. r \in Int
          BY <2>2, PlaneIs
      <4>9. Abs(p - 0) \in Int /\ Abs(r - 0) \in Int /\ Abs(0 - q.center) \in Int
          BY <3>1, <4>8 DEF Abs
      <4> QED BY <4>1, <4>4, <4>5, <4>7, <4>9
    <3> QED BY <3>4, <3>5
  <2>5. ASSUME NEW p \in Found(town.poi, q) PROVE p \in hits
      BY <2>4 DEF Found
  <2> HIDE DEF hits, kept
  <2> QED BY <1>4, <2>1, <2>3, <2>5
<1> HIDE DEF slice
<1> QED BY <1>4, <1>5 DEF HasAll, slice, broad

-----------------------------------------------------------------------------
(* Which queries are supplemented.                                         *)

(* Whole groups, of those an analysis is short of.                         *)
Whole(weak) ==
    {chosen \in SUBSET weak :
        \A q \in chosen : \A r \in weak : q.group = r.group => r \in chosen}

LEMMA AffordableIsWhole ==
    ASSUME NEW weak, IsFiniteSet(weak), NEW turn
    PROVE  Affordable(weak, turn) \in Whole(weak)
<1> DEFINE rest == weak \ Mandatory(weak)
           groups == {q.group : q \in rest}
           larger == InOrder(groups, {gh \in groups \X groups :
                                         Larger(weak, turn, gh[1], gh[2])})
           n == Cardinality(groups)
           S == 1 .. n
           D == Whole(weak)
           Add(chosen, g) ==
               IF Cardinality(chosen \cup Cohort(weak, g)) <= Left(weak)
               THEN chosen \cup Cohort(weak, g) ELSE chosen
           step == [p \in S \X D |-> Add(p[2], larger[p[1]])]
           Body(it) == [s \in SUBSET S |->
                          IF s = {} THEN {}
                          ELSE Add(it[s \ {Max(s)}], larger[Max(s)])]
           iter == CHOOSE it : it = Body(it)
<1>1. n \in Nat
  <2> DEFINE f == [q \in rest |-> q.group]
  <2>1. f \in Surjection(rest, groups)
      BY DEF Surjection
  <2>2. IsFiniteSet(rest)
      BY FS_Subset
  <2> HIDE DEF f, rest, groups
  <2> QED BY <2>1, <2>2, FS_Surjection, FS_CardinalityType
<1>2. DOMAIN larger = S
    BY DEF InOrder
<1>3. \A chosen \in D : \A g : Add(chosen, g) \in D
    BY DEF Whole, Cohort
<1>4. {} \in D
    BY DEF Whole
<1> HIDE DEF D
<1>5. IsStep(step, n, D)
  <2>1. step \in [S \X D -> D]
    <3> HIDE DEF Add, S, larger
    <3> QED BY <1>3
  <2> HIDE DEF step, n
  <2> QED BY <2>1 DEF IsStep
<1>6. PICK it : IsLeftFold(it, n, D, {}, step)
  <2> HIDE DEF step, n
  <2> QED BY <1>1, <1>4, <1>5, LeftFoldExists
<1>7. it = Body(it)
  <2>1. ASSUME NEW s \in SUBSET S, s # {}
        PROVE  step[<<Max(s), it[s \ {Max(s)}]>>]
                   = Add(it[s \ {Max(s)}], larger[Max(s)])
    <3>1. Max(s) \in S /\ it[s \ {Max(s)}] \in D
      <4> HIDE DEF step, n
      <4> QED BY <1>6, <2>1 DEF IsLeftFold
    <3> HIDE DEF Add, S, larger
    <3> QED BY <3>1
  <2>2. /\ DOMAIN it = SUBSET S
        /\ it = [s \in SUBSET S |-> it[s]]
        /\ \A s \in SUBSET S :
              it[s] = IF s = {} THEN {}
                      ELSE step[<<Max(s), it[s \ {Max(s)}]>>]
    <3> HIDE DEF step, n
    <3> QED BY <1>6 DEF IsLeftFold
  <2> HIDE DEF Add, S, larger, step
  <2> QED BY <2>1, <2>2
<1>8. iter = Body(iter)
  <2> HIDE DEF Body
  <2> QED BY <1>7
<1>9. Affordable(weak, turn) = iter[S]
    BY <1>2, Zenon DEF Affordable, FoldLeft, MapThenFoldSet
<1>10. iter[S] \in D
  <2>1. iter[{}] = {}
    <3> HIDE DEF iter, Add, larger, S
    <3> QED BY <1>8
  <2>2. Continues(iter, n, D, step)
    <3> SUFFICES ASSUME NEW s \in SUBSET S, s # {}, iter[s \ {Max(s)}] \in D
                 PROVE  iter[s] = step[<<Max(s), iter[s \ {Max(s)}]>>]
        BY DEF Continues
    <3>1. Max(s) \in S
      <4> HIDE DEF iter, step, n
      <4> QED BY <1>6 DEF IsLeftFold
    <3> HIDE DEF iter, Add, larger, S
    <3> QED BY <1>8, <3>1
  <2> HIDE DEF iter, step, n
  <2> DEFINE G == Nat \X D
  <2>3. <<0, {}>> \in G
      BY <1>4
  <2>4. Keeps(G, n, D, step)
      BY <1>1, <1>5 DEF Keeps, IsStep
  <2> HIDE DEF G
  <2> QED BY <1>1, <1>4, <1>5, <2>1, <2>2, <2>3, <2>4, LeftFoldIn
<1> QED BY <1>9, <1>10 DEF D

-----------------------------------------------------------------------------
(* The candidates that are selected.                                       *)

BetterPairs(sets, sites) ==
    {st \in sites \X sites : Better(sets, st[1], st[2])}

LEMMA BetterIsOrder ==
    ASSUME NEW sets, IsFiniteSet(DOMAIN sets), NEW sites \in SUBSET Int
    PROVE  /\ StrictOrder(sites, BetterPairs(sets, sites))
           /\ Total(sites, BetterPairs(sets, sites))
<1> DEFINE score(s) == MarketScore(sets, s)
<1>1. ASSUME NEW s PROVE score(s) \in Nat
  <2> DEFINE near == Circle(s, Reach)
             all == (DOMAIN sets) \X near
             seen == {gp \in all : gp[2] \in sets[gp[1]].at}
  <2>1. IsFiniteSet(near)
    <3>1. near \in SUBSET Place
        BY PlaneIs
    <3> QED BY <3>1, PlaneIs, FS_Subset
  <2>2. IsFiniteSet(all)
    <3> HIDE DEF near
    <3> QED BY <2>1, FS_Product
  <2>3. IsFiniteSet(seen)
    <3>1. seen \in SUBSET all
        OBVIOUS
    <3> HIDE DEF seen, all
    <3> QED BY <2>2, <3>1, FS_Subset
  <2>4. score(s) = Cardinality(seen)
      BY Zenon DEF MarketScore
  <2> HIDE DEF seen, score
  <2> QED BY <2>3, <2>4, FS_CardinalityType
<1>2. \A s, t : Better(sets, s, t)
                 <=> (score(s) > score(t) \/ (score(s) = score(t) /\ s < t))
    BY DEF Better
<1>3. \A s, t \in sites :
          <<s, t>> \in BetterPairs(sets, sites) <=> Better(sets, s, t)
    BY DEF BetterPairs
<1> HIDE DEF score
<1> QED BY <1>1, <1>2, <1>3 DEF StrictOrder, Total

(* What has been chosen of the first sites of a list.                      *)
Settled(k, chosen, list, sets) ==
    /\ Len(chosen) <= MaxCandidates
    /\ \A i \in DOMAIN chosen : \E j \in 1 .. k : chosen[i] = list[j]
    /\ \A i, j \in DOMAIN chosen : i < j =>
          /\ Abs(chosen[i] - chosen[j]) >= Separation
          /\ Better(sets, chosen[i], chosen[j])
    /\ \A j \in 1 .. k :
          \/ \E i \in DOMAIN chosen : chosen[i] = list[j]
          \/ Len(chosen) = MaxCandidates
          \/ \E i \in DOMAIN chosen :
                /\ Better(sets, chosen[i], list[j])
                /\ Abs(chosen[i] - list[j]) < Separation

LEMMA ChosenSettles ==
    ASSUME NEW sets, NEW sites \in SUBSET Int, IsFiniteSet(sites),
           NEW list, IsListed(list, sites, BetterPairs(sets, sites)),
           NEW k \in 1 .. Cardinality(sites), NEW chosen \in Seq(sites),
           Settled(k - 1, chosen, list, sets)
    PROVE  Settled(k, Chosen(chosen, list[k]), list, sets)
<1> DEFINE s == list[k]
<1>1. Cardinality(sites) \in Nat /\ k \in Nat
    BY FS_CardinalityType
<1>2. MaxCandidates \in Nat /\ Separation \in Nat
    BY DiscoveryConstants
<1>3. s \in sites /\ s \in Int
    BY DEF IsListed
<1>4. /\ Len(chosen) \in Nat /\ DOMAIN chosen = 1 .. Len(chosen)
      /\ \A i \in DOMAIN chosen : chosen[i] \in sites /\ chosen[i] \in Int
  <2>1. Len(chosen) \in Nat /\ DOMAIN chosen = 1 .. Len(chosen)
      BY LenProperties
  <2>2. \A i \in 1 .. Len(chosen) : chosen[i] \in sites
      BY ElementOfSeq
  <2> QED BY <2>1, <2>2
<1>5. ASSUME NEW j \in 1 .. k - 1
      PROVE  j \in 1 .. Cardinality(sites) /\ Better(sets, list[j], s)
  <2>1. j \in 1 .. Cardinality(sites) /\ j < k
      BY <1>1
  <2>2. <<list[j], list[k]>> \in BetterPairs(sets, sites)
      BY <2>1 DEF IsListed
  <2> QED BY <2>1, <2>2 DEF BetterPairs
<1>6. \A i \in DOMAIN chosen : Better(sets, chosen[i], s)
    BY <1>5 DEF Settled
<1>7. \A i \in DOMAIN chosen :
          /\ Abs(s - chosen[i]) = Abs(chosen[i] - s)
          /\ Abs(chosen[i] - s) \in Int
    BY <1>3, <1>4 DEF Abs
<1>8. \A j \in 1 .. k : j \in 1 .. k - 1 \/ j = k
    BY <1>1
<1>9. \A j \in 1 .. k - 1 : j \in 1 .. k
    BY <1>1
<1>10. k \in 1 .. k
    BY <1>1
<1>14. Len(chosen) <= MaxCandidates
    BY DEF Settled
<1> HIDE DEF s
<1>11. CASE Len(chosen) >= MaxCandidates
  <2>1. Chosen(chosen, s) = chosen /\ Len(chosen) = MaxCandidates
    <3>1. Chosen(chosen, s) = chosen
        BY <1>11, Zenon DEF Chosen
    <3>2. Len(chosen) \in Nat
        BY <1>4
    <3> QED BY <1>2, <1>11, <1>14, <3>1, <3>2
  <2>2. Settled(k, chosen, list, sets)
      BY <2>1, <1>9 DEF Settled
  <2> QED BY <2>1, <2>2 DEF s
<1>12. CASE TooClose(s, chosen)
  <2>1. Chosen(chosen, s) = chosen
      BY <1>12 DEF Chosen
  <2>2. PICK i \in DOMAIN chosen : Abs(chosen[i] - s) < Separation
      BY <1>7, <1>12 DEF TooClose
  <2>3. Settled(k, chosen, list, sets)
      BY <1>6, <1>8, <1>9, <2>2 DEF Settled, s
  <2> QED BY <2>1, <2>3 DEF s
<1>13. CASE ~(Len(chosen) >= MaxCandidates) /\ ~TooClose(s, chosen)
  <2> DEFINE longer == Append(chosen, s)
             n == Len(chosen)
  <2>1. Chosen(chosen, s) = longer
      BY <1>13 DEF Chosen
  <2>2. /\ Len(longer) = n + 1 /\ DOMAIN longer = 1 .. n + 1
        /\ longer[n + 1] = s
        /\ \A i \in 1 .. n : longer[i] = chosen[i]
      BY <1>3, <1>4
  <2>3. \A i \in 1 .. n + 1 : i \in 1 .. n \/ i = n + 1
      BY <1>4
  <2>4. Len(longer) <= MaxCandidates
      BY <1>2, <1>4, <1>13, <2>2
  <2> HIDE DEF longer
  <2>5. \A i \in DOMAIN longer : \E j \in 1 .. k : longer[i] = list[j]
      BY <1>4, <1>9, <1>10, <2>2, <2>3 DEF Settled, s
  <2>6. ASSUME NEW i \in DOMAIN longer, NEW j \in DOMAIN longer, i < j
        PROVE  /\ Abs(longer[i] - longer[j]) >= Separation
               /\ Better(sets, longer[i], longer[j])
    <3>1. i \in 1 .. n /\ n \in Nat
        BY <1>4, <2>2, <2>6
    <3>2. CASE j \in 1 .. n
        BY <1>4, <2>2, <2>6, <3>1, <3>2 DEF Settled
    <3>3. CASE j = n + 1
      <4>1. ~(Abs(s - chosen[i]) < Separation)
          BY <1>4, <1>13, <3>1 DEF TooClose
      <4>2. Abs(chosen[i] - s) >= Separation
          BY <1>2, <1>4, <1>7, <3>1, <4>1
      <4> QED BY <1>4, <1>6, <2>2, <3>1, <3>3, <4>2
    <3> QED BY <2>2, <2>3, <3>2, <3>3
  <2>7. ASSUME NEW j \in 1 .. k
        PROVE  \/ \E i \in DOMAIN longer : longer[i] = list[j]
               \/ Len(longer) = MaxCandidates
               \/ \E i \in DOMAIN longer :
                     /\ Better(sets, longer[i], list[j])
                     /\ Abs(longer[i] - list[j]) < Separation
    <3>1. CASE j = k
      <4>1. n + 1 \in DOMAIN longer
          BY <1>4, <2>2
      <4> QED BY <2>2, <3>1, <4>1 DEF s
    <3>2. CASE j \in 1 .. k - 1
      <4>1. \A i \in DOMAIN chosen : i \in DOMAIN longer /\ longer[i] = chosen[i]
          BY <1>4, <2>2
      <4>2. Len(chosen) # MaxCandidates
        <5>1. n \in Nat
            BY <1>4
        <5> QED BY <1>2, <1>13, <5>1
      <4> QED BY <3>2, <4>1, <4>2 DEF Settled
    <3> QED BY <1>8, <3>1, <3>2
  <2>8. Settled(k, longer, list, sets)
      BY <2>4, <2>5, <2>6, <2>7 DEF Settled
  <2> QED BY <2>1, <2>8 DEF s
<1> QED BY <1>11, <1>12, <1>13

LEMMA DiversifiedIsSpread ==
    ASSUME NEW sets, IsFiniteSet(DOMAIN sets), NEW sites \in SUBSET Int,
           IsFiniteSet(sites)
    PROVE  /\ Diversified(sets, sites) \in Seq(sites)
           /\ \E list :
                 /\ IsListed(list, sites, BetterPairs(sets, sites))
                 /\ Settled(Cardinality(sites), Diversified(sets, sites),
                            list, sets)
<1> DEFINE list == ByScore(sets, sites)
           n == Cardinality(sites)
           S == 1 .. n
           D == Seq(sites)
           step == [p \in S \X D |-> Chosen(p[2], list[p[1]])]
           Body(it) == [s \in SUBSET S |->
                          IF s = {} THEN <<>>
                          ELSE Chosen(it[s \ {Max(s)}], list[Max(s)])]
           iter == CHOOSE it : it = Body(it)
<1>1. n \in Nat
    BY FS_CardinalityType
<1>2. IsListed(list, sites, BetterPairs(sets, sites))
  <2>1. list = InOrder(sites, BetterPairs(sets, sites))
      BY DEF ByScore, BetterPairs
  <2> HIDE DEF list
  <2> QED BY <2>1, BetterIsOrder, InOrderLists
<1> HIDE DEF list
<1>3. DOMAIN list = S /\ \A k \in S : list[k] \in sites
    BY <1>2 DEF IsListed
<1>4. <<>> \in D /\ Len(<<>>) = 0 /\ DOMAIN <<>> = {}
    OBVIOUS
<1>5. \A chosen \in D : \A s \in sites : Chosen(chosen, s) \in D
    BY DEF Chosen
<1> HIDE DEF D
<1>6. IsStep(step, n, D)
  <2>1. step \in [S \X D -> D]
    <3> HIDE DEF S
    <3> QED BY <1>3, <1>5
  <2> HIDE DEF step, n
  <2> QED BY <2>1 DEF IsStep
<1>7. PICK it : IsLeftFold(it, n, D, <<>>, step)
  <2> HIDE DEF step, n
  <2> QED BY <1>1, <1>4, <1>6, LeftFoldExists
<1>8. it = Body(it)
  <2>1. ASSUME NEW s \in SUBSET S, s # {}
        PROVE  step[<<Max(s), it[s \ {Max(s)}]>>]
                   = Chosen(it[s \ {Max(s)}], list[Max(s)])
    <3>1. Max(s) \in S /\ it[s \ {Max(s)}] \in D
      <4> HIDE DEF step, n
      <4> QED BY <1>7, <2>1 DEF IsLeftFold
    <3> HIDE DEF S
    <3> QED BY <3>1
  <2>2. /\ it = [s \in SUBSET S |-> it[s]]
        /\ \A s \in SUBSET S :
              it[s] = IF s = {} THEN <<>>
                      ELSE step[<<Max(s), it[s \ {Max(s)}]>>]
    <3> HIDE DEF step, n
    <3> QED BY <1>7 DEF IsLeftFold
  <2> HIDE DEF S, step
  <2> QED BY <2>1, <2>2
<1>9. iter = Body(iter)
  <2> HIDE DEF Body
  <2> QED BY <1>8
<1>10. Diversified(sets, sites) = iter[S]
    BY <1>3, Zenon DEF Diversified, FoldLeft, MapThenFoldSet, list
<1> DEFINE G == {kc \in (0 .. n) \X D : Settled(kc[1], kc[2], list, sets)}
<1>11. iter[S] \in D /\ <<n, iter[S]>> \in G
  <2>1. iter[{}] = <<>>
    <3> HIDE DEF iter, S
    <3> QED BY <1>9
  <2>2. Continues(iter, n, D, step)
    <3> SUFFICES ASSUME NEW s \in SUBSET S, s # {}, iter[s \ {Max(s)}] \in D
                 PROVE  iter[s] = step[<<Max(s), iter[s \ {Max(s)}]>>]
        BY DEF Continues
    <3>1. Max(s) \in S
      <4> HIDE DEF iter, step, n
      <4> QED BY <1>7 DEF IsLeftFold
    <3> HIDE DEF iter, S
    <3> QED BY <1>9, <3>1
  <2>3. <<0, <<>>>> \in G
    <3>1. Settled(0, <<>>, list, sets)
        BY <1>4, DiscoveryConstants DEF Settled
    <3> HIDE DEF n
    <3> QED BY <1>1, <1>4, <3>1
  <2>4. Keeps(G, n, D, step)
    <3> SUFFICES ASSUME NEW k \in S, NEW d \in D, <<k - 1, d>> \in G
                 PROVE  <<k, step[<<k, d>>]>> \in G
        BY DEF Keeps
    <3>1. step[<<k, d>>] = Chosen(d, list[k])
        OBVIOUS
    <3>2. Settled(k - 1, d, list, sets)
        OBVIOUS
    <3>3. Settled(k, Chosen(d, list[k]), list, sets)
        BY <1>2, <3>2, ChosenSettles DEF D
    <3>4. Chosen(d, list[k]) \in D /\ k \in 0 .. n
      <4>1. list[k] \in sites
          BY <1>3
      <4>2. Chosen(d, list[k]) \in D
          BY <1>5, <4>1
      <4> HIDE DEF n
      <4> QED BY <1>1, <4>2
    <3> QED BY <3>1, <3>3, <3>4
  <2> HIDE DEF iter, step, n, G
  <2> QED BY <1>1, <1>4, <1>6, <2>1, <2>2, <2>3, <2>4, LeftFoldIn
<1>12. Settled(n, iter[S], list, sets)
  <2> HIDE DEF iter, n
  <2> QED BY <1>11
<1> HIDE DEF iter
<1> QED BY <1>2, <1>10, <1>11, <1>12 DEF D

(* The list that is selected: SelectedAreSpread.                           *)
LEMMA SelectionIsSpread ==
    ASSUME NEW sets, IsFiniteSet(DOMAIN sets), NEW sites \in SUBSET Int,
           IsFiniteSet(sites), NEW chosen, chosen = Diversified(sets, sites)
    PROVE  /\ Range(chosen) \subseteq sites
           /\ \A i, j \in DOMAIN chosen : i < j =>
                 /\ Abs(chosen[i] - chosen[j]) >= Separation
                 /\ Better(sets, chosen[i], chosen[j])
           /\ \A s \in sites \ Range(chosen) :
                 \/ Len(chosen) = MaxCandidates
                 \/ \E i \in DOMAIN chosen :
                       /\ Better(sets, chosen[i], s)
                       /\ Abs(chosen[i] - s) < Separation
<1>1. PICK list : /\ IsListed(list, sites, BetterPairs(sets, sites))
                  /\ Settled(Cardinality(sites), chosen, list, sets)
    BY DiversifiedIsSpread
<1>2. chosen \in Seq(sites)
    BY DiversifiedIsSpread
<1>3. Range(chosen) \subseteq sites
    BY <1>2 DEF Range
<1>4. ASSUME NEW s \in sites \ Range(chosen)
      PROVE  \/ Len(chosen) = MaxCandidates
             \/ \E i \in DOMAIN chosen :
                   /\ Better(sets, chosen[i], s)
                   /\ Abs(chosen[i] - s) < Separation
  <2>1. PICK j \in 1 .. Cardinality(sites) : list[j] = s
      BY <1>1 DEF IsListed
  <2>2. ~\E i \in DOMAIN chosen : chosen[i] = s
      BY DEF Range
  <2> QED BY <1>1, <2>1, <2>2 DEF Settled
<1> QED BY <1>1, <1>3, <1>4 DEF Settled

-----------------------------------------------------------------------------
(* Every step of the discovery keeps the invariant.                        *)

LEMMA ListIsFinite ==
    ASSUME NEW X, NEW list \in Seq(X) PROVE IsFiniteSet(Range(list))
<1>1. list \in [1 .. Len(list) -> X] /\ DOMAIN list = 1 .. Len(list)
      /\ Len(list) \in Nat
    BY LenProperties
<1>2. list \in Surjection(1 .. Len(list), Range(list))
    BY <1>1 DEF Surjection, Range
<1>3. IsFiniteSet(1 .. Len(list))
    BY <1>1, FS_Interval
<1> QED BY <1>2, <1>3, FS_Surjection

LEMMA ProfileIsFinite ==
    ASSUME ProgressHolds PROVE IsFiniteSet(Range(profile))
<1>1. Groups \in Seq(Range(Groups)) /\ LateGroups \in Seq(Range(LateGroups))
    BY DiscoveryConstants
<1>2. CASE profile = Groups
    BY <1>1, <1>2, ListIsFinite
<1>3. CASE profile = Groups \o LateGroups
  <2> DEFINE X == Range(Groups) \cup Range(LateGroups)
  <2>1. Groups \in Seq(X) /\ LateGroups \in Seq(X)
    <3>1. \A i \in 1 .. Len(Groups) : Groups[i] \in X
        BY <1>1, ElementOfSeq
    <3>2. \A i \in 1 .. Len(LateGroups) : LateGroups[i] \in X
        BY <1>1, ElementOfSeq
    <3> HIDE DEF X
    <3>3. /\ Len(Groups) \in Nat /\ DOMAIN Groups = 1 .. Len(Groups)
          /\ Groups = [i \in 1 .. Len(Groups) |-> Groups[i]]
        BY <1>1, LenProperties
    <3>4. /\ Len(LateGroups) \in Nat
          /\ LateGroups = [i \in 1 .. Len(LateGroups) |-> LateGroups[i]]
        BY <1>1, LenProperties
    <3>5. Groups \in [1 .. Len(Groups) -> X]
          /\ LateGroups \in [1 .. Len(LateGroups) -> X]
        BY <3>1, <3>2, <3>3, <3>4
    <3> QED BY <3>3, <3>4, <3>5, SeqDef
  <2> HIDE DEF X
  <2>2. profile \in Seq(X)
      BY <1>3, <2>1, ConcatProperties
  <2> QED BY <2>2, ListIsFinite
<1> QED BY <1>2, <1>3 DEF ProgressHolds

LEMMA DiscoveryInitHolds == Init => DiscoveryInv
<1> SUFFICES ASSUME Init PROVE DiscoveryInv
    OBVIOUS
<1>1. DOMAIN market = {} /\ DOMAIN analysis.evidence = {}
    BY DEF Init, NoAnalysis
<1>2. ProgressHolds
    BY DEF Init, ProgressHolds, MarketStages, GraphStages, Joined
<1>3. LandHolds
    BY DEF Init, LandHolds
<1>4. MarketHolds
    BY <1>1, FS_EmptySet DEF Init, MarketHolds
<1>5. AnalysisHolds
    BY <1>1 DEF Init, AnalysisHolds, NoSnapshot
<1>6. CompleteMeansAll
    BY <1>1 DEF Init, CompleteMeansAll, NoRange
<1>7. SlicesAreHonest /\ CohortsAreComparable
    BY <1>1 DEF SlicesAreHonest, CohortsAreComparable
<1> QED BY <1>2, <1>3, <1>4, <1>5, <1>6, <1>7 DEF DiscoveryInv

(* Nothing is reported before both branches are done.                      *)
LEMMA NothingYet ==
    ASSUME DiscoveryInv, phase.land # "done" \/ phase.market # "done"
    PROVE  /\ phase.graph \notin Joined /\ ~report
           /\ snapshot.state # "stored" /\ DOMAIN analysis.evidence = {}
  BY DEF DiscoveryInv, ProgressHolds, AnalysisHolds, Joined

(* An analysis stays as it was made.                                       *)
LEMMA AnalysisStays ==
    ASSUME DiscoveryInv, UNCHANGED <<analysis, town>>,
           tried' = tried \/ DOMAIN analysis.evidence = {}
    PROVE  SlicesAreHonest' /\ CohortsAreComparable'
<1>1. SlicesAreHonest'
    BY DEF DiscoveryInv, SlicesAreHonest, HasAll
<1>2. CohortsAreComparable'
    BY DEF DiscoveryInv, CohortsAreComparable
<1> QED BY <1>1, <1>2

LEMMA EvidenceStays ==
    ASSUME DiscoveryInv, UNCHANGED <<market, range, town>>
    PROVE  CompleteMeansAll'
  BY DEF DiscoveryInv, CompleteMeansAll

(* The land-use gate. *)

LEMMA ObservedIsInside == Observed \subseteq Sites
  BY DEF Observed, Parcels

LEMMA CadastreIs ==
    ASSUME LandHolds
    PROVE  /\ Eligible \subseteq Sites /\ town.land.proxies \subseteq Sites
           /\ RegisterUsable =>
                 \A s \in Eligible :
                    town.land.suits[s] \in {"allowed", "review_required"}
<1>1. /\ DOMAIN town.land.suits \cup town.land.proxies \subseteq Sites
      /\ Range(town.land.suits) \subseteq
            {"allowed", "review_required", "excluded", "invalid"}
    BY CadastresAssumption DEF LandHolds, Sites
<1>2. \A s \in DOMAIN town.land.suits :
          town.land.suits[s] \in Range(town.land.suits)
    BY DEF Range
<1> QED BY <1>1, <1>2 DEF Eligible, RegisterUsable

LEMMA GateStep ==
    ASSUME DiscoveryInv, LandUseGate PROVE DiscoveryInv'
<1>1. /\ GateOpen /\ GateRest
      /\ \/ GateRefuses
         \/ \E result : GateTo(result)
    BY DEF LandUseGate, FromRegister, RegisterRefused, FromObservation,
           FromProxies, FromGrid, NoLandLeft
<1>2. ASSUME phase'.land = "done"
      PROVE  /\ land'.pool \subseteq Sites
             /\ request.mode = "strict" => Formal(land')
             /\ Formal(land') =>
                   /\ town.land.layers = 1 /\ town.land.readable
                   /\ \A s \in land'.pool :
                         town.land.suits[s] \in {"allowed", "review_required"}
  <2>1. LandHolds /\ phase.land = "todo"
      BY <1>1 DEF DiscoveryInv, GateOpen
  <2>2. ASSUME GateRefuses PROVE FALSE
      BY <1>2, <2>2 DEF GateRefuses, DiscoveryInv, ProgressHolds
  <2>3. CASE FromRegister
      BY <2>1, <2>3, CadastreIs
         DEF FromRegister, GateTo, Pool, Formal, RegisterUsable
  <2>4. ASSUME NEW strategy \in Strategies \ {"registered_land"},
               NEW sites, sites \subseteq Sites, MayFallBack,
               GateTo(Pool(strategy, sites, sites))
        PROVE  /\ land'.pool \subseteq Sites
               /\ request.mode # "strict" /\ ~Formal(land')
      BY <2>4 DEF GateTo, Pool, Formal, MayFallBack
  <2>5. \/ FromRegister
        \/ \E strategy \in Strategies \ {"registered_land"} :
           \E sites \in SUBSET Sites :
              MayFallBack /\ GateTo(Pool(strategy, sites, sites))
    <3>1. CASE FromObservation
        BY <3>1, ObservedIsInside DEF FromObservation, Strategies
    <3>2. CASE FromProxies
        BY <2>1, <2>2, <3>2, CadastreIs DEF FromProxies, Strategies
    <3>3. CASE FromGrid
        BY <3>3 DEF FromGrid, Strategies
    <3>4. ~RegisterRefused /\ ~NoLandLeft
        BY <2>2 DEF RegisterRefused, NoLandLeft
    <3> QED BY <3>1, <3>2, <3>3, <3>4 DEF LandUseGate
  <2> QED BY <2>3, <2>4, <2>5
<1>3. /\ phase' \in [land : {"done", "blocked"}, market : MarketStages,
                     graph : GraphStages]
      /\ phase'.market = phase.market /\ phase'.graph = phase.graph
    BY <1>1 DEF DiscoveryInv, ProgressHolds, GateTo, GateRefuses
<1>4. phase.land = "todo"
    BY <1>1 DEF GateOpen
<1>5. phase.graph \notin Joined /\ ~report
    BY <1>4, NothingYet
<1>6. ProgressHolds'
    BY <1>1, <1>3, <1>5 DEF DiscoveryInv, ProgressHolds, GateRest, Joined
<1>7. LandHolds'
    BY <1>1, <1>2 DEF DiscoveryInv, LandHolds, GateRest, Formal
<1>8. MarketHolds'
    BY <1>1, <1>3 DEF DiscoveryInv, MarketHolds, GateRest
<1>9. AnalysisHolds'
    BY <1>1, <1>3 DEF DiscoveryInv, AnalysisHolds, GateRest
<1>10. UNCHANGED <<market, range, town, analysis, tried>>
    BY <1>1 DEF GateRest
<1> QED BY <1>6, <1>7, <1>8, <1>9, <1>10, EvidenceStays, AnalysisStays
        DEF DiscoveryInv

(* The market evidence. *)

(* What the steps before the join have in common.                          *)
LEMMA MarketFrame ==
    ASSUME DiscoveryInv, MarketRest, NEW stage \in MarketStages,
           phase.market # "done", MarketTo(stage),
           tried' = tried \/ phase.market = "broad", MarketHolds', CompleteMeansAll'
    PROVE  DiscoveryInv'
<1>1. /\ phase.graph \notin Joined /\ ~report
      /\ snapshot.state # "stored" /\ DOMAIN analysis.evidence = {}
    BY NothingYet
<1>2. /\ phase' \in [land : {"todo", "done", "blocked"},
                     market : MarketStages, graph : GraphStages]
      /\ phase'.land = phase.land /\ phase'.graph = phase.graph
    BY DEF MarketTo, DiscoveryInv, ProgressHolds
<1>3. ProgressHolds'
    BY <1>1, <1>2 DEF DiscoveryInv, ProgressHolds, MarketRest, Joined
<1>4. LandHolds'
    BY <1>2 DEF DiscoveryInv, LandHolds, MarketRest, Formal
<1>5. AnalysisHolds'
    BY <1>1, <1>2 DEF DiscoveryInv, AnalysisHolds, MarketRest
<1>6. SlicesAreHonest' /\ CohortsAreComparable'
    BY <1>1, AnalysisStays DEF MarketRest
<1> QED BY <1>3, <1>4, <1>5, <1>6 DEF DiscoveryInv

LEMMA ScopeIs ==
    \A g : /\ ScopeQuery(g) = Query(g, 0, Span) /\ ScopeQuery(g).center \in Int
           /\ ScopeQuery(g).group = g
  BY DEF ScopeQuery, Query, Span

(* Sets that answer the broad queries are evidence.                        *)
LEMMA BroadStep ==
    ASSUME DiscoveryInv, ScoringRest, phase.market = "todo",
           MarketTo("broad"), UNCHANGED tried, IsFiniteSet(DOMAIN market'),
           \A g \in DOMAIN market' :
              Answers(market'[g], ScopeQuery(g), town.poi)
    PROVE  DiscoveryInv'
<1>1. phase'.market = "broad"
    BY DEF MarketTo, DiscoveryInv, ProgressHolds
<1>2. MarketHolds'
    BY <1>1 DEF Answers, DiscoveryInv, MarketHolds, ScoringRest, MarketRest
<1>3. CompleteMeansAll'
  <2>1. range' = NoRange
      BY DEF DiscoveryInv, MarketHolds, ScoringRest
  <2>2. \A g \in DOMAIN market' :
           Claims(market'[g]) => market'[g].at = Found(town.poi, ScopeQuery(g))
      BY DEF Answers, Honest
  <2> QED BY <2>1, <2>2 DEF CompleteMeansAll, NoRange, ScoringRest, MarketRest
<1> QED BY <1>2, <1>3, MarketFrame DEF ScoringRest, MarketStages

(* The evidence stays as it is.                                            *)
LEMMA StageStep ==
    ASSUME DiscoveryInv, ScoringRest, phase.market \in {"todo", "broad"},
           NEW stage \in {"blocked", "scored"}, MarketTo(stage),
           UNCHANGED <<market, tried>>
    PROVE  DiscoveryInv'
<1>1. phase'.market = stage
    BY DEF MarketTo, DiscoveryInv, ProgressHolds
<1>2. MarketHolds'
    BY <1>1 DEF DiscoveryInv, MarketHolds, ScoringRest, MarketRest
<1>3. CompleteMeansAll'
    BY EvidenceStays DEF ScoringRest, MarketRest
<1> QED BY <1>2, <1>3, MarketFrame DEF ScoringRest, MarketStages

LEMMA LoadBulkStep ==
    ASSUME DiscoveryInv, LoadBulk PROVE DiscoveryInv'
<1>1. phase.market = "todo" /\ UNCHANGED tried /\ ScoringRest
    BY DEF LoadBulk
<1>2. IsFiniteSet(Range(profile)) /\ Span \in Int
    BY ProfileIsFinite, PlaneIs DEF DiscoveryInv
<1>3. CASE market' = Bulk(town.poi, Range(profile), Span) /\ MarketTo("broad")
  <2>1. DOMAIN market' = Range(profile)
      BY <1>3 DEF Bulk
  <2>2. \A g \in Range(profile) : Answers(market'[g], ScopeQuery(g), town.poi)
      BY <1>2, <1>3, BulkAnswers, ScopeIs
  <2> QED BY <1>1, <1>2, <1>3, <2>1, <2>2, BroadStep
<1>4. CASE market' = BulkInvented(Range(profile), Span) /\ MarketTo("broad")
  <2>1. DOMAIN market' = Range(profile)
      BY <1>4 DEF BulkInvented
  <2>2. \A g \in Range(profile) : Answers(market'[g], ScopeQuery(g), town.poi)
      BY <1>2, <1>4, BulkInventedAnswers, ScopeIs
  <2> QED BY <1>1, <1>2, <1>4, <2>1, <2>2, BroadStep
<1>5. CASE UNCHANGED market /\ MarketTo("blocked")
    BY <1>1, <1>5, StageStep
<1> QED BY <1>3, <1>4, <1>5 DEF LoadBulk, BulkSets

LEMMA LoadBalancedStep ==
    ASSUME DiscoveryInv, LoadBalanced PROVE DiscoveryInv'
<1>1. phase.market = "todo" /\ UNCHANGED tried /\ ScoringRest
    BY DEF LoadBalanced
<1>2. PICK kinds :
          IF \E g \in Range(profile) : kinds[g] = "malformed"
          THEN UNCHANGED market /\ MarketTo("blocked")
          ELSE /\ market' = [g \in Range(profile) |->
                               Answer(kinds[g], ScopeQuery(g))]
               /\ MarketTo("broad")
    BY DEF LoadBalanced
<1>3. CASE UNCHANGED market /\ MarketTo("blocked")
    BY <1>1, <1>3, StageStep
<1>4. CASE /\ market' = [g \in Range(profile) |->
                           Answer(kinds[g], ScopeQuery(g))]
           /\ MarketTo("broad")
  <2>1. IsFiniteSet(DOMAIN market') /\ DOMAIN market' = Range(profile)
      BY <1>4, ProfileIsFinite DEF DiscoveryInv
  <2>2. ASSUME NEW g \in Range(profile)
        PROVE  Answers(market'[g], ScopeQuery(g), town.poi)
    <3>1. ScopeQuery(g).center \in Int
        BY ScopeIs
    <3>2. market'[g] = Answer(kinds[g], ScopeQuery(g))
        BY <1>4
    <3> QED BY <3>1, <3>2, AnswerAnswers
  <2> QED BY <1>1, <1>4, <2>1, <2>2, BroadStep
<1> QED BY <1>2, <1>3, <1>4

LEMMA RepairStep ==
    ASSUME DiscoveryInv, Repair PROVE DiscoveryInv'
<1>1. /\ phase.market = "broad" /\ ScoringRest /\ MarketTo("scored")
      /\ tried' = WeakGroups
    BY DEF Repair
<1>2. PICK kinds :
          market' = [g \in DOMAIN market |->
                       IF g \in WeakGroups THEN Repaired(g, kinds)
                                           ELSE market[g]]
    BY DEF Repair
<1>3. /\ DOMAIN market' = DOMAIN market /\ IsFiniteSet(DOMAIN market)
      /\ tried = {} /\ range = NoRange
    BY <1>1, <1>2 DEF DiscoveryInv, MarketHolds
<1>4. ASSUME NEW g \in DOMAIN market
      PROVE  /\ market'[g].query = ScopeQuery(g)
             /\ Honest(market'[g], town.poi)
             /\ g \notin tried' => KeepsNearest(market'[g], town.poi)
  <2>1. /\ market[g].query = ScopeQuery(g) /\ Honest(market[g], town.poi)
        /\ KeepsNearest(market[g], town.poi)
      BY <1>3 DEF DiscoveryInv, MarketHolds
  <2>2. market'[g] = IF g \in WeakGroups THEN Repaired(g, kinds) ELSE market[g]
      BY <1>2
  <2> QED BY <1>1, <2>1, <2>2, RepairIsHonest
<1>5. phase'.market = "scored"
    BY <1>1 DEF MarketTo, DiscoveryInv, ProgressHolds
<1>6. MarketHolds'
    BY <1>1, <1>3, <1>4, <1>5
       DEF MarketHolds, DiscoveryInv, ScoringRest, MarketRest
<1>7. CompleteMeansAll'
  <2>1. \A g \in DOMAIN market' :
           Claims(market'[g]) => market'[g].at = Found(town.poi, ScopeQuery(g))
      BY <1>3, <1>4 DEF Honest
  <2>2. range' = NoRange
      BY <1>1, <1>3 DEF ScoringRest
  <2> QED BY <1>1, <2>1, <2>2
          DEF CompleteMeansAll, NoRange, ScoringRest, MarketRest
<1> QED BY <1>1, <1>6, <1>7, MarketFrame DEF ScoringRest, MarketStages

(* A context set is an answer, or left out.                                *)
LEMMA ContextAnswers ==
    ASSUME NEW sets \in ContextSets
    PROVE  \A b \in DOMAIN sets : Answers(sets[b], Query(b, 0, Bound), town.poi)
<1>1. IsFiniteSet(Range(Context)) /\ Bound \in Int
  <2>1. Context \in Seq(Range(Context))
      BY DiscoveryConstants
  <2> QED BY <2>1, ListIsFinite, PlaneIs
<1>2. CASE sets = Bulk(town.poi, Range(Context), Bound)
  <2>1. DOMAIN sets = Range(Context)
      BY <1>2 DEF Bulk
  <2> QED BY <1>1, <1>2, <2>1, BulkAnswers
<1>3. CASE sets = BulkInvented(Range(Context), Bound)
  <2>1. DOMAIN sets = Range(Context)
      BY <1>3 DEF BulkInvented
  <2> QED BY <1>1, <1>3, <2>1, BulkInventedAnswers
<1>4. CASE sets = <<>>
    BY <1>4
<1>5. CASE \E kinds : sets = Batches(kinds)
  <2>1. PICK kinds : sets = Batches(kinds)
      BY <1>5
  <2>2. ASSUME NEW b \in DOMAIN sets
        PROVE  Answers(sets[b], Query(b, 0, Bound), town.poi)
    <3>1. sets[b] = Answer(kinds[b], Query(b, 0, Bound))
        BY <2>1 DEF Batches, ContextQuery
    <3>2. Query(b, 0, Bound).center \in Int
        BY DEF Query
    <3> QED BY <3>1, <3>2, AnswerAnswers
  <2> QED BY <2>2
<1>6. \/ sets \in BulkSets(Range(Context), Bound) \/ sets = <<>>
      \/ \E kinds : sets = Batches(kinds)
    BY Zenon DEF ContextSets
<1> QED BY <1>2, <1>3, <1>4, <1>5, <1>6 DEF BulkSets

LEMMA LoadContextStep ==
    ASSUME DiscoveryInv, LoadContext PROVE DiscoveryInv'
<1>1. /\ phase.market = "scored" /\ MarketTo("done") /\ MarketRest
      /\ UNCHANGED <<market, tried>>
    BY DEF LoadContext
<1>2. PICK sets \in ContextSets : range' = RangeLayer(WithMarket(sets))
    BY DEF LoadContext
<1> DEFINE all == WithMarket(sets)
<1>3. /\ DOMAIN all = DOMAIN market \cup DOMAIN sets
      /\ \A g \in DOMAIN market : all[g] = market[g]
      /\ \A g \in (DOMAIN sets) \ DOMAIN market : all[g] = sets[g]
    BY DEF WithMarket
<1> HIDE DEF all
<1>4. ASSUME NEW g \in DOMAIN all
      PROVE  /\ Honest(all[g], town.poi)
             /\ Found(town.poi, Query(g, 0, Bound))
                   \subseteq Found(town.poi, all[g].query)
  <2>1. CASE g \in DOMAIN market
    <3>1. /\ all[g].query = ScopeQuery(g) /\ Honest(all[g], town.poi)
        BY <1>3, <2>1 DEF DiscoveryInv, MarketHolds
    <3>2. Bound \in Nat /\ Reach \in Nat /\ Place \subseteq Int
        BY PlaneIs
    <3>3. Circle(0, Bound) \subseteq Circle(0, Bound + Reach)
      <4> SUFFICES ASSUME NEW p \in Place, Abs(p - 0) <= Bound
                   PROVE  Abs(p - 0) <= Bound + Reach
          BY DEF Circle
      <4>1. p \in Int
          BY <3>2
      <4> QED BY <3>2, <4>1 DEF Abs
    <3> QED BY <3>1, <3>3 DEF Found, Query, ScopeQuery
  <2>2. CASE g \in (DOMAIN sets) \ DOMAIN market
      BY <1>3, <2>2, ContextAnswers DEF Answers
  <2> QED BY <1>3, <2>1, <2>2
<1>5. ASSUME range'.real, ~range'.truncated, range'.lost = {},
             NEW g \in DOMAIN market \cup Range(Context),
             NEW p \in Found(town.poi, Query(g, 0, Bound))
      PROVE  <<g, p, FALSE>> \in range'.at
  <2> DEFINE seen == UNION {{<<h, r, all[h].synthetic>> :
                               r \in all[h].at \cap Sites} : h \in DOMAIN all}
  <2>1. /\ \A h \in DOMAIN all : ~all[h].synthetic /\ ~all[h].stored
        /\ \A h \in DOMAIN all : ~all[h].truncated
        /\ range'.at = seen /\ Range(Context) \ DOMAIN all = {}
      BY <1>2, <1>5 DEF RangeLayer, all
  <2> HIDE DEF seen
  <2>2. g \in DOMAIN all
      BY <1>3, <2>1
  <2>3. Claims(all[g])
      BY <1>4, <2>1, <2>2 DEF Honest, Claims
  <2>4. p \in all[g].at
      BY <1>4, <2>2, <2>3 DEF Honest
  <2>5. p \in Sites
    <3>1. /\ Bound \in Nat /\ p \in Int
        BY FoundIs, PlaneIs
    <3> QED BY <3>1 DEF Found, Circle, Query, Sites, Abs
  <2>6. all[g].synthetic = FALSE
    <3>1. IsEvidence(all[g]) /\ ~all[g].synthetic
        BY <1>4, <2>1, <2>2 DEF Honest
    <3> QED BY <3>1
  <2>7. <<g, p, FALSE>> \in seen
    <3> DEFINE shown == {<<g, r, all[g].synthetic>> : r \in all[g].at \cap Sites}
    <3>1. <<g, p, FALSE>> \in shown
        BY <2>4, <2>5, <2>6
    <3>2. shown \subseteq seen
      <4> HIDE DEF all
      <4> QED BY <2>2, Zenon DEF seen
    <3> QED BY <3>1, <3>2
  <2> QED BY <2>1, <2>7
<1>6. phase'.market = "done"
    BY <1>1 DEF MarketTo, DiscoveryInv, ProgressHolds
<1>7. MarketHolds'
    BY <1>1, <1>6 DEF MarketHolds, DiscoveryInv, MarketRest
<1>8. CompleteMeansAll'
    BY <1>1, <1>5 DEF CompleteMeansAll, DiscoveryInv, MarketRest
<1> QED BY <1>1, <1>7, <1>8, MarketFrame DEF MarketStages

(* The join and what follows it. *)

LEMMA RankStep ==
    ASSUME DiscoveryInv, RankDiversify PROVE DiscoveryInv'
<1>1. /\ phase.land = "done" /\ phase.market = "done"
      /\ ranked' = Diversified(market, land.pool)
      /\ UNCHANGED <<request, town, profile, land, market, tried, range,
                     report, snapshot, analysis>>
    BY DEF RankDiversify
<1>2. /\ phase' \in [land : {"todo", "done", "blocked"},
                     market : MarketStages, graph : GraphStages]
      /\ phase'.land = phase.land /\ phase'.market = phase.market
      /\ phase'.graph = "review" /\ phase.graph = "gather"
    BY DEF RankDiversify, DiscoveryInv, ProgressHolds, GraphStages
<1>3. ~report /\ snapshot.state # "stored"
    BY <1>2 DEF DiscoveryInv, ProgressHolds, AnalysisHolds, Joined
<1>4. ProgressHolds'
    BY <1>1, <1>2, <1>3 DEF DiscoveryInv, ProgressHolds
<1>5. LandHolds' /\ MarketHolds'
    BY <1>1, <1>2 DEF DiscoveryInv, LandHolds, MarketHolds, Formal
<1>6. AnalysisHolds'
    BY <1>1, <1>3 DEF DiscoveryInv, AnalysisHolds
<1> QED BY <1>1, <1>4, <1>5, <1>6, EvidenceStays, AnalysisStays
        DEF DiscoveryInv

LEMMA BlockedStep ==
    ASSUME DiscoveryInv, DiscoveryBlocked PROVE DiscoveryInv'
<1>1. UNCHANGED <<request, town, profile, land, market, tried, range, ranked,
                  report, snapshot, analysis>>
    BY DEF DiscoveryBlocked
<1>2. /\ phase' \in [land : {"todo", "done", "blocked"},
                     market : MarketStages, graph : GraphStages]
      /\ phase'.land = phase.land /\ phase'.market = phase.market
      /\ phase'.graph = "blocked" /\ phase.graph = "gather"
    BY DEF DiscoveryBlocked, DiscoveryInv, ProgressHolds, GraphStages
<1>3. ~report /\ snapshot.state # "stored"
    BY <1>2 DEF DiscoveryInv, ProgressHolds, AnalysisHolds, Joined
<1>4. ProgressHolds'
    BY <1>1, <1>2, <1>3 DEF DiscoveryInv, ProgressHolds, Joined
<1>5. LandHolds' /\ MarketHolds'
    BY <1>1, <1>2 DEF DiscoveryInv, LandHolds, MarketHolds, Formal
<1>6. AnalysisHolds'
    BY <1>1, <1>3 DEF DiscoveryInv, AnalysisHolds
<1> QED BY <1>1, <1>4, <1>5, <1>6, EvidenceStays, AnalysisStays
        DEF DiscoveryInv

LEMMA SaveStep ==
    ASSUME DiscoveryInv, SaveSnapshot PROVE DiscoveryInv'
<1>1. UNCHANGED <<request, town, profile, land, market, tried, range, ranked,
                  report, analysis>>
    BY DEF SaveSnapshot
<1>2. /\ phase' \in [land : {"todo", "done", "blocked"},
                     market : MarketStages, graph : GraphStages]
      /\ phase'.land = phase.land /\ phase'.market = phase.market
      /\ phase.graph = "review"
    BY DEF SaveSnapshot, DiscoveryInv, ProgressHolds, GraphStages
<1>3. ~report /\ snapshot.state # "stored"
    BY <1>2 DEF DiscoveryInv, ProgressHolds, AnalysisHolds
<1>4. \/ phase'.graph = "saved" /\ snapshot'.sets = market
      \/ phase'.graph = "blocked" /\ UNCHANGED snapshot
    BY DEF SaveSnapshot, DiscoveryInv, ProgressHolds
<1>5. ProgressHolds'
    BY <1>1, <1>2, <1>3, <1>4 DEF DiscoveryInv, ProgressHolds, Joined
<1>6. LandHolds' /\ MarketHolds'
    BY <1>1, <1>2 DEF DiscoveryInv, LandHolds, MarketHolds, Formal
<1>7. snapshot'.state = "stored" =>
          phase'.graph \in {"saved", "reported"} /\ snapshot'.sets = market'
    BY <1>1, <1>3, <1>4
<1>8. AnalysisHolds'
    BY <1>1, <1>3, <1>7 DEF DiscoveryInv, AnalysisHolds
<1> QED BY <1>1, <1>5, <1>6, <1>8, EvidenceStays, AnalysisStays
        DEF DiscoveryInv

LEMMA AssembleStep ==
    ASSUME DiscoveryInv, AssembleReport PROVE DiscoveryInv'
<1>1. /\ UNCHANGED <<request, town, profile, land, market, tried, range, ranked,
                     snapshot, analysis>>
      /\ report' = TRUE
    BY DEF AssembleReport
<1>2. /\ phase' \in [land : {"todo", "done", "blocked"},
                     market : MarketStages, graph : GraphStages]
      /\ phase'.land = phase.land /\ phase'.market = phase.market
      /\ phase'.graph = "reported" /\ phase.graph = "saved"
    BY DEF AssembleReport, DiscoveryInv, ProgressHolds, GraphStages
<1>3. ProgressHolds'
    BY <1>1, <1>2 DEF DiscoveryInv, ProgressHolds, Joined
<1>4. LandHolds' /\ MarketHolds'
    BY <1>1, <1>2 DEF DiscoveryInv, LandHolds, MarketHolds, Formal
<1>5. AnalysisHolds'
    BY <1>1, <1>2 DEF DiscoveryInv, AnalysisHolds
<1> QED BY <1>1, <1>3, <1>4, <1>5, EvidenceStays, AnalysisStays
        DEF DiscoveryInv

LEMMA ExpireStep ==
    ASSUME DiscoveryInv, Expire PROVE DiscoveryInv'
<1>1. /\ UNCHANGED <<request, town, profile, land, market, phase, tried, range,
                     ranked, report, analysis>>
      /\ snapshot'.state = "expired"
    BY DEF Expire, NoSnapshot
<1>2. ProgressHolds'
    BY <1>1 DEF DiscoveryInv, ProgressHolds
<1>3. LandHolds' /\ MarketHolds'
    BY <1>1 DEF DiscoveryInv, LandHolds, MarketHolds, Formal
<1>4. AnalysisHolds'
    BY <1>1 DEF DiscoveryInv, AnalysisHolds
<1> QED BY <1>1, <1>2, <1>3, <1>4, EvidenceStays, AnalysisStays
        DEF DiscoveryInv

LEMMA DeployStep ==
    ASSUME DiscoveryInv, Deploy PROVE DiscoveryInv'
<1>1. /\ UNCHANGED <<request, town, land, market, phase, tried, range, ranked,
                     report, snapshot, analysis>>
      /\ profile' = Groups \o LateGroups
    BY DEF Deploy
<1>2. ProgressHolds'
    BY <1>1 DEF DiscoveryInv, ProgressHolds
<1>3. LandHolds' /\ MarketHolds'
    BY <1>1 DEF DiscoveryInv, LandHolds, MarketHolds, Formal
<1>4. AnalysisHolds'
    BY <1>1 DEF DiscoveryInv, AnalysisHolds
<1> QED BY <1>1, <1>2, <1>3, <1>4, EvidenceStays, AnalysisStays
        DEF DiscoveryInv

(* The analysis. *)

LEMMA QueriesAre ==
    ASSUME ProgressHolds, NEW sites \in SUBSET Sites
    PROVE  /\ IsFiniteSet(LocalQueries(sites))
           /\ \A q \in LocalQueries(sites) :
                 q.center \in Int /\ q.radius \in Int
<1> DEFINE pairs == Range(profile) \X sites
           f == [gs \in pairs |-> Query(gs[1], gs[2], Reach)]
<1>1. IsFiniteSet(pairs)
    BY ProfileIsFinite, PlaneIs, FS_Subset, FS_Product
<1>2. f \in Surjection(pairs, LocalQueries(sites))
  <2>1. \A g \in Range(profile) : \A s \in sites :
           <<g, s>> \in pairs /\ f[<<g, s>>] = Query(g, s, Reach)
      OBVIOUS
  <2>2. \A gs \in pairs : f[gs] \in LocalQueries(sites)
      BY DEF LocalQueries
  <2>3. f \in [pairs -> LocalQueries(sites)]
      BY <2>2
  <2> HIDE DEF f, pairs
  <2>4. ASSUME NEW q \in LocalQueries(sites)
        PROVE  \E gs \in pairs : f[gs] = q
    <3>1. PICK g \in Range(profile), s \in sites : q = Query(g, s, Reach)
        BY DEF LocalQueries
    <3> QED BY <2>1, <3>1
  <2> QED BY <2>3, <2>4 DEF Surjection
<1>3. IsFiniteSet(LocalQueries(sites))
  <2> HIDE DEF f, pairs
  <2> QED BY <1>1, <1>2, FS_Surjection
<1>4. ASSUME NEW q \in LocalQueries(sites)
      PROVE  q.center \in Int /\ q.radius \in Int
  <2>1. PICK g \in Range(profile), s \in sites : q = Query(g, s, Reach)
      BY DEF LocalQueries
  <2>2. s \in Int /\ Reach \in Int
      BY PlaneIs
  <2> QED BY <2>1, <2>2 DEF Query
<1> QED BY <1>3, <1>4

LEMMA SelectedIs ==
    ASSUME NEW weak, IsFiniteSet(weak), NEW turn
    PROVE  /\ Selected(weak, turn) \subseteq weak
           /\ \A q \in weak : ~InSnapshot(q) => q \in Selected(weak, turn)
           /\ \A q \in weak : \A r \in Selected(weak, turn) :
                 q.group = r.group => q \in Selected(weak, turn)
<1>1. Affordable(weak, turn) \in Whole(weak)
    BY AffordableIsWhole
<1>2. \A q : q \in Mandatory(weak) <=> q \in weak /\ ~InSnapshot(q)
    BY DEF Mandatory
<1>3. \A q, r : q.group = r.group => (InSnapshot(q) <=> InSnapshot(r))
    BY DEF InSnapshot
<1> QED BY <1>1, <1>2, <1>3 DEF Selected, Whole

(* What the snapshot has of a group was never worse than its broad set.    *)
LEMMA SnapshotSlice ==
    ASSUME DiscoveryInv, snapshot.state = "stored", NEW q, InSnapshot(q),
           q.center \in Int, q.radius \in Int, NEW error
    PROVE  /\ Slice(q, error).reused
           /\ q.group \notin tried => HasAll(Slice(q, error))
<1>1. snapshot.sets = market /\ q.group \in DOMAIN market
    BY DEF DiscoveryInv, AnalysisHolds, InSnapshot
<1>2. /\ market[q.group].query = ScopeQuery(q.group)
      /\ Honest(market[q.group], town.poi)
      /\ q.group \notin tried => KeepsNearest(market[q.group], town.poi)
    BY <1>1 DEF DiscoveryInv, MarketHolds
<1> QED BY <1>1, <1>2, SliceIsHonest

LEMMA SupplementIsHonest ==
    ASSUME DiscoveryInv, snapshot.state = "stored", NEW q, NEW kind,
           q.center \in Int, q.radius \in Int, q.group \notin tried
    PROVE  HasAll(Supplemented(q, kind))
<1>1. CASE kind \in {"live", "stored"}
  <2>1. Answers(Answer(kind, q), q, town.poi)
      BY AnswerAnswers
  <2> QED BY <1>1, <2>1 DEF Supplemented, Answers, Honest, HasAll
<1>2. CASE kind \notin {"live", "stored"} /\ InSnapshot(q)
    BY <1>2, SnapshotSlice DEF Supplemented
<1>3. CASE kind \notin {"live", "stored"} /\ ~InSnapshot(q)
  <2>1. Supplemented(q, kind) = [Invented(q) EXCEPT !.error = "failed"]
      BY <1>3 DEF Supplemented
  <2>2. Supplemented(q, kind).synthetic
      BY <2>1 DEF Invented, Evidence
  <2> QED BY <2>2 DEF HasAll, Claims
<1> QED BY <1>1, <1>2, <1>3

LEMMA AnalyseStep ==
    ASSUME DiscoveryInv, Analyse PROVE DiscoveryInv'
<1>1. /\ UNCHANGED <<request, town, profile, land, market, phase, tried, range,
                     ranked, report, snapshot>>
      /\ report
    BY DEF Analyse
<1>2. ProgressHolds' /\ LandHolds' /\ MarketHolds' /\ AnalysisHolds'
    BY <1>1 DEF DiscoveryInv, ProgressHolds, LandHolds, MarketHolds,
                AnalysisHolds, Formal
<1>3. CompleteMeansAll'
    BY <1>1, EvidenceStays
<1>4. CASE analysis'.evidence = <<>>
    BY <1>1, <1>2, <1>3, <1>4
       DEF DiscoveryInv, SlicesAreHonest, CohortsAreComparable
<1>5. ASSUME NEW sites \in SUBSET Sites, AnalysisRuns(sites)
      PROVE  \/ analysis'.evidence = <<>>
             \/ SlicesAreHonest' /\ CohortsAreComparable'
  <2> DEFINE asked == LocalQueries(sites)
             weak == {q \in asked : NeedsSupplement(q)}
  <2>1. snapshot.state = "stored"
      BY <1>5 DEF AnalysisRuns
  <2> DEFINE Given(live, kinds) ==
                IF \E q \in live : kinds[q] = "raised" /\ ~InSnapshot(q)
                THEN [NoAnalysis EXCEPT !.state = "blocked", !.sites = sites]
                ELSE [state |-> "done", sites |-> sites,
                      refused |-> weak \ live,
                      evidence |-> [q \in asked |->
                           IF q \in live THEN Supplemented(q, kinds[q])
                           ELSE Slice(q, IF q \in weak THEN "budget"
                                                       ELSE "none")]]
  <2>2. \E live \in {Selected(weak, turn) : turn \in Orders(sites)} :
           \E kinds \in
              [live -> {"live", "stored", "fixture", "raised"}] :
              analysis' = Given(live, kinds)
      BY <1>5, Zenon DEF AnalysisRuns
  <2>3. PICK turn, live, kinds :
           live = Selected(weak, turn) /\ analysis' = Given(live, kinds)
    <3> HIDE DEF Given, weak
    <3> QED BY <2>2
  <2>4. CASE analysis' = [NoAnalysis EXCEPT !.state = "blocked", !.sites = sites]
      BY <2>4 DEF NoAnalysis
  <2>5. CASE analysis' = [state |-> "done", sites |-> sites,
                          refused |-> weak \ live,
                          evidence |-> [q \in asked |->
                             IF q \in live THEN Supplemented(q, kinds[q])
                             ELSE Slice(q, IF q \in weak THEN "budget"
                                                         ELSE "none")]]
    <3> DEFINE given == analysis'.evidence
    <3>1. /\ DOMAIN given = asked /\ analysis'.refused = weak \ live
          /\ \A q \in asked : q \in live => given[q] = Supplemented(q, kinds[q])
          /\ \A q \in asked : q \notin live =>
                \E error : given[q] = Slice(q, error)
        BY <2>5
    <3>2. /\ IsFiniteSet(weak)
          /\ \A q \in asked : q.center \in Int /\ q.radius \in Int
        BY QueriesAre, FS_Subset DEF DiscoveryInv
    <3>3. \A q \in asked : ~InSnapshot(q) => q \in weak
        BY DEF NeedsSupplement
    <3> HIDE DEF weak, asked, given
    <3>4. /\ live \subseteq weak
          /\ \A q \in weak : ~InSnapshot(q) => q \in live
          /\ \A q \in weak : \A r \in live : q.group = r.group => q \in live
        BY <2>3, <3>2, SelectedIs
    <3>5. ASSUME NEW q \in asked, q \notin live
          PROVE  /\ given[q].reused
                 /\ q.group \notin tried => HasAll(given[q])
      <4>1. PICK error : given[q] = Slice(q, error)
          BY <3>1, <3>5
      <4>2. InSnapshot(q)
          BY <3>3, <3>4, <3>5
      <4> QED BY <2>1, <3>2, <4>1, <4>2, SnapshotSlice
    <3>6. ASSUME NEW q \in asked, q.group \notin tried
          PROVE  HasAll(given[q])
      <4>1. CASE q \in live
          BY <2>1, <3>1, <3>2, <3>6, <4>1, SupplementIsHonest
      <4> QED BY <3>5, <3>6, <4>1
    <3>7. SlicesAreHonest'
        BY <1>1, <3>1, <3>6 DEF SlicesAreHonest, HasAll, given
    <3>8. ASSUME NEW q \in asked, NEW r \in asked, q.group = r.group,
                 q \in analysis'.refused
          PROVE  given[r].reused
      <4>1. q \in weak /\ q \notin live
          BY <3>1, <3>8
      <4>2. r \notin live
          BY <3>4, <3>8, <4>1
      <4> QED BY <3>5, <4>2
    <3>9. CohortsAreComparable'
        BY <3>1, <3>8 DEF CohortsAreComparable, given
    <3> QED BY <3>7, <3>9
  <2> QED BY <2>3, <2>4, <2>5
<1>6. ASSUME NEW sites, AnalysisRefused(sites)
      PROVE  analysis'.evidence = <<>>
    BY <1>6 DEF AnalysisRefused, NoAnalysis
<1>7. \E sites \in SUBSET Sites : AnalysisRefused(sites) \/ AnalysisRuns(sites)
    BY DEF Analyse
<1> QED BY <1>2, <1>3, <1>4, <1>5, <1>6, <1>7 DEF DiscoveryInv

(* The inductive invariant.                                                *)
THEOREM DiscoveryInvariant == Spec => []DiscoveryInv
<1>1. DiscoveryInv /\ [Next]_vars => DiscoveryInv'
  <2> SUFFICES ASSUME DiscoveryInv, [Next]_vars PROVE DiscoveryInv'
      OBVIOUS
  <2>1. CASE LandUseGate
      BY <2>1, GateStep
  <2>2. CASE MarketEvidence
    <3>1. CASE NoMarket \/ SkipRepair
        BY <3>1, StageStep DEF NoMarket, SkipRepair
    <3> QED BY <2>2, <3>1, LoadBulkStep, LoadBalancedStep, RepairStep,
               LoadContextStep DEF MarketEvidence
  <2>3. CASE RankDiversify \/ DiscoveryBlocked \/ SaveSnapshot \/ AssembleReport
      BY <2>3, RankStep, BlockedStep, SaveStep, AssembleStep
  <2>4. CASE Expire \/ Deploy \/ Analyse
      BY <2>4, ExpireStep, DeployStep, AnalyseStep
  <2>5. CASE UNCHANGED vars
    <3>1. UNCHANGED <<request, town, profile, land, market, phase, tried, range,
                      ranked, report, snapshot, analysis>>
        BY <2>5 DEF vars
    <3>2. ProgressHolds' /\ LandHolds' /\ MarketHolds' /\ AnalysisHolds'
        BY <3>1 DEF DiscoveryInv, ProgressHolds, LandHolds, MarketHolds,
                    AnalysisHolds, Formal
    <3> QED BY <3>1, <3>2, EvidenceStays, AnalysisStays DEF DiscoveryInv
  <2> QED BY <2>1, <2>2, <2>3, <2>4, <2>5 DEF Next
<1> QED BY <1>1, DiscoveryInitHolds, PTL DEF Spec

-----------------------------------------------------------------------------
(* What a discovery promises, and the analysis of what it found.           *)

\* Ranked candidates stand apart from each other, the better one first, and a
\* site left out is too close to a better one or the list is full
\* (`_rank_and_diversify` of candidate_discovery.py).
THEOREM SelectionCorrect == Spec => []SelectedAreSpread
<1>1. DiscoveryInv => SelectedAreSpread
  <2> SUFFICES ASSUME DiscoveryInv, phase.graph \in Joined
               PROVE  /\ \A i, j \in DOMAIN ranked : i < j =>
                            /\ Abs(ranked[i] - ranked[j]) >= Separation
                            /\ Better(market, ranked[i], ranked[j])
                      /\ \A s \in land.pool \ Range(ranked) :
                            \/ Len(ranked) = MaxCandidates
                            \/ \E i \in DOMAIN ranked :
                                  /\ Better(market, ranked[i], s)
                                  /\ Abs(ranked[i] - s) < Separation
      BY DEF SelectedAreSpread, Joined
  <2>1. ranked = Diversified(market, land.pool) /\ phase.land = "done"
      BY DEF DiscoveryInv, ProgressHolds
  <2>2. land.pool \in SUBSET Sites
      BY <2>1 DEF DiscoveryInv, LandHolds
  <2>3. land.pool \in SUBSET Int /\ IsFiniteSet(land.pool)
      BY <2>2, PlaneIs, FS_Subset
  <2>4. IsFiniteSet(DOMAIN market)
      BY DEF DiscoveryInv, MarketHolds
  <2> QED BY <2>1, <2>3, <2>4, SelectionIsSpread
<1> QED BY <1>1, DiscoveryInvariant, PTL

\* A report that allows formal analysis lists parcels of the one readable
\* registered layer which are not excluded, and strict mode reports nothing else
\* (`_load_candidate_pool`).
THEOREM FormalCorrect == Spec => []FormalNeedsRegister
<1>1. DiscoveryInv => FormalNeedsRegister
  <2> SUFFICES ASSUME DiscoveryInv, report
               PROVE  /\ request.mode = "strict" => Formal(land)
                      /\ Formal(land) =>
                            /\ town.land.layers = 1 /\ town.land.readable
                            /\ \A s \in Range(ranked) : town.land.suits[s]
                                  \in {"allowed", "review_required"}
      BY DEF FormalNeedsRegister
  <2>1. ranked = Diversified(market, land.pool) /\ phase.land = "done"
      BY DEF DiscoveryInv, ProgressHolds, Joined
  <2>2. land.pool \in SUBSET Sites
      BY <2>1 DEF DiscoveryInv, LandHolds
  <2>3. land.pool \in SUBSET Int /\ IsFiniteSet(land.pool)
      BY <2>2, PlaneIs, FS_Subset
  <2>4. IsFiniteSet(DOMAIN market)
      BY DEF DiscoveryInv, MarketHolds
  <2>5. Range(ranked) \subseteq land.pool
      BY <2>1, <2>3, <2>4, SelectionIsSpread
  <2> QED BY <2>1, <2>5 DEF DiscoveryInv, LandHolds
<1> QED BY <1>1, DiscoveryInvariant, PTL

\* Scoring evidence that claims to be real and complete holds every POI within
\* reach of the bounds, repaired or not, and a real range layer that is not marked
\* and lost no batch shows every POI within the bounds
\* (`_merge_repaired_scoring_group`, `_load_market_evidence`).
THEOREM EvidenceCorrect == Spec => []CompleteMeansAll
<1>1. DiscoveryInv => CompleteMeansAll
    BY DEF DiscoveryInv
<1> QED BY <1>1, DiscoveryInvariant, PTL

\* Evidence of an analysis that claims to be real and complete holds every POI of
\* its circle when its group was never repaired, a slice of the nearest records or
\* a supplement (`_truncated_snapshot_covers_query` of evidence_snapshot.py).
THEOREM SlicesCorrect == Spec => []SlicesAreHonest
<1>1. DiscoveryInv => SlicesAreHonest
    BY DEF DiscoveryInv
<1> QED BY <1>1, DiscoveryInvariant, PTL

\* Two candidates that both need a supplement for a group are treated alike: both
\* are asked or both are refused for the budget (`search_many`).
THEOREM CohortsCorrect == Spec => []CohortsAreComparable
<1>1. DiscoveryInv => CohortsAreComparable
    BY DEF DiscoveryInv
<1> QED BY <1>1, DiscoveryInvariant, PTL

=============================================================================
