-------------------------- MODULE AttemptLogProofs --------------------------
(***************************************************************************)
(* What the attempt log promises, for any tasks of a document, any workers *)
(* and crashes: types in general; and where one task of the document runs  *)
(* at a time, that the list matches the rows, has one entry per try and    *)
(* loses nothing. The first lemmas say what the writes do to any list.     *)
(***************************************************************************)
EXTENDS AttemptLog, TaskLifecycleProofs, FiniteSetTheorems, SequenceTheorems

-----------------------------------------------------------------------------
(* Lists of entries. `Of` and `Latest` are EntriesOf and Outcome of any list. *)

Of(list, u) == {i \in DOMAIN list : list[i].task = u}
Top(list, u) == {j \in Of(list, u) : \A k \in Of(list, u) : k <= j}
Latest(list, u) == {list[i].status : i \in Top(list, u)}

(* What a list says of task u.                                             *)
Told(list, u) == <<Cardinality(Of(list, u)), Latest(list, u)>>

(* Entries are what Entry makes.                                           *)
LEMMA EntryType ==
  ASSUME NEW t \in Tasks, NEW status \in {"pending"} \cup Terminal
  PROVE  /\ Entry(t, status) \in Entries
         /\ Entry(t, status).task = t /\ Entry(t, status).status = status
  BY DEF Entry, Entries

(* An entry with the task and the status of another is that entry.         *)
LEMMA EntryIsPair ==
  ASSUME NEW e \in Entries
  PROVE  e = Entry(e.task, e.status)
  BY DEF Entry, Entries

(* The positions of a task are finitely many.                              *)
LEMMA OfIsFinite ==
  ASSUME NEW list \in Seq(Entries), NEW u
  PROVE  IsFiniteSet(Of(list, u)) /\ Cardinality(Of(list, u)) \in Nat
<1>1. Of(list, u) \subseteq 1..Len(list) /\ Len(list) \in Nat
  BY DEF Of
<1>2. IsFiniteSet(1..Len(list))
  BY <1>1, FS_Interval
<1> QED
  BY <1>1, <1>2, FS_Subset, FS_CardinalityType

(* Two lists with the same entries of u in the same places tell the same   *)
(* of it.                                                                  *)
LEMMA SameTold ==
  ASSUME NEW L, NEW M, NEW u, Of(M, u) = Of(L, u), \A i \in Of(L, u) : M[i].status = L[i].status
  PROVE  Told(M, u) = Told(L, u)
<1>1. Top(M, u) = Top(L, u) /\ Top(L, u) \subseteq Of(L, u)
  BY DEF Top
<1>2. Latest(M, u) = Latest(L, u)
  BY <1>1 DEF Latest
<1> QED
  BY <1>2 DEF Told

(* The live entry of a task, if it has one, is its last.                   *)
LEMMA LiveIsLast ==
  ASSUME NEW list \in Seq(Entries), NEW t, NEW i \in Live(list, t)
  PROVE  /\ i \in Of(list, t) /\ \A k \in Of(list, t) : k <= i
         /\ list[i].status = "pending"
         /\ Live(list, t) = {i}
<1>1. /\ i \in DOMAIN list /\ list[i] = Entry(t, "pending")
      /\ \A j \in DOMAIN list : j > i => list[j].task # t
  BY DEF Live
<1>2. DOMAIN list \subseteq Nat
  OBVIOUS
<1>3. i \in Of(list, t) /\ \A k \in Of(list, t) : k <= i
  BY <1>1, <1>2 DEF Of, Entry
<1>4. ASSUME NEW j \in Live(list, t) PROVE j = i
  <2>1. j \in Of(list, t) /\ \A k \in DOMAIN list : k > j => list[k].task # t
    BY DEF Live, Of, Entry
  <2> QED
    BY <1>2, <1>3, <2>1 DEF Of
<1> QED
  BY <1>1, <1>3, <1>4 DEF Entry

(* A task whose last entry is pending has a live one, a task whose last    *)
(* entry is terminal, or which has none, does not.                         *)
LEMMA LiveByOutcome ==
  ASSUME NEW list \in Seq(Entries), NEW t
  PROVE  /\ Latest(list, t) = {"pending"} => Live(list, t) # {}
         /\ Live(list, t) # {} => "pending" \in Latest(list, t)
<1>1. ASSUME Latest(list, t) = {"pending"} PROVE Live(list, t) # {}
  <2>1. PICK i \in Of(list, t) : (\A k \in Of(list, t) : k <= i) /\ list[i].status = "pending"
    BY <1>1 DEF Latest, Top
  <2>2. i \in DOMAIN list /\ list[i] \in Entries /\ list[i].task = t
    BY <2>1 DEF Of
  <2>3. list[i] = Entry(t, "pending")
    BY <2>1, <2>2, EntryIsPair
  <2>4. \A j \in DOMAIN list : j > i => list[j].task # t
    BY <2>1, <2>2 DEF Of
  <2> QED
    BY <2>2, <2>3, <2>4 DEF Live
<1>2. ASSUME Live(list, t) # {} PROVE "pending" \in Latest(list, t)
  <2>1. PICK i : i \in Live(list, t)
    BY <1>2
  <2> QED
    BY <2>1, LiveIsLast DEF Latest, Top
<1> QED
  BY <1>1, <1>2

-----------------------------------------------------------------------------
(* What the writes do to a list.                                           *)

(* An outcome is an entry more, or takes the place of one.                 *)
LEMMA UpsertType ==
  ASSUME NEW stored \in Seq(Entries), NEW base \in Seq(Entries), NEW t \in Tasks,
         NEW status \in {"pending"} \cup Terminal
  PROVE  /\ Upserted(stored, base, t, status) \in Seq(Entries)
         /\ \A i \in DOMAIN Upserted(stored, base, t, status) :
              \/ Upserted(stored, base, t, status)[i].task = t
              \/ i \in DOMAIN stored /\ Upserted(stored, base, t, status)[i] = stored[i]
              \/ i \in DOMAIN base /\ Upserted(stored, base, t, status)[i] = base[i]
<1>1. Entry(t, status) \in Entries /\ Entry(t, status).task = t
  BY EntryType
<1>2. CASE Live(base, t) = {}
  <2>1. Upserted(stored, base, t, status) = Append(stored, Entry(t, status))
    BY <1>2 DEF Upserted
  <2> QED
    BY <1>1, <2>1
<1>3. CASE Live(base, t) # {}
  <2> DEFINE new == [i \in DOMAIN base |->
                       IF i \in Live(base, t) THEN Entry(t, status) ELSE base[i]]
  <2>1. Upserted(stored, base, t, status) = new
    BY <1>3 DEF Upserted
  <2>2. /\ DOMAIN base = 1..Len(base) /\ Len(base) \in Nat
        /\ \A i \in 1..Len(base) : base[i] \in Entries
    OBVIOUS
  <2>3. new \in [1..Len(base) -> Entries]
    BY <1>1, <2>2
  <2>4. new \in Seq(Entries)
    BY <2>2, <2>3, SeqDef
  <2> QED
    BY <1>1, <2>1, <2>2, <2>4
<1> QED
  BY <1>2, <1>3

(* The entries of other tasks stay what and where they are.                *)
LEMMA UpsertOther ==
  ASSUME NEW L \in Seq(Entries), NEW t \in Tasks, NEW status \in {"pending"} \cup Terminal,
         NEW u, u # t
  PROVE  Told(Upserted(L, L, t, status), u) = Told(L, u)
<1> DEFINE M == Upserted(L, L, t, status)
<1>1. Entry(t, status) \in Entries /\ Entry(t, status).task = t
  BY EntryType
<1>2. Of(M, u) = Of(L, u) /\ \A i \in Of(L, u) : M[i].status = L[i].status
  <2>1. CASE Live(L, t) = {}
    <3>1. M = Append(L, Entry(t, status))
      BY <2>1 DEF Upserted
    <3>2. DOMAIN M = 1..(Len(L) + 1) /\ DOMAIN L = 1..Len(L) /\ Len(L) \in Nat
          /\ M[Len(L) + 1].task = t /\ \A i \in DOMAIN L : M[i] = L[i]
      BY <1>1, <3>1
    <3> QED
      BY <3>2 DEF Of
  <2>2. CASE Live(L, t) # {}
    <3>1. M = [i \in DOMAIN L |-> IF i \in Live(L, t) THEN Entry(t, status) ELSE L[i]]
      BY <2>2 DEF Upserted
    <3>2. \A i \in Live(L, t) : L[i].task = t
      BY DEF Live, Entry
    <3>3. /\ DOMAIN M = DOMAIN L
          /\ \A i \in DOMAIN L : IF i \in Live(L, t) THEN M[i].task = t ELSE M[i] = L[i]
      BY <1>1, <3>1
    <3> HIDE DEF M
    <3> QED
      BY <3>2, <3>3 DEF Of
  <2> QED
    BY <2>1, <2>2
<1> HIDE DEF M
<1>3. Told(M, u) = Told(L, u)
  BY <1>2, SameTold
<1> QED
  BY <1>3 DEF M

(* The outcome of a live entry replaces it, any other is one entry more.   *)
LEMMA UpsertOwn ==
  ASSUME NEW L \in Seq(Entries), NEW t \in Tasks, NEW status \in {"pending"} \cup Terminal
  PROVE  Told(Upserted(L, L, t, status), t) =
           <<Cardinality(Of(L, t)) + (IF Live(L, t) = {} THEN 1 ELSE 0), {status}>>
<1> DEFINE M == Upserted(L, L, t, status)
<1>1. Entry(t, status).task = t /\ Entry(t, status).status = status
  BY EntryType
<1>2. CASE Live(L, t) = {}
  <2>1. M = Append(L, Entry(t, status))
    BY <1>2 DEF Upserted
  <2>2. DOMAIN M = 1..(Len(L) + 1) /\ DOMAIN L = 1..Len(L) /\ Len(L) \in Nat
        /\ M[Len(L) + 1] = Entry(t, status) /\ \A i \in DOMAIN L : M[i] = L[i]
    BY <2>1
  <2> HIDE DEF M
  <2>3. Of(M, t) = Of(L, t) \cup {Len(L) + 1} /\ Len(L) + 1 \notin Of(L, t)
    BY <1>1, <2>2 DEF Of
  <2>4. Cardinality(Of(M, t)) = Cardinality(Of(L, t)) + 1
    BY <2>3, OfIsFinite, FS_AddElement
  <2>5. Top(M, t) = {Len(L) + 1}
    BY <2>2, <2>3 DEF Of, Top
  <2>6. Latest(M, t) = {status}
    BY <1>1, <2>2, <2>5 DEF Latest
  <2> QED
    BY <1>2, <2>4, <2>6 DEF Told, M
<1>3. CASE Live(L, t) # {}
  <2>1. M = [i \in DOMAIN L |-> IF i \in Live(L, t) THEN Entry(t, status) ELSE L[i]]
    BY <1>3 DEF Upserted
  <2>2. PICK i : i \in Live(L, t)
    BY <1>3
  <2>3. i \in Of(L, t) /\ (\A k \in Of(L, t) : k <= i) /\ Live(L, t) = {i}
    BY <2>2, LiveIsLast
  <2>4. DOMAIN M = DOMAIN L /\ M[i] = Entry(t, status) /\ \A j \in DOMAIN L \ {i} : M[j] = L[j]
    BY <2>1, <2>3 DEF Of
  <2> HIDE DEF M
  <2>5. Of(M, t) = Of(L, t)
    BY <1>1, <2>3, <2>4 DEF Of
  <2>6. Top(M, t) = {i}
    <3>1. Of(L, t) \subseteq Nat
      BY DEF Of
    <3> QED
      BY <2>3, <2>5, <3>1 DEF Top
  <2>7. Latest(M, t) = {status}
    BY <1>1, <2>4, <2>6 DEF Latest
  <2> QED
    <3>1. Cardinality(Of(L, t)) \in Nat
      BY OfIsFinite
    <3> QED
      BY <1>3, <2>5, <2>7, <3>1 DEF Told, M
<1> QED
  BY <1>2, <1>3

(* No terminal entry is moved or rewritten.                                *)
LEMMA UpsertKeeps ==
  ASSUME NEW L \in Seq(Entries), NEW t \in Tasks, NEW status \in {"pending"} \cup Terminal,
         NEW i \in DOMAIN L, L[i].status \in Terminal
  PROVE  i \in DOMAIN Upserted(L, L, t, status) /\ Upserted(L, L, t, status)[i] = L[i]
<1>1. i \notin Live(L, t)
  BY DEF Live, Entry, Terminal
<1>2. Append(L, Entry(t, status))[i] = L[i] /\ i \in DOMAIN Append(L, Entry(t, status))
  BY EntryType
<1> QED
  BY <1>1, <1>2 DEF Upserted

-----------------------------------------------------------------------------
(* Sets laid out as lists.                                                 *)

(* SetToSeq lists each element of a finite set, once.                      *)
LEMMA SetToSeqLists ==
  ASSUME NEW S, IsFiniteSet(S)
  PROVE  /\ SetToSeq(S) \in Seq(S)
         /\ \A x \in S : \E i \in DOMAIN SetToSeq(S) : SetToSeq(S)[i] = x
         /\ \A i, j \in DOMAIN SetToSeq(S) : SetToSeq(S)[i] = SetToSeq(S)[j] => i = j
<1> DEFINE n == Cardinality(S)
<1>1. n \in Nat /\ ExistsBijection(1..n, S)
  BY FS_CardinalityType
<1>2. PICK b : b \in Bijection(1..n, S)
  BY <1>1 DEF ExistsBijection
<1>3. b \in [1..n -> S] /\ IsInjective(b)
  BY <1>2 DEF Bijection, Injection, IsInjective
<1> DEFINE f == SetToSeq(S)
<1>4. f \in [1..n -> S] /\ IsInjective(f)
  BY <1>3 DEF SetToSeq
<1> HIDE DEF f
<1>5. f \in Injection(1..n, S)
  BY <1>4 DEF Injection, IsInjective
<1>6. IsFiniteSet(1..n) /\ Cardinality(1..n) = n
  BY <1>1, FS_Interval
<1>7. f \in Surjection(1..n, S)
  BY <1>5, <1>6, FS_Injection
<1>8. \A x \in S : \E i \in 1..n : f[i] = x
  BY <1>7 DEF Surjection
<1>9. f \in Seq(S)
  BY <1>1, <1>4, SeqDef
<1> QED
  BY <1>4, <1>8, <1>9 DEF f, IsInjective

(* The pending entries of some tasks: one for each of them.                *)
LEMMA PendingListed ==
  ASSUME NEW S \in SUBSET Tasks
  PROVE  /\ PendingEntries(S) \in Seq(Entries)
         /\ \A i \in DOMAIN PendingEntries(S) :
              PendingEntries(S)[i].task \in S /\ PendingEntries(S)[i].status = "pending"
         /\ \A u \in S : \E i \in DOMAIN PendingEntries(S) : PendingEntries(S)[i].task = u
         /\ \A i, j \in DOMAIN PendingEntries(S) :
              PendingEntries(S)[i].task = PendingEntries(S)[j].task => i = j
<1> DEFINE P == {Entry(t, "pending") : t \in S}
<1>1. \A t \in S : Entry(t, "pending") \in Entries /\ Entry(t, "pending").task = t
                   /\ Entry(t, "pending").status = "pending"
  BY EntryType
<1>2. IsFiniteSet(P)
  <2> DEFINE f == [t \in S |-> Entry(t, "pending")]
  <2>1. f \in Surjection(S, P)
    BY DEF Surjection
  <2>2. IsFiniteSet(S)
    BY LogAssumption, FS_Subset
  <2> QED
    BY <2>1, <2>2, FS_Surjection
<1>3. \A e \in P : /\ e.task \in S /\ e.status = "pending"
                   /\ e \in Entries /\ e = Entry(e.task, "pending")
  BY <1>1
<1>4. \A t \in S : Entry(t, "pending") \in P
  OBVIOUS
<1> HIDE DEF P
<1> DEFINE f == SetToSeq(P)
<1>5. /\ f \in Seq(P)
      /\ \A x \in P : \E i \in DOMAIN f : f[i] = x
      /\ \A i, j \in DOMAIN f : f[i] = f[j] => i = j
  BY <1>2, SetToSeqLists
<1>6. PendingEntries(S) = f
  BY DEF PendingEntries, P
<1> HIDE DEF f
<1>7. \A i \in DOMAIN f : f[i] \in P
  BY <1>5
<1>8. f \in Seq(Entries)
  <2>1. Len(f) \in Nat /\ DOMAIN f = 1..Len(f) /\ f \in [1..Len(f) -> P]
    BY <1>5
  <2>2. f \in [1..Len(f) -> Entries]
    BY <1>3, <2>1
  <2> QED
    BY <2>1, <2>2, SeqDef
<1>9. \A u \in S : \E i \in DOMAIN f : f[i].task = u
  BY <1>1, <1>4, <1>5
<1>10. \A i, j \in DOMAIN f : f[i].task = f[j].task => i = j
  BY <1>3, <1>5, <1>7
<1> QED
  BY <1>3, <1>6, <1>7, <1>8, <1>9, <1>10

(* Pending entries appended for tasks that have none: one entry for each,  *)
(* and nothing else changes.                                               *)
LEMMA AppendPending ==
  ASSUME NEW L \in Seq(Entries), NEW S \in SUBSET Tasks
  PROVE  /\ L \o PendingEntries(S) \in Seq(Entries)
         /\ \A i \in DOMAIN L : /\ i \in DOMAIN (L \o PendingEntries(S))
                                /\ (L \o PendingEntries(S))[i] = L[i]
         /\ \A i \in DOMAIN (L \o PendingEntries(S)) :
              \/ i \in DOMAIN L /\ (L \o PendingEntries(S))[i] = L[i]
              \/ (L \o PendingEntries(S))[i].task \in S
         /\ \A u : u \notin S => Told(L \o PendingEntries(S), u) = Told(L, u)
         /\ \A u \in S : Of(L, u) = {} => Told(L \o PendingEntries(S), u) = <<1, {"pending"}>>
<1> DEFINE Q == PendingEntries(S)
           M == L \o Q
<1>1. /\ Q \in Seq(Entries)
      /\ \A i \in DOMAIN Q : Q[i].task \in S /\ Q[i].status = "pending"
      /\ \A u \in S : \E i \in DOMAIN Q : Q[i].task = u
      /\ \A i, j \in DOMAIN Q : Q[i].task = Q[j].task => i = j
  BY PendingListed
<1> HIDE DEF Q
<1>2. /\ Len(L) \in Nat /\ Len(Q) \in Nat /\ DOMAIN L = 1..Len(L) /\ DOMAIN Q = 1..Len(Q)
      /\ M \in Seq(Entries) /\ DOMAIN M = 1..(Len(L) + Len(Q))
      /\ \A i \in 1..Len(L) : M[i] = L[i]
      /\ \A i \in (Len(L) + 1)..(Len(L) + Len(Q)) : M[i] = Q[i - Len(L)]
  BY <1>1
<1> HIDE DEF M
<1>3. \A i \in DOMAIN L : i \in DOMAIN M /\ M[i] = L[i]
  BY <1>2
<1>4. \A i \in DOMAIN M : i \in DOMAIN L \/ (i - Len(L) \in DOMAIN Q /\ M[i] = Q[i - Len(L)])
  BY <1>2
<1>5. \A i \in DOMAIN M : (i \in DOMAIN L /\ M[i] = L[i]) \/ M[i].task \in S
  BY <1>1, <1>3, <1>4
<1>6. ASSUME NEW u, u \notin S PROVE Told(M, u) = Told(L, u)
  <2>1. Of(M, u) = Of(L, u)
    BY <1>3, <1>5, <1>6 DEF Of
  <2>2. \A i \in Of(L, u) : M[i].status = L[i].status
    BY <1>3 DEF Of
  <2> QED
    BY <2>1, <2>2, SameTold
<1>7. ASSUME NEW u \in S, Of(L, u) = {} PROVE Told(M, u) = <<1, {"pending"}>>
  <2>1. PICK i \in DOMAIN Q : Q[i].task = u
    BY <1>1
  <2> DEFINE k == Len(L) + i
  <2>2. k \in DOMAIN M /\ M[k] = Q[i] /\ k \in Nat
    BY <1>2
  <2>3. ASSUME NEW j \in Of(M, u) PROVE j = k
    <3>1. j \notin DOMAIN L /\ j \in DOMAIN M /\ M[j].task = u
      BY <1>3, <1>7, <2>3 DEF Of
    <3>2. j - Len(L) \in DOMAIN Q /\ Q[j - Len(L)].task = u /\ j \in Nat
      BY <1>2, <1>4, <3>1
    <3>3. j - Len(L) = i
      BY <1>1, <2>1, <3>2
    <3> QED
      BY <1>2, <3>2, <3>3
  <2> HIDE DEF k
  <2>4. Of(M, u) = {k}
    BY <2>1, <2>2, <2>3 DEF Of
  <2>5. Top(M, u) = {k}
    BY <2>2, <2>4 DEF Top
  <2>6. Latest(M, u) = {"pending"}
    BY <1>1, <2>1, <2>2, <2>5 DEF Latest
  <2> QED
    BY <2>4, <2>6, FS_Singleton DEF Told
<1> QED
  BY <1>2, <1>3, <1>5, <1>6, <1>7 DEF M, Q

(* A task's failure written alone is one outcome.                          *)
LEMMA OneFailed ==
  ASSUME NEW L \in Seq(Entries), NEW t \in Tasks
  PROVE  AllFailed(L, L, {t}) = Upserted(L, L, t, "failed")
<1> DEFINE M == Upserted(L, L, t, "failed")
<1>1. M \in Seq(Entries)
  BY UpsertType DEF Terminal
<1>2. Told(M, t)[2] = {"failed"}
  BY UpsertOwn DEF Terminal
<1>3. Live(M, t) = {}
  BY <1>1, <1>2, LiveByOutcome DEF Told
<1> HIDE DEF M
<1>4. (CHOOSE u \in {t} : TRUE) = t
  OBVIOUS
<1>5. SetToSeq({}) = << >>
  <2>1. SetToSeq({}) \in Seq({})
    BY FS_EmptySet, SetToSeqLists
  <2> QED
    BY <2>1
<1>6. {Entry(u, "failed") : u \in {s \in {t} \ {t} : Live(M, s) = {}}} = {}
  OBVIOUS
<1>7. UNION {Live(M, u) : u \in {t}} = {}
  BY <1>3
<1>8. [i \in DOMAIN M |-> M[i]] \o << >> = M
  BY <1>1
<1>9. AllFailed(L, L, {t}) =
        [i \in DOMAIN M |->
           IF i \in UNION {Live(M, u) : u \in {t}} THEN Entry(M[i].task, "failed") ELSE M[i]]
          \o SetToSeq({Entry(u, "failed") : u \in {s \in {t} \ {t} : Live(M, s) = {}}})
  BY <1>4 DEF AllFailed, M
<1> QED
  BY <1>5, <1>6, <1>7, <1>8, <1>9 DEF M

(* However many outcomes are written at once, the list stays one of        *)
(* entries that were stored, read, or are of a task that ended.            *)
LEMMA AllFailedType ==
  ASSUME NEW stored \in Seq(Entries), NEW base \in Seq(Entries),
         NEW S \in SUBSET Tasks, S # {}
  PROVE  /\ AllFailed(stored, base, S) \in Seq(Entries)
         /\ \A i \in DOMAIN AllFailed(stored, base, S) :
              \/ AllFailed(stored, base, S)[i].task \in S
              \/ i \in DOMAIN stored /\ AllFailed(stored, base, S)[i] = stored[i]
              \/ i \in DOMAIN base /\ AllFailed(stored, base, S)[i] = base[i]
<1> DEFINE first == CHOOSE t \in S : TRUE
           list == Upserted(stored, base, first, "failed")
           live == UNION {Live(list, t) : t \in S}
           late == {t \in S \ {first} : Live(list, t) = {}}
           new == [i \in DOMAIN list |->
                     IF i \in live THEN Entry(list[i].task, "failed") ELSE list[i]]
           E == {Entry(t, "failed") : t \in late}
           rest == SetToSeq(E)
<1>1. first \in S
  OBVIOUS
<1> HIDE DEF first
<1>2. /\ list \in Seq(Entries)
      /\ \A i \in DOMAIN list :
           \/ list[i].task = first
           \/ i \in DOMAIN stored /\ list[i] = stored[i]
           \/ i \in DOMAIN base /\ list[i] = base[i]
  BY <1>1, UpsertType DEF Terminal
<1> HIDE DEF list
<1>3. \A i \in live : list[i].task \in S
  <2>1. \A t \in S : \A i \in Live(list, t) : list[i].task = t
    BY DEF Live, Entry
  <2> QED
    BY <2>1
<1>4. \A t \in Tasks : Entry(t, "failed") \in Entries /\ Entry(t, "failed").task = t
  BY EntryType DEF Terminal
<1> HIDE DEF live
<1>5. /\ new \in Seq(Entries) /\ DOMAIN new = DOMAIN list
      /\ \A i \in DOMAIN list : new[i] = list[i] \/ new[i].task \in S
  <2>1. /\ Len(list) \in Nat /\ DOMAIN list = 1..Len(list)
        /\ \A i \in 1..Len(list) : list[i] \in Entries
    BY <1>2
  <2>2. new \in [1..Len(list) -> Entries]
    BY <1>4, <2>1 DEF Entries
  <2>3. new \in Seq(Entries)
    BY <2>1, <2>2, SeqDef
  <2>4. \A i \in DOMAIN list : new[i] = list[i] \/ new[i].task \in S
    BY <1>3, <1>4, <2>1
  <2> QED
    BY <2>3, <2>4
<1> HIDE DEF new
<1>6. late \subseteq S /\ IsFiniteSet(late)
  BY LogAssumption, FS_Subset
<1> HIDE DEF late
<1>7. IsFiniteSet(E)
  <2> DEFINE f == [t \in late |-> Entry(t, "failed")]
  <2>1. f \in Surjection(late, E)
    BY DEF Surjection
  <2> QED
    BY <1>6, <2>1, FS_Surjection
<1>8. \A e \in E : e \in Entries /\ e.task \in S
  BY <1>4, <1>6
<1> HIDE DEF E
<1>9. rest \in Seq(E)
  BY <1>7, SetToSeqLists
<1> HIDE DEF rest
<1>10. /\ Len(rest) \in Nat /\ DOMAIN rest = 1..Len(rest)
       /\ \A i \in 1..Len(rest) : rest[i] \in Entries /\ rest[i].task \in S
  BY <1>8, <1>9
<1>11. rest \in Seq(Entries)
  <2>1. rest = [i \in 1..Len(rest) |-> rest[i]]
    BY <1>9
  <2>2. rest \in [1..Len(rest) -> Entries]
    BY <1>10, <2>1
  <2> QED
    BY <1>10, <2>2, SeqDef
<1> DEFINE all == new \o rest
<1>12. /\ all \in Seq(Entries) /\ DOMAIN all = 1..(Len(new) + Len(rest))
       /\ Len(new) \in Nat /\ DOMAIN new = 1..Len(new)
       /\ \A i \in 1..Len(new) : all[i] = new[i]
       /\ \A i \in (Len(new) + 1)..(Len(new) + Len(rest)) : all[i] = rest[i - Len(new)]
  BY <1>5, <1>11
<1> HIDE DEF all
<1>13. \A i \in DOMAIN all : all[i].task \in S \/ (i \in DOMAIN new /\ all[i] = new[i])
  <2> SUFFICES ASSUME NEW i \in DOMAIN all, i \notin DOMAIN new PROVE all[i].task \in S
    BY <1>12
  <2>1. i \in (Len(new) + 1)..(Len(new) + Len(rest)) /\ i - Len(new) \in 1..Len(rest)
    BY <1>10, <1>12
  <2> QED
    BY <1>10, <1>12, <2>1
<1>14. AllFailed(stored, base, S) = all
  BY DEF AllFailed, all, new, rest, E, late, live, list, first
<1> QED
  BY <1>1, <1>2, <1>5, <1>12, <1>13, <1>14

-----------------------------------------------------------------------------
(* Types. TypeOK needs that what a worker has read of the log is of tasks  *)
(* that exist, but for those its own handler is about to enqueue.          *)

Seen(w) ==
  \A i \in DOMAIN read[w] :
    row[read[w][i].task].status = "absent" =>
      pc[w] = "completing" /\ held[w] = {Spawner[read[w][i].task]}

TypeInv ==
  /\ TypeOK
  /\ log \in Seq(Entries)
  /\ writer \in Workers \cup {NoOne}
  /\ read \in [Workers -> Seq(Entries)]
  /\ \A w \in Workers : Seen(w)

(* The rows take the lifecycle's steps.                                    *)
LEMMA RowsStep ==
  ASSUME TypeInv, [Next]_vars
  PROVE  [LifecycleNext]_lifecycle
<1>1. held \in [Workers -> SUBSET Tasks]
  BY DEF TypeInv, TypeOK
<1>2. \A t : Spawned(t) \in SUBSET Tasks
  BY DEF Spawned
<1>3. ASSUME NEW w \in Workers, NEW t \in Tasks, ClaimNext(w, t) \/ MarkRunning(w, t)
      PROVE  LifecycleNext
  BY <1>3 DEF ClaimNext, MarkRunning, LifecycleNext
<1>4. ASSUME NEW w \in Workers, NEW t \in Tasks, HandleCommit(w, t)
      PROVE  LifecycleNext
  <2>1. PICK S \in SUBSET Tasks : S = Spawned(t)
    BY <1>2
  <2>2. Complete(t, S)
    BY <1>4, <2>1 DEF HandleCommit
  <2> QED
    BY <2>2 DEF LifecycleNext
<1>5. ASSUME NEW w \in Workers, NEW t \in Tasks, NEW retryable \in BOOLEAN,
             RecordCommit(w, t, retryable)
      PROVE  LifecycleNext
  BY <1>5 DEF RecordCommit, LifecycleNext
<1>6. ASSUME NEW w \in Workers, ReapCommit(w)
      PROVE  LifecycleNext
  <2>1. PICK S \in SUBSET Tasks : S = held[w]
    BY <1>1
  <2>2. Fail(S, TRUE, FALSE)
    BY <1>6, <2>1 DEF ReapCommit
  <2> QED
    BY <2>2 DEF LifecycleNext
<1>7. ASSUME NEW t \in Tasks, BackoffPasses(t) \/ Offer(t)
      PROVE  LifecycleNext
  BY <1>7 DEF BackoffPasses, Offer, LifecycleNext
<1>8. ASSUME NEW w \in Workers, ReapRead(w) \/ Crash(w) \/ Return(w)
      PROVE  UNCHANGED lifecycle
  BY <1>8 DEF ReapRead, Crash, Return
<1>9. ASSUME NEW w \in Workers, NEW t \in Tasks,
             HandleRead(w, t) \/ HandleRaise(w, t) \/ RecordRead(w, t)
      PROVE  UNCHANGED lifecycle
  BY <1>9 DEF HandleRead, HandleRaise, RecordRead
<1>10. ASSUME UNCHANGED vars PROVE UNCHANGED lifecycle
  BY <1>10 DEF vars
<1> QED
  BY <1>3, <1>4, <1>5, <1>6, <1>7, <1>8, <1>9, <1>10 DEF Next

(* No row becomes absent again.                                            *)
LEMMA RowsRemain ==
  ASSUME TypeInv, [Next]_vars
  PROVE  /\ Types'
         /\ \A u \in Tasks : row[u].status # "absent" => row'[u].status # "absent"
<1>1. Types
  BY DEF TypeInv, TypeOK, Types
<1>2. Types' /\ \A u \in Tasks : StatusStep(u)
  BY <1>1, RowsStep, StepStatus
<1> QED
  BY <1>2 DEF StatusStep, NoRow

(* A change of phase keeps what is said of each worker.                    *)
LEMMA GotoTypes ==
  ASSUME TypeInv, [Next]_vars, NEW w \in Workers, NEW phase \in Phases, NEW S \in SUBSET Tasks,
         NEW list \in Seq(Entries), S = {} <=> phase \in {"idle", "down"},
         \A i \in DOMAIN list : row'[list[i].task].status = "absent" =>
           phase = "completing" /\ S = {Spawner[list[i].task]},
         Goto(w, phase, S, list)
  PROVE  /\ pc' \in [Workers -> Phases]
         /\ held' \in [Workers -> SUBSET Tasks]
         /\ read' \in [Workers -> Seq(Entries)]
         /\ pc'[w] = phase /\ \A v \in Workers \ {w} : pc'[v] = pc[v]
         /\ \A v \in Workers : held'[v] = {} <=> pc'[v] \in {"idle", "down"}
         /\ \A v \in Workers : Seen(v)'
<1>1. /\ pc \in [Workers -> Phases] /\ held \in [Workers -> SUBSET Tasks]
      /\ read \in [Workers -> Seq(Entries)]
      /\ \A v \in Workers : held[v] = {} <=> pc[v] \in {"idle", "down"}
      /\ \A v \in Workers : Seen(v)
  BY DEF TypeInv, TypeOK
<1>2. /\ pc' = [pc EXCEPT ![w] = phase] /\ held' = [held EXCEPT ![w] = S]
      /\ read' = [read EXCEPT ![w] = list]
  BY DEF Goto
<1>3. ASSUME NEW v \in Workers PROVE Seen(v)'
  <2> SUFFICES ASSUME NEW i \in DOMAIN read'[v], row'[read'[v][i].task].status = "absent"
               PROVE  pc'[v] = "completing" /\ held'[v] = {Spawner[read'[v][i].task]}
    BY DEF Seen
  <2>1. CASE v = w
    BY <1>1, <1>2, <2>1
  <2>2. CASE v # w
    <3>1. read'[v] = read[v] /\ pc'[v] = pc[v] /\ held'[v] = held[v]
      BY <1>1, <1>2, <2>2
    <3>2. i \in DOMAIN read[v] /\ read[v][i] \in Entries
      BY <1>1, <3>1
    <3>3. row[read[v][i].task].status = "absent"
      BY <3>1, <3>2, RowsRemain DEF Entries
    <3> QED
      BY <1>1, <3>1, <3>2, <3>3 DEF Seen
  <2> QED
    BY <2>1, <2>2
<1>4. \A v \in Workers : held'[v] = {} <=> pc'[v] \in {"idle", "down"}
  BY <1>1, <1>2
<1>5. /\ pc' \in [Workers -> Phases] /\ held' \in [Workers -> SUBSET Tasks]
      /\ read' \in [Workers -> Seq(Entries)]
      /\ pc'[w] = phase /\ \A v \in Workers \ {w} : pc'[v] = pc[v]
  BY <1>1, <1>2
<1> QED
  BY <1>3, <1>4, <1>5

(* Ends of transactions, which forget what was read.                       *)
LEMMA EndTypes ==
  ASSUME TypeInv, [Next]_vars, NEW w \in Workers, NEW phase \in Phases, NEW S \in SUBSET Tasks,
         S = {} <=> phase \in {"idle", "down"}, EndTx(w, phase, S)
  PROVE  /\ pc' \in [Workers -> Phases]
         /\ held' \in [Workers -> SUBSET Tasks]
         /\ read' \in [Workers -> Seq(Entries)]
         /\ \A v \in Workers : held'[v] = {} <=> pc'[v] \in {"idle", "down"}
         /\ \A v \in Workers : Seen(v)'
         /\ writer' \in Workers \cup {NoOne}
         /\ writer' # NoOne => pc'[writer'] = "completing"
<1>1. Goto(w, phase, S, << >>) /\ writer' = IF writer = w THEN NoOne ELSE writer
  BY DEF EndTx
<1>2. << >> \in Seq(Entries) /\ DOMAIN << >> = {}
  OBVIOUS
<1>3. /\ pc' \in [Workers -> Phases]
      /\ held' \in [Workers -> SUBSET Tasks]
      /\ read' \in [Workers -> Seq(Entries)]
      /\ pc'[w] = phase /\ \A v \in Workers \ {w} : pc'[v] = pc[v]
      /\ \A v \in Workers : held'[v] = {} <=> pc'[v] \in {"idle", "down"}
      /\ \A v \in Workers : Seen(v)'
  BY <1>1, <1>2, GotoTypes
<1>4. /\ writer \in Workers \cup {NoOne}
      /\ writer # NoOne => pc[writer] = "completing"
  BY DEF TypeInv, TypeOK
<1>5. /\ writer' \in Workers \cup {NoOne}
      /\ writer' # NoOne => pc'[writer'] = "completing"
  BY <1>1, <1>3, <1>4
<1> QED
  BY <1>3, <1>5

(* Other changes of phase leave the row's lock alone.                      *)
LEMMA WriterStays ==
  ASSUME TypeInv, NEW w \in Workers, NEW phase, NEW S, NEW list, Goto(w, phase, S, list),
         pc[w] # "completing", UNCHANGED writer
  PROVE  /\ writer' \in Workers \cup {NoOne}
         /\ writer' # NoOne => pc'[writer'] = "completing"
  BY DEF TypeInv, TypeOK, Goto

(* A log that did not change is still one of tasks that exist.             *)
LEMMA LogStays ==
  ASSUME TypeInv, [Next]_vars, UNCHANGED log
  PROVE  /\ log' \in Seq(Entries)
         /\ \A i \in DOMAIN log' : log'[i] \in Entries /\ row'[log'[i].task].status # "absent"
<1>1. /\ log \in Seq(Entries)
      /\ \A i \in DOMAIN log : log[i] \in Entries /\ row[log[i].task].status # "absent"
  BY DEF TypeInv, TypeOK
<1> QED
  BY <1>1, RowsRemain DEF Entries

(* What was read is of existing tasks, unless the reader is completing.    *)
LEMMA ReadExists ==
  ASSUME TypeInv, NEW w \in Workers, NEW i \in DOMAIN read[w], pc[w] # "completing"
  PROVE  read[w][i].task \in Tasks /\ row[read[w][i].task].status # "absent"
<1>1. read[w] \in Seq(Entries)
  BY DEF TypeInv
<1>2. read[w][i] \in Entries
  BY <1>1
<1> QED
  BY <1>2 DEF TypeInv, Seen, Entries

(* The types are inductive.                                                *)
LEMMA TypeStep == TypeInv /\ [Next]_vars => TypeInv'
<1> SUFFICES ASSUME TypeInv, [Next]_vars PROVE TypeInv'
  OBVIOUS
<1> DEFINE LogTyped == /\ log' \in Seq(Entries)
                       /\ \A i \in DOMAIN log' :
                            log'[i] \in Entries /\ row'[log'[i].task].status # "absent"
           WorkersTyped == /\ pc' \in [Workers -> Phases]
                           /\ held' \in [Workers -> SUBSET Tasks]
                           /\ read' \in [Workers -> Seq(Entries)]
                           /\ \A v \in Workers : held'[v] = {} <=> pc'[v] \in {"idle", "down"}
                           /\ \A v \in Workers : Seen(v)'
                           /\ writer' \in Workers \cup {NoOne}
                           /\ writer' # NoOne => pc'[writer'] = "completing"
<1>1. /\ row' \in [Tasks -> Rows] /\ effects' \in [Tasks -> Nat]
      /\ \A u \in Tasks : row[u].status # "absent" => row'[u].status # "absent"
  BY RowsRemain DEF Types
<1>2. /\ log \in Seq(Entries) /\ pc \in [Workers -> Phases] /\ held \in [Workers -> SUBSET Tasks]
      /\ read \in [Workers -> Seq(Entries)] /\ faults \in 0..MaxFaults
      /\ row \in [Tasks -> Rows]
      /\ \A i \in DOMAIN log : row[log[i].task].status # "absent"
      /\ \A v \in Workers : held[v] = {} <=> pc[v] \in {"idle", "down"}
  BY DEF TypeInv, TypeOK
<1>3. << >> \in Seq(Entries) /\ DOMAIN << >> = {}
  OBVIOUS
<1>4. \A i \in DOMAIN log : log[i].task \in Tasks /\ row'[log[i].task].status # "absent"
  <2> SUFFICES ASSUME NEW i \in DOMAIN log
               PROVE  log[i].task \in Tasks /\ row'[log[i].task].status # "absent"
    OBVIOUS
  <2>1. log[i] \in Entries
    BY <1>2
  <2>2. log[i].task \in Tasks
    BY <2>1 DEF Entries
  <2> QED
    BY <1>1, <1>2, <2>2
<1>5. ASSUME LogTyped, WorkersTyped, faults' \in 0..MaxFaults PROVE TypeInv'
  BY <1>1, <1>5 DEF TypeInv, TypeOK
<1> DEFINE MovedTo(w, phase) ==
             /\ pc' \in [Workers -> Phases]
             /\ held' \in [Workers -> SUBSET Tasks]
             /\ read' \in [Workers -> Seq(Entries)]
             /\ pc'[w] = phase /\ \A v \in Workers \ {w} : pc'[v] = pc[v]
             /\ \A v \in Workers : held'[v] = {} <=> pc'[v] \in {"idle", "down"}
             /\ \A v \in Workers : Seen(v)'
<1> HIDE DEF LogTyped, WorkersTyped, MovedTo
<1>6. ASSUME UNCHANGED log PROVE LogTyped
  BY <1>6, LogStays DEF LogTyped
<1>7. ASSUME NEW w \in Workers, NEW phase \in Phases, NEW S \in SUBSET Tasks,
             S = {} <=> phase \in {"idle", "down"}, EndTx(w, phase, S)
      PROVE  WorkersTyped
  BY <1>7, EndTypes DEF WorkersTyped
<1>24. ASSUME NEW w \in Workers, NEW phase \in Phases, NEW S \in SUBSET Tasks,
              NEW list \in Seq(Entries), S = {} <=> phase \in {"idle", "down"},
              \A i \in DOMAIN list : row'[list[i].task].status = "absent" =>
                phase = "completing" /\ S = {Spawner[list[i].task]},
              Goto(w, phase, S, list)
       PROVE  MovedTo(w, phase)
  BY <1>24, GotoTypes DEF MovedTo
<1>8. ASSUME NEW w \in Workers, NEW phase \in Phases, NEW S \in SUBSET Tasks,
             NEW list \in Seq(Entries), S = {} <=> phase \in {"idle", "down"},
             \A i \in DOMAIN list : row'[list[i].task].status = "absent" =>
               phase = "completing" /\ S = {Spawner[list[i].task]},
             Goto(w, phase, S, list),
             pc[w] # "completing", UNCHANGED writer
      PROVE  WorkersTyped
  <2>1. /\ pc' \in [Workers -> Phases]
        /\ held' \in [Workers -> SUBSET Tasks]
        /\ read' \in [Workers -> Seq(Entries)]
        /\ \A v \in Workers : held'[v] = {} <=> pc'[v] \in {"idle", "down"}
        /\ \A v \in Workers : Seen(v)'
    BY <1>8, <1>24 DEF MovedTo
  <2>2. writer' \in Workers \cup {NoOne} /\ (writer' # NoOne => pc'[writer'] = "completing")
    BY <1>8, WriterStays
  <2> QED
    BY <2>1, <2>2 DEF WorkersTyped
<1>9. ASSUME NEW w \in Workers, NEW t \in Tasks, ClaimNext(w, t) PROVE TypeInv'
  <2>1. WorkersTyped
    BY <1>3, <1>8, <1>9 DEF ClaimNext, Phases
  <2> QED
    BY <1>2, <1>5, <1>6, <1>9, <2>1 DEF ClaimNext
<1>10. ASSUME NEW w \in Workers, NEW t \in Tasks, MarkRunning(w, t) PROVE TypeInv'
  <2>1. WorkersTyped
    BY <1>3, <1>8, <1>10 DEF MarkRunning, Phases
  <2> QED
    BY <1>2, <1>5, <1>6, <1>10, <2>1 DEF MarkRunning
<1>11. ASSUME NEW w \in Workers, NEW t \in Tasks, HandleRead(w, t) PROVE TypeInv'
  <2> DEFINE S == Spawned(t)
             M == log \o PendingEntries(S)
  <2>1. S \in SUBSET Tasks
    BY DEF Spawned
  <2>2. /\ M \in Seq(Entries)
        /\ \A i \in DOMAIN M : (i \in DOMAIN log /\ M[i] = log[i]) \/ M[i].task \in S
    BY <1>2, <2>1, AppendPending
  <2>3. \A u \in S : Spawner[u] = t
    BY DEF Spawned
  <2>4. Goto(w, "completing", {t}, M) /\ UNCHANGED <<log, faults>>
        /\ writer' \in {writer, w} /\ pc[w] = "running"
    BY <1>11 DEF HandleRead
  <2> HIDE DEF M, S
  <2>5. \A i \in DOMAIN M : row'[M[i].task].status = "absent" => {t} = {Spawner[M[i].task]}
    BY <1>4, <2>2, <2>3
  <2>6. MovedTo(w, "completing")
    <3>1. "completing" \in Phases /\ {t} \in SUBSET Tasks
          /\ ({t} = {} <=> "completing" \in {"idle", "down"})
      BY DEF Phases
    <3>2. PICK list \in Seq(Entries) : list = M
      BY <2>2
    <3>3. PICK phase \in Phases : phase = "completing"
      BY <3>1
    <3>4. PICK H \in SUBSET Tasks : H = {t}
      BY <3>1
    <3>5. Goto(w, phase, H, list)
      BY <2>4, <3>2, <3>3, <3>4
    <3>6. \A i \in DOMAIN list : row'[list[i].task].status = "absent" =>
            phase = "completing" /\ H = {Spawner[list[i].task]}
      BY <2>5, <3>2, <3>3, <3>4
    <3>7. H = {} <=> phase \in {"idle", "down"}
      BY <3>3, <3>4
    <3>8. MovedTo(w, phase)
      BY <3>5, <3>6, <3>7, <1>24
    <3> QED
      BY <3>3, <3>8
  <2>7. writer \in Workers \cup {NoOne} /\ (writer # NoOne => pc[writer] = "completing")
    BY DEF TypeInv, TypeOK
  <2>8. WorkersTyped
    BY <2>4, <2>6, <2>7 DEF WorkersTyped, MovedTo
  <2> QED
    BY <1>2, <1>5, <1>6, <2>4, <2>8
<1>12. ASSUME NEW w \in Workers, NEW t \in Tasks, HandleCommit(w, t) PROVE TypeInv'
  <2> DEFINE S == Spawned(t)
             M == log \o PendingEntries(S)
             N == Upserted(M, read[w], t, "completed")
  <2>1. S \in SUBSET Tasks /\ \A u \in Tasks : row[u].status = "absent" /\ Spawner[u] = t => u \in S
    BY DEF Spawned
  <2>2. /\ M \in Seq(Entries)
        /\ \A i \in DOMAIN M : (i \in DOMAIN log /\ M[i] = log[i]) \/ M[i].task \in S
    BY <1>2, <2>1, AppendPending
  <2>3. pc[w] = "completing" /\ held[w] = {t} /\ Complete(t, S) /\ log' = N
        /\ EndTx(w, "idle", {}) /\ UNCHANGED faults
    BY <1>12 DEF HandleCommit
  <2> HIDE DEF M, S
  <2>4. read[w] \in Seq(Entries)
    BY <1>2
  <2>5. /\ N \in Seq(Entries)
        /\ \A i \in DOMAIN N : \/ N[i].task = t
                               \/ i \in DOMAIN M /\ N[i] = M[i]
                               \/ i \in DOMAIN read[w] /\ N[i] = read[w][i]
    <3>1. "completed" \in {"pending"} \cup Terminal
      BY DEF Terminal
    <3> QED
      BY <2>2, <2>4, <3>1, UpsertType
  <2> HIDE DEF N
  <2>6. row'[t].status # "absent"
    BY <1>1, <2>3 DEF Complete, Reapable
  <2>7. \A u \in S : row'[u].status # "absent"
    <3> SUFFICES ASSUME NEW u \in S PROVE row'[u].status # "absent"
      OBVIOUS
    <3>1. u \in Tasks
      BY <2>1
    <3>2. CASE row[u].status # "absent"
      BY <1>1, <3>1, <3>2
    <3>3. CASE row[u].status = "absent"
      <4>1. u # t
        BY <2>3, <3>3 DEF Complete, Reapable
      <4>2. row' = EnqueuedRows([row EXCEPT ![t] = Completed(row[t])], S)
        BY <2>3 DEF Complete
      <4>3. row'[u] = [AbsentRow EXCEPT !.status = "pending"]
        BY <1>2, <3>1, <3>3, <4>1, <4>2 DEF EnqueuedRows
      <4> QED
        BY <4>3, PendingType
    <3> QED
      BY <3>2, <3>3
  <2>8. ASSUME NEW i \in DOMAIN read[w] PROVE row'[read[w][i].task].status # "absent"
    <3>1. read[w][i] \in Entries /\ read[w][i].task \in Tasks
      <4>1. read[w][i] \in Entries
        BY <2>4
      <4> QED
        BY <4>1 DEF Entries
    <3>2. CASE row[read[w][i].task].status # "absent"
      BY <1>1, <3>1, <3>2
    <3>3. CASE row[read[w][i].task].status = "absent"
      <4>1. Spawner[read[w][i].task] = t
        BY <2>3, <3>3 DEF TypeInv, Seen
      <4> QED
        BY <2>1, <2>7, <3>1, <3>3, <4>1
    <3> QED
      BY <3>2, <3>3
  <2>9. \A i \in DOMAIN N : row'[N[i].task].status # "absent"
    BY <1>4, <2>2, <2>5, <2>6, <2>7, <2>8
  <2>10. LogTyped
    BY <2>3, <2>5, <2>9 DEF LogTyped
  <2>11. WorkersTyped
    BY <1>7, <2>3 DEF Phases
  <2> QED
    BY <1>2, <1>5, <2>3, <2>10, <2>11
<1>13. ASSUME NEW w \in Workers, NEW t \in Tasks, HandleRaise(w, t) PROVE TypeInv'
  <2>1. WorkersTyped
    BY <1>7, <1>13 DEF HandleRaise, Phases
  <2> QED
    BY <1>2, <1>5, <1>6, <1>13, <2>1 DEF HandleRaise
<1>14. ASSUME NEW w \in Workers, NEW t \in Tasks, RecordRead(w, t) PROVE TypeInv'
  <2>1. Goto(w, "failing", {t}, log) /\ pc[w] = "raised" /\ UNCHANGED <<log, writer, faults>>
    BY <1>14 DEF RecordRead
  <2>2. /\ "failing" \in Phases /\ {t} \in SUBSET Tasks
        /\ {t} = {} <=> "failing" \in {"idle", "down"}
    BY DEF Phases
  <2>3. \A i \in DOMAIN log : row'[log[i].task].status = "absent" =>
          "failing" = "completing" /\ {t} = {Spawner[log[i].task]}
    BY <1>4
  <2>4. pc[w] # "completing"
    BY <2>1
  <2>5. WorkersTyped
    BY <1>2, <1>8, <2>1, <2>2, <2>3, <2>4
  <2> QED
    BY <1>2, <1>5, <1>6, <2>1, <2>5
<1>15. ASSUME NEW w \in Workers, NEW t \in Tasks, NEW retryable \in BOOLEAN,
              RecordCommit(w, t, retryable)
       PROVE  TypeInv'
  <2> DEFINE N == Upserted(log, read[w], t, "failed")
  <2>1. pc[w] = "failing" /\ row[t].status # "absent" /\ log' = N
        /\ EndTx(w, "idle", {}) /\ UNCHANGED faults
    BY <1>15 DEF RecordCommit, Fail, Reapable
  <2>2. read[w] \in Seq(Entries)
    BY <1>2
  <2>3. /\ N \in Seq(Entries)
        /\ \A i \in DOMAIN N : \/ N[i].task = t
                               \/ i \in DOMAIN log /\ N[i] = log[i]
                               \/ i \in DOMAIN read[w] /\ N[i] = read[w][i]
    BY <1>2, <2>2, UpsertType DEF Terminal
  <2> HIDE DEF N
  <2>4. \A i \in DOMAIN read[w] : row'[read[w][i].task].status # "absent"
    BY <1>1, <2>1, ReadExists
  <2>5. LogTyped
    BY <1>1, <1>4, <2>1, <2>3, <2>4 DEF LogTyped
  <2>6. WorkersTyped
    BY <1>7, <2>1 DEF Phases
  <2> QED
    BY <1>2, <1>5, <2>1, <2>5, <2>6
<1>16. ASSUME NEW w \in Workers, ReapRead(w) PROVE TypeInv'
  <2>1. Abandoned \in SUBSET Tasks
    BY DEF Abandoned
  <2>2. Goto(w, "reaping", Abandoned, log) /\ pc[w] = "idle" /\ UNCHANGED <<log, writer, faults>>
        /\ Abandoned # {}
    BY <1>16 DEF ReapRead
  <2>3. "reaping" \in Phases /\ (Abandoned = {} <=> "reaping" \in {"idle", "down"})
    BY <2>2 DEF Phases
  <2>4. \A i \in DOMAIN log : row'[log[i].task].status = "absent" =>
          "reaping" = "completing" /\ Abandoned = {Spawner[log[i].task]}
    BY <1>4
  <2>5. pc[w] # "completing"
    BY <2>2
  <2>6. WorkersTyped
    BY <1>2, <1>8, <2>1, <2>2, <2>3, <2>4, <2>5
  <2> QED
    BY <1>2, <1>5, <1>6, <2>2, <2>6
<1>17. ASSUME NEW w \in Workers, ReapCommit(w) PROVE TypeInv'
  <2> DEFINE N == AllFailed(log, read[w], held[w])
  <2>1. pc[w] = "reaping" /\ (\A t \in held[w] : row[t].status # "absent") /\ log' = N
        /\ EndTx(w, "idle", {}) /\ UNCHANGED faults
    BY <1>17 DEF ReapCommit, Fail, Reapable
  <2>2. read[w] \in Seq(Entries) /\ held[w] \in SUBSET Tasks /\ held[w] # {}
    BY <1>2, <2>1
  <2>3. /\ N \in Seq(Entries)
        /\ \A i \in DOMAIN N : \/ N[i].task \in held[w]
                               \/ i \in DOMAIN log /\ N[i] = log[i]
                               \/ i \in DOMAIN read[w] /\ N[i] = read[w][i]
    BY <1>2, <2>2, AllFailedType
  <2> HIDE DEF N
  <2>4. \A i \in DOMAIN read[w] : row'[read[w][i].task].status # "absent"
    BY <1>1, <2>1, ReadExists
  <2>5. \A t \in held[w] : row'[t].status # "absent"
    BY <1>1, <2>1, <2>2
  <2>6. \A i \in DOMAIN N : row'[N[i].task].status # "absent"
    BY <1>4, <2>3, <2>4, <2>5
  <2>7. LogTyped
    BY <2>1, <2>3, <2>6 DEF LogTyped
  <2>8. WorkersTyped
    BY <1>7, <2>1 DEF Phases
  <2> QED
    BY <1>2, <1>5, <2>1, <2>7, <2>8
<1>18. ASSUME NEW w \in Workers, Crash(w) PROVE TypeInv'
  <2>1. WorkersTyped
    BY <1>7, <1>18 DEF Crash, Phases
  <2>2. faults' \in 0..MaxFaults
    BY <1>2, <1>18, LogAssumption DEF Crash
  <2> QED
    BY <1>5, <1>6, <1>18, <2>1, <2>2 DEF Crash
<1>19. ASSUME NEW w \in Workers, Return(w) PROVE TypeInv'
  <2>1. WorkersTyped
    BY <1>7, <1>19 DEF Return, Phases
  <2> QED
    BY <1>2, <1>5, <1>6, <1>19, <2>1 DEF Return
<1>20. ASSUME UNCHANGED <<writer, pc, held, read>> PROVE WorkersTyped
  <2>1. ASSUME NEW v \in Workers PROVE Seen(v)'
    <3> SUFFICES ASSUME NEW i \in DOMAIN read[v], row'[read[v][i].task].status = "absent"
                 PROVE  pc[v] = "completing" /\ held[v] = {Spawner[read[v][i].task]}
      BY <1>20 DEF Seen
    <3>1. read[v] \in Seq(Entries)
      BY <1>2
    <3>2. read[v][i] \in Entries
      BY <3>1
    <3> QED
      BY <1>1, <3>2 DEF TypeInv, Seen, Entries
  <2> QED
    BY <1>20, <2>1 DEF TypeInv, TypeOK, WorkersTyped
<1>21. ASSUME NEW t \in Tasks, BackoffPasses(t) PROVE TypeInv'
  BY <1>2, <1>5, <1>6, <1>20, <1>21 DEF BackoffPasses, logVars
<1>22. ASSUME NEW t \in Tasks, Offer(t) PROVE TypeInv'
  <2> DEFINE N == Upserted(log, log, t, "pending")
  <2>1. /\ row[t].status = "absent" /\ Enqueue({t}) /\ log' = N
        /\ UNCHANGED <<writer, pc, held, read, faults>>
    BY <1>22 DEF Offer
  <2>2. /\ N \in Seq(Entries)
        /\ \A i \in DOMAIN N : N[i].task = t \/ (i \in DOMAIN log /\ N[i] = log[i])
    BY <1>2, UpsertType DEF Terminal
  <2> HIDE DEF N
  <2>3. row'[t] = [AbsentRow EXCEPT !.status = "pending"]
    BY <2>1 DEF Enqueue, EnqueuedRows
  <2>4. row'[t].status # "absent"
    BY <2>3, PendingType
  <2>5. LogTyped
    BY <1>4, <2>1, <2>2, <2>4 DEF LogTyped
  <2> QED
    BY <1>2, <1>5, <1>20, <2>1, <2>5
<1>23. ASSUME UNCHANGED vars PROVE TypeInv'
  BY <1>2, <1>5, <1>6, <1>20, <1>23 DEF vars, logVars
<1> QED
  BY <1>9, <1>10, <1>11, <1>12, <1>13, <1>14, <1>15, <1>16, <1>17, <1>18, <1>19, <1>21, <1>22,
     <1>23 DEF Next

(* And it holds at the start.                                              *)
LEMMA TypeInit == Init => TypeInv
<1> SUFFICES ASSUME Init PROVE TypeInv
  OBVIOUS
<1>1. row \in [Tasks -> Rows] /\ effects \in [Tasks -> Nat]
  BY AbsentType, PendingType DEF Init
<1>2. \A t \in Queued : row[t].status = "pending"
  BY LogAssumption, PendingType DEF Init
<1>3. log \in Seq(Entries) /\ \A i \in DOMAIN log : log[i].task \in Queued
  BY LogAssumption, PendingListed DEF Init
<1>4. << >> \in Seq(Entries) /\ DOMAIN << >> = {}
  OBVIOUS
<1>5. /\ writer = NoOne
      /\ pc = [w \in Workers |-> "idle"]
      /\ held = [w \in Workers |-> {}]
      /\ read = [w \in Workers |-> <<>>]
      /\ faults = 0
  BY DEF Init
<1>6. \A i \in DOMAIN log : log[i] \in Entries /\ row[log[i].task].status # "absent"
  BY <1>2, <1>3
<1>7. TypeOK
  BY <1>1, <1>5, <1>6, LogAssumption DEF TypeOK, Phases
<1>8. read \in [Workers -> Seq(Entries)] /\ \A w \in Workers : Seen(w)
  BY <1>4, <1>5 DEF Seen
<1> QED
  BY <1>3, <1>5, <1>7, <1>8 DEF TypeInv

(* Every variable stays in its set, whatever the modes: the stored list    *)
(* holds entries of tasks that were enqueued, and whoever locks its row is *)
(* about to end a task it holds.                                           *)
THEOREM TypeCorrect == Spec => []TypeOK
<1>1. TypeInv => TypeOK
  BY DEF TypeInv
<1> QED
  BY <1>1, TypeInit, TypeStep, PTL DEF Spec

-----------------------------------------------------------------------------
(* A document all of whose tasks write it under conflicting modes: the     *)
(* claim lets one at a time run. Where modes do not conflict, outcomes may *)
(* be lost, which run LostEntry shows.                                     *)

OneAtATime == \A s, t \in Tasks : s # t => Conflicts(s, t)

(* In which status the row of a worker's task is, in each phase.           *)
StatusIn(phase) ==
  CASE phase = "claimed" -> {"claimed"}
    [] phase = "reaping" -> Reapable
    [] OTHER -> {"running"}

(* One task is reserved, one worker has it in hand.                        *)
OneBusy ==
  /\ \A s, t \in Tasks : row[s].status \in Reserving /\ row[t].status \in Reserving => s = t
  /\ \A w \in Workers : held[w] # {} =>
       \E t \in Tasks : held[w] = {t} /\ row[t].status \in StatusIn(pc[w])
  /\ \A v, w \in Workers : held[v] # {} /\ held[w] # {} => v = w

(* Only a first try is pending: a retry is claimed from `failed`.          *)
FirstTryPending ==
  \A t \in Tasks : /\ row[t].status \notin {"batched", "gone"}
                   /\ row[t].status = "pending" => row[t].retries = 0

(* The list a worker is about to replace is still the stored one.          *)
ReadIsFresh ==
  \A w \in Workers :
    /\ pc[w] \in {"failing", "reaping"} => read[w] = log
    /\ \A t \in Tasks : pc[w] = "completing" /\ held[w] = {t} =>
         read[w] = log \o PendingEntries(Spawned(t))

(* What the list must say of a row: how many entries, which outcome.       *)
Owed(r) ==
  <<IF r.status \in NoRow THEN 0
    ELSE IF r.retries > 0 /\ r.status \in Reserving THEN r.retries
    ELSE r.retries + 1,
    IF r.status \in NoRow THEN {}
    ELSE IF r.status \in Terminal THEN {r.status}
    ELSE IF r.retries > 0 THEN {"failed"}
    ELSE {"pending"}>>

Recorded == \A t \in Tasks : Told(log, t) = Owed(row[t])

LogInv == OneBusy /\ FirstTryPending /\ ReadIsFresh /\ Recorded

(* The two properties are the two halves of Recorded.                      *)
LEMMA RecordedSays ==
  ASSUME Recorded
  PROVE  LogMatchesRow /\ OneEntryPerAttempt
<1>1. ASSUME NEW t \in Tasks
      PROVE  /\ Cardinality(EntriesOf(t)) = Owed(row[t])[1]
             /\ Outcome(t) = Owed(row[t])[2]
  <2>1. EntriesOf(t) = Of(log, t)
    BY DEF EntriesOf, Of
  <2>2. Outcome(t) = Latest(log, t)
    BY <2>1 DEF Outcome, Latest, Top
  <2>3. Told(log, t) = Owed(row[t])
    BY DEF Recorded
  <2> QED
    BY <2>1, <2>2, <2>3 DEF Told
<1>2. LogMatchesRow
  BY <1>1 DEF LogMatchesRow, Owed
<1>3. OneEntryPerAttempt
  BY <1>1 DEF OneEntryPerAttempt, Owed
<1> QED
  BY <1>2, <1>3

(* A claim owes the list nothing new.                                      *)
LEMMA OwedClaimed ==
  ASSUME NEW r \in Rows, NEW w, Due(r), r.status = "pending" => r.retries = 0
  PROVE  Owed(Claimed(r, w)) = Owed(r)
<1>1. r.retries \in Nat /\ r.status \in {"pending", "failed"}
  BY RowAssumption DEF Rows, Due, HasRetryLeft
<1>2. Claimed(r, w).status = "claimed"
      /\ Claimed(r, w).retries = IF r.status = "failed" THEN r.retries + 1 ELSE r.retries
  BY DEF Claimed, Rows
<1>3. CASE r.status = "pending"
  <2>1. r.retries = 0 /\ Claimed(r, w).retries = 0
    BY <1>2, <1>3
  <2> QED
    BY <1>2, <1>3, <2>1 DEF Owed, NoRow, Terminal, Reserving
<1>4. CASE r.status = "failed"
  <2>1. Claimed(r, w).retries = r.retries + 1 /\ r.retries + 1 > 0
    BY <1>1, <1>2, <1>4
  <2> QED
    BY <1>2, <1>4, <2>1 DEF Owed, NoRow, Terminal, Reserving
<1> QED
  BY <1>1, <1>3, <1>4

(* Nor does its start.                                                     *)
LEMMA OwedStarted ==
  ASSUME NEW r, NEW q, r.status \in Reserving, q.status \in Reserving, q.retries = r.retries
  PROVE  Owed(q) = Owed(r)
  BY DEF Owed, NoRow, Terminal, Reserving

(* The end of a try, written into a list that says what is owed before it, *)
(* gives the list that says what is owed after it.                         *)
LEMMA OwedEnded ==
  ASSUME NEW L \in Seq(Entries), NEW t \in Tasks, NEW r \in Rows, NEW q,
         r.status \in Reserving, Told(L, t) = Owed(r),
         q.status \in Terminal, q.retries = r.retries
  PROVE  Told(Upserted(L, L, t, q.status), t) = Owed(q)
<1>1. r.retries \in Nat
  BY RowAssumption DEF Rows
<1>2. Owed(q) = <<r.retries + 1, {q.status}>>
  <2>1. q.status \notin NoRow /\ q.status \notin Reserving
    BY DEF NoRow, Terminal, Reserving
  <2> QED
    BY <2>1 DEF Owed
<1>3. Told(Upserted(L, L, t, q.status), t) =
        <<Cardinality(Of(L, t)) + (IF Live(L, t) = {} THEN 1 ELSE 0), {q.status}>>
  BY UpsertOwn
<1>4. Cardinality(Of(L, t)) = Owed(r)[1] /\ Latest(L, t) = Owed(r)[2]
  BY DEF Told
<1>5. CASE r.retries > 0
  <2>1. Owed(r) = <<r.retries, {"failed"}>>
    BY <1>5 DEF Owed, NoRow, Terminal, Reserving
  <2>2. Live(L, t) = {} /\ Cardinality(Of(L, t)) = r.retries
    BY <1>4, <2>1, LiveByOutcome
  <2> QED
    BY <1>2, <1>3, <2>2
<1>6. CASE r.retries = 0
  <2>1. Owed(r) = <<1, {"pending"}>>
    BY <1>6 DEF Owed, NoRow, Terminal, Reserving
  <2>2. Live(L, t) # {} /\ Cardinality(Of(L, t)) = 1
    BY <1>4, <2>1, LiveByOutcome
  <2> QED
    BY <1>2, <1>3, <1>6, <2>2
<1> QED
  BY <1>1, <1>5, <1>6

(* A row just enqueued is owed one pending entry; one that is not there,   *)
(* none.                                                                   *)
LEMMA OwedNew ==
  /\ Owed([AbsentRow EXCEPT !.status = "pending"]) = <<1, {"pending"}>>
  /\ \A r : r.status = "absent" => Owed(r) = <<0, {}>>
<1>1. [AbsentRow EXCEPT !.status = "pending"].status = "pending"
      /\ [AbsentRow EXCEPT !.status = "pending"].retries = 0
  BY DEF AbsentRow
<1>2. /\ "pending" \notin NoRow /\ "pending" \notin Terminal /\ "pending" \notin Reserving
      /\ "absent" \in NoRow
  BY DEF NoRow, Terminal, Reserving
<1>3. Owed([AbsentRow EXCEPT !.status = "pending"]) = <<0 + 1, {"pending"}>>
  BY <1>1, <1>2 DEF Owed
<1>4. \A r : r.status = "absent" => Owed(r) = <<0, {}>>
  BY <1>2 DEF Owed
<1> QED
  BY <1>3, <1>4

(* A task that is not there has no entry.                                  *)
LEMMA AbsentHasNone ==
  ASSUME TypeInv, Recorded, NEW t \in Tasks, row[t].status = "absent"
  PROVE  Of(log, t) = {} /\ Live(log, t) = {}
<1>1. log \in Seq(Entries)
  BY DEF TypeInv
<1>2. Told(log, t) = <<0, {}>>
  BY OwedNew DEF Recorded
<1>3. Cardinality(Of(log, t)) = 0 /\ Latest(log, t) = {}
  BY <1>2 DEF Told
<1> QED
  BY <1>1, <1>3, OfIsFinite, FS_EmptySet, LiveByOutcome

-----------------------------------------------------------------------------
(* While one worker is busy.                                               *)

(* Its task is the one that is reserved, and no other worker holds any.    *)
LEMMA BusyAlone ==
  ASSUME TypeInv, OneBusy, NEW w \in Workers, held[w] # {}
  PROVE  \E t \in Tasks :
           /\ held[w] = {t} /\ row[t].status \in StatusIn(pc[w]) /\ row[t].status \in Reapable
           /\ \A u \in Tasks \ {t} : row[u].status \notin Reserving
           /\ \A v \in Workers \ {w} : held[v] = {} /\ pc[v] \in {"idle", "down"}
<1>1. PICK t \in Tasks : held[w] = {t} /\ row[t].status \in StatusIn(pc[w])
  BY DEF OneBusy
<1>2. row[t].status \in Reapable
  BY <1>1 DEF StatusIn, Reapable
<1>3. \A u \in Tasks \ {t} : row[u].status \notin Reserving
  BY <1>2 DEF OneBusy, Reapable, Reserving
<1>4. \A v \in Workers \ {w} : held[v] = {}
  BY DEF OneBusy
<1>5. \A v \in Workers \ {w} : pc[v] \in {"idle", "down"}
  BY <1>4 DEF TypeInv, TypeOK
<1> QED
  BY <1>1, <1>2, <1>3, <1>4, <1>5

(* A claim finds nothing reserved, hence nobody busy.                      *)
LEMMA ClaimAlone ==
  ASSUME OneAtATime, TypeInv, OneBusy, NEW t \in Tasks, Claimable(row, t)
  PROVE  /\ \A u \in Tasks : row[u].status \notin Reserving
         /\ \A v \in Workers : held[v] = {} /\ pc[v] \in {"idle", "down"}
<1>1. row[t].status \notin Reserving
  BY DEF Claimable, Due, HasRetryLeft, Reserving
<1>2. \A u \in Tasks \ {t} : row[u].status \notin Reserving
  BY DEF Claimable, OneAtATime
<1>3. \A u \in Tasks : row[u].status \notin Reserving
  BY <1>1, <1>2
<1>4. \A v \in Workers : held[v] = {}
  BY <1>3, BusyAlone DEF Reapable, Reserving
<1>5. \A v \in Workers : pc[v] \in {"idle", "down"}
  BY <1>4 DEF TypeInv, TypeOK
<1> QED
  BY <1>3, <1>4, <1>5

(* The reaper finds one abandoned task, and nobody busy.                   *)
LEMMA ReapAlone ==
  ASSUME TypeInv, OneBusy, Abandoned # {}
  PROVE  /\ \E t \in Tasks : Abandoned = {t} /\ row[t].status \in Reapable
         /\ \A v \in Workers : held[v] = {} /\ pc[v] \in {"idle", "down"}
<1>1. PICK t \in Tasks : row[t].status \in Reapable /\ \A w \in Workers : t \notin held[w]
  BY DEF Abandoned
<1>2. t \in Abandoned
  BY <1>1 DEF Abandoned
<1>3. Abandoned = {t}
  BY <1>1, <1>2 DEF Abandoned, OneBusy, Reapable, Reserving
<1>4. \A v \in Workers : held[v] = {}
  <2> SUFFICES ASSUME NEW v \in Workers, held[v] # {} PROVE FALSE
    OBVIOUS
  <2>1. PICK s \in Tasks : held[v] = {s} /\ row[s].status \in Reapable
    BY BusyAlone
  <2>2. s = t
    BY <1>1, <2>1 DEF OneBusy, Reapable, Reserving
  <2> QED
    BY <1>1, <2>1, <2>2
<1>5. \A v \in Workers : pc[v] \in {"idle", "down"}
  BY <1>4 DEF TypeInv, TypeOK
<1> QED
  BY <1>1, <1>3, <1>4, <1>5

(* Nothing is offered while a task is unfinished.                          *)
LEMMA OfferAlone ==
  ASSUME TypeInv, OneBusy, NEW t \in Tasks, Offer(t)
  PROVE  /\ \A u \in Tasks : row[u].status \notin Reserving
         /\ \A v \in Workers : held[v] = {} /\ pc[v] \in {"idle", "down"}
<1>1. \A u \in Tasks : row[u].status \notin Reserving
  BY DEF Offer, Unfinished
<1>2. \A v \in Workers : held[v] = {}
  BY <1>1, BusyAlone DEF Reapable, Reserving
<1>3. \A v \in Workers : pc[v] \in {"idle", "down"}
  BY <1>2 DEF TypeInv, TypeOK
<1> QED
  BY <1>1, <1>2, <1>3

(* The write that ends a try, of whichever worker: everything holds after  *)
(* it if the list it replaced told what is owed.                           *)
LEMMA EndKeeps ==
  ASSUME TypeInv, LogInv, NEW w \in Workers, NEW t \in Tasks, held[w] = {t},
         EndTx(w, "idle", {}), Types',
         NEW L \in Seq(Entries), Told(L, t) = Told(log, t),
         row'[t].status \in Terminal, row'[t].retries = row[t].retries,
         \A u \in Tasks \ {t} :
           /\ row'[u] = row[u] \/ row'[u] = [AbsentRow EXCEPT !.status = "pending"]
           /\ Told(L, u) = Owed(row'[u]),
         log' = Upserted(L, L, t, row'[t].status)
  PROVE  LogInv'
<1>1. /\ row[t].status \in Reserving
      /\ \A u \in Tasks \ {t} : row[u].status \notin Reserving
      /\ \A v \in Workers \ {w} : held[v] = {} /\ pc[v] \in {"idle", "down"}
  BY BusyAlone DEF LogInv, Reapable, Reserving
<1>2. /\ held' = [held EXCEPT ![w] = {}] /\ pc' = [pc EXCEPT ![w] = "idle"]
      /\ held \in [Workers -> SUBSET Tasks] /\ pc \in [Workers -> Phases]
      /\ row \in [Tasks -> Rows]
  BY DEF EndTx, Goto, TypeInv, TypeOK
<1>3. \A v \in Workers : held'[v] = {} /\ pc'[v] \in {"idle", "down"}
  BY <1>1, <1>2
<1>4. \A u \in Tasks : row'[u].status \notin Reserving
  <2>1. row'[t].status \notin Reserving
    BY DEF Terminal, Reserving
  <2>2. [AbsentRow EXCEPT !.status = "pending"].status \notin Reserving
    BY PendingType DEF Reserving
  <2> QED
    BY <1>1, <2>1, <2>2
<1>5. OneBusy'
  BY <1>3, <1>4 DEF OneBusy
<1>6. FirstTryPending'
  <2>1. /\ row'[t].status \notin {"batched", "gone"}
        /\ row'[t].status = "pending" => row'[t].retries = 0
    BY DEF Terminal
  <2>2. [AbsentRow EXCEPT !.status = "pending"].status = "pending"
        /\ [AbsentRow EXCEPT !.status = "pending"].retries = 0
    BY DEF AbsentRow
  <2>3. ASSUME NEW u \in Tasks \ {t}
        PROVE  /\ row'[u].status \notin {"batched", "gone"}
               /\ row'[u].status = "pending" => row'[u].retries = 0
    BY <2>2 DEF LogInv, FirstTryPending
  <2> QED
    BY <2>1, <2>3 DEF FirstTryPending
<1>7. ReadIsFresh'
  BY <1>3 DEF ReadIsFresh
<1>8. Told(log', t) = Owed(row'[t])
  <2>1. Told(L, t) = Owed(row[t])
    BY DEF LogInv, Recorded
  <2>2. PICK q : q = row'[t]
    OBVIOUS
  <2>3. q.status \in Terminal /\ q.retries = row[t].retries /\ log' = Upserted(L, L, t, q.status)
    BY <2>2
  <2>4. row[t] \in Rows
    BY <1>2
  <2>5. Told(Upserted(L, L, t, q.status), t) = Owed(q)
    BY <1>1, <2>1, <2>3, <2>4, OwedEnded
  <2> QED
    BY <2>2, <2>3, <2>5
<1>9. ASSUME NEW u \in Tasks, u # t PROVE Told(log', u) = Owed(row'[u])
  <2>1. Told(L, u) = Owed(row'[u])
    BY <1>9
  <2>2. PICK st \in {"pending"} \cup Terminal : st = row'[t].status
    OBVIOUS
  <2>3. Told(Upserted(L, L, t, st), u) = Told(L, u)
    BY <1>9, UpsertOther
  <2> QED
    BY <2>1, <2>2, <2>3
<1>10. Recorded'
  BY <1>8, <1>9 DEF Recorded
<1> QED
  BY <1>5, <1>6, <1>7, <1>10 DEF LogInv

(* A step in which no row changes its status or its count, and not the log *)
(* either, keeps what was recorded.                                        *)
LEMMA QuietRows ==
  ASSUME LogInv, UNCHANGED log,
         \A u \in Tasks : row'[u].status = row[u].status /\ row'[u].retries = row[u].retries
  PROVE  /\ FirstTryPending' /\ Recorded' /\ \A u : Spawned(u)' = Spawned(u)
         /\ \A s, t \in Tasks :
              row'[s].status \in Reserving /\ row'[t].status \in Reserving => s = t
<1>1. FirstTryPending'
  BY DEF LogInv, FirstTryPending
<1>2. ASSUME NEW u \in Tasks PROVE Told(log', u) = Owed(row'[u])
  <2>1. Owed(row'[u]) = Owed(row[u])
    BY DEF Owed
  <2> QED
    BY <2>1 DEF LogInv, Recorded
<1>3. Recorded'
  BY <1>2 DEF Recorded
<1>4. \A u : Spawned(u)' = Spawned(u)
  BY DEF Spawned
<1>5. \A s, t \in Tasks : row'[s].status \in Reserving /\ row'[t].status \in Reserving => s = t
  BY DEF LogInv, OneBusy
<1> QED
  BY <1>1, <1>3, <1>4, <1>5

(* The same with a change of phase of the worker that is busy, or of one   *)
(* that is not and does not become so.                                     *)
LEMMA QuietMove ==
  ASSUME TypeInv, LogInv, NEW w \in Workers, NEW phase, NEW S, NEW list, Goto(w, phase, S, list),
         UNCHANGED <<lifecycle, log>>,
         S # {} => \E t \in Tasks :
           /\ S = {t} /\ row[t].status \in StatusIn(phase)
           /\ \A v \in Workers \ {w} : held[v] = {},
         phase \in {"failing", "reaping"} => list = log,
         \A t \in Tasks : phase = "completing" /\ S = {t} =>
           list = log \o PendingEntries(Spawned(t))
  PROVE  LogInv'
<1>1. /\ pc' = [pc EXCEPT ![w] = phase] /\ held' = [held EXCEPT ![w] = S]
      /\ read' = [read EXCEPT ![w] = list]
      /\ pc \in [Workers -> Phases] /\ held \in [Workers -> SUBSET Tasks]
      /\ read \in [Workers -> Seq(Entries)]
  BY DEF Goto, TypeInv, TypeOK
<1>2. row' = row /\ log' = log
  BY DEF lifecycle
<1>3. /\ FirstTryPending' /\ Recorded' /\ \A u : Spawned(u)' = Spawned(u)
      /\ \A s, t \in Tasks : row'[s].status \in Reserving /\ row'[t].status \in Reserving => s = t
  BY <1>2, QuietRows
<1>4. ASSUME NEW v \in Workers, held'[v] # {}
      PROVE  \E t \in Tasks : held'[v] = {t} /\ row'[t].status \in StatusIn(pc'[v])
  <2>1. CASE v = w
    BY <1>1, <1>2, <1>4, <2>1
  <2>2. CASE v # w
    <3>1. held'[v] = held[v] /\ pc'[v] = pc[v]
      BY <1>1, <2>2
    <3>2. PICK t \in Tasks : held[v] = {t} /\ row[t].status \in StatusIn(pc[v])
      BY <1>4, <3>1 DEF LogInv, OneBusy
    <3> QED
      BY <1>2, <3>1, <3>2
  <2> QED
    BY <2>1, <2>2
<1>5. ASSUME NEW u \in Workers, NEW v \in Workers, held'[u] # {}, held'[v] # {}
      PROVE  u = v
  <2>1. CASE S = {}
    <3>1. held[u] # {} /\ held[v] # {}
      BY <1>1, <1>5, <2>1
    <3> QED
      BY <3>1 DEF LogInv, OneBusy
  <2>2. CASE S # {}
    <3>1. \A x \in Workers \ {w} : held'[x] = {}
      BY <1>1, <2>2
    <3> QED
      BY <1>5, <3>1
  <2> QED
    BY <2>1, <2>2
<1>6. OneBusy'
  BY <1>3, <1>4, <1>5 DEF OneBusy
<1>7. ASSUME NEW v \in Workers, pc'[v] \in {"failing", "reaping"} PROVE read'[v] = log'
  BY <1>1, <1>2, <1>7 DEF LogInv, ReadIsFresh
<1>8. ASSUME NEW v \in Workers, NEW t \in Tasks, pc'[v] = "completing", held'[v] = {t}
      PROVE  read'[v] = log' \o PendingEntries(Spawned(t)')
  <2>1. PICK X : X = Spawned(t)
    OBVIOUS
  <2>2. Spawned(t)' = X /\ log' = log
    BY <1>2, <1>3, <2>1
  <2>3. read'[v] = log \o PendingEntries(X)
    <3>1. CASE v = w
      BY <1>1, <1>8, <2>1, <3>1
    <3>2. CASE v # w
      <4>1. read'[v] = read[v] /\ pc[v] = "completing" /\ held[v] = {t}
        BY <1>1, <1>8, <3>2
      <4> QED
        BY <2>1, <4>1 DEF LogInv, ReadIsFresh
    <3> QED
      BY <3>1, <3>2
  <2> QED
    BY <2>2, <2>3
<1>9. ReadIsFresh'
  BY <1>7, <1>8 DEF ReadIsFresh
<1> QED
  BY <1>3, <1>6, <1>9 DEF LogInv

(* A claim reserves the only task, and is told of already.                 *)
LEMMA ClaimKeeps ==
  ASSUME OneAtATime, TypeInv, LogInv, NEW w \in Workers, NEW t \in Tasks, ClaimNext(w, t)
  PROVE  LogInv'
<1>1. /\ Claimable(row, t) /\ row' = [row EXCEPT ![t] = Claimed(row[t], w)]
      /\ Goto(w, "claimed", {t}, <<>>) /\ log' = log
  BY DEF ClaimNext, Claim
<1>2. /\ row \in [Tasks -> Rows] /\ pc \in [Workers -> Phases]
      /\ held \in [Workers -> SUBSET Tasks]
  BY DEF TypeInv, TypeOK
<1>3. /\ \A u \in Tasks : row[u].status \notin Reserving
      /\ \A v \in Workers : held[v] = {} /\ pc[v] \in {"idle", "down"}
  BY <1>1, ClaimAlone DEF LogInv
<1>4. row[t] \in Rows /\ Due(row[t]) /\ (row[t].status = "pending" => row[t].retries = 0)
  BY <1>1, <1>2 DEF Claimable, LogInv, FirstTryPending
<1>5. /\ row'[t] = Claimed(row[t], w) /\ Claimed(row[t], w).status = "claimed"
      /\ Owed(Claimed(row[t], w)) = Owed(row[t])
  <2>1. Owed(Claimed(row[t], w)) = Owed(row[t])
    BY <1>4, OwedClaimed
  <2>2. Claimed(row[t], w).status = "claimed"
    BY <1>4, WriteStatus
  <2> QED
    BY <1>1, <1>2, <2>1, <2>2
<1>6. \A u \in Tasks \ {t} : row'[u] = row[u]
  BY <1>1, <1>2
<1>7. /\ held'[w] = {t} /\ pc'[w] = "claimed"
      /\ \A v \in Workers \ {w} : held'[v] = {} /\ pc'[v] \in {"idle", "down"}
  BY <1>1, <1>2, <1>3 DEF Goto
<1>8. OneBusy'
  <2>1. \A u \in Tasks : row'[u].status \in Reserving => u = t
    BY <1>3, <1>6
  <2>2. row'[t].status \in StatusIn(pc'[w])
    BY <1>5, <1>7 DEF StatusIn
  <2> QED
    BY <1>7, <2>1, <2>2 DEF OneBusy
<1>9. FirstTryPending'
  BY <1>5, <1>6 DEF LogInv, FirstTryPending
<1>10. ReadIsFresh'
  BY <1>7 DEF ReadIsFresh
<1>11. Recorded'
  <2>1. ASSUME NEW u \in Tasks PROVE Told(log', u) = Owed(row'[u])
    BY <1>1, <1>5, <1>6 DEF LogInv, Recorded
  <2> QED
    BY <2>1 DEF Recorded
<1> QED
  BY <1>8, <1>9, <1>10, <1>11 DEF LogInv

(* A start changes nothing that the list tells.                            *)
LEMMA StartKeeps ==
  ASSUME TypeInv, LogInv, NEW w \in Workers, NEW t \in Tasks, MarkRunning(w, t)
  PROVE  LogInv'
<1>1. /\ held[w] = {t} /\ row' = [row EXCEPT ![t].status = "running"]
      /\ Goto(w, "running", {t}, <<>>) /\ log' = log /\ row[t].status = "claimed"
  BY DEF MarkRunning, Start
<1>2. /\ row \in [Tasks -> Rows] /\ pc \in [Workers -> Phases]
      /\ held \in [Workers -> SUBSET Tasks]
  BY DEF TypeInv, TypeOK
<1>3. /\ \A u \in Tasks \ {t} : row[u].status \notin Reserving
      /\ \A v \in Workers \ {w} : held[v] = {} /\ pc[v] \in {"idle", "down"}
  BY <1>1, BusyAlone DEF LogInv
<1>4. row[t] \in Rows /\ row'[t] = [row[t] EXCEPT !.status = "running"]
      /\ \A u \in Tasks \ {t} : row'[u] = row[u]
  BY <1>1, <1>2
<1>5. row'[t].status = "running" /\ row'[t].retries = row[t].retries
  BY <1>4 DEF Rows
<1>6. /\ held'[w] = {t} /\ pc'[w] = "running"
      /\ \A v \in Workers \ {w} : held'[v] = {} /\ pc'[v] \in {"idle", "down"}
  BY <1>1, <1>2, <1>3 DEF Goto
<1>7. OneBusy'
  <2>1. \A u \in Tasks : row'[u].status \in Reserving => u = t
    BY <1>3, <1>4
  <2>2. row'[t].status \in StatusIn(pc'[w])
    BY <1>5, <1>6 DEF StatusIn
  <2> QED
    BY <1>6, <2>1, <2>2 DEF OneBusy
<1>8. FirstTryPending'
  BY <1>4, <1>5 DEF LogInv, FirstTryPending
<1>9. ReadIsFresh'
  BY <1>6 DEF ReadIsFresh
<1>10. Recorded'
  <2>1. ASSUME NEW u \in Tasks PROVE Told(log', u) = Owed(row'[u])
    <3>1. Told(log', u) = Owed(row[u])
      BY <1>1 DEF LogInv, Recorded
    <3>2. CASE u = t
      <4>1. PICK q : q = row'[t]
        OBVIOUS
      <4>2. PICK r : r = row[t]
        OBVIOUS
      <4>3. r.status \in Reserving /\ q.status \in Reserving /\ q.retries = r.retries
        BY <1>1, <1>5, <4>1, <4>2 DEF Reserving
      <4>4. Owed(q) = Owed(r)
        BY <4>3, OwedStarted
      <4> QED
        BY <3>1, <3>2, <4>1, <4>2, <4>4
    <3> QED
      BY <1>4, <3>1, <3>2
  <2> QED
    BY <2>1 DEF Recorded
<1> QED
  BY <1>7, <1>8, <1>9, <1>10 DEF LogInv

(* complete() and its commit: the successors' pending entries, then the    *)
(* outcome, on the list as it is stored.                                   *)
LEMMA CommitKeeps ==
  ASSUME TypeInv, [Next]_vars, LogInv, NEW w \in Workers, NEW t \in Tasks, HandleCommit(w, t)
  PROVE  LogInv'
<1> DEFINE S == Spawned(t)
           M == log \o PendingEntries(S)
<1>1. /\ pc[w] = "completing" /\ held[w] = {t} /\ Complete(t, S)
      /\ log' = Upserted(M, read[w], t, "completed") /\ EndTx(w, "idle", {})
  BY DEF HandleCommit
<1>2. S \in SUBSET Tasks /\ \A u \in S : row[u].status = "absent"
  BY DEF Spawned
<1>3. read[w] = M
  BY <1>1 DEF LogInv, ReadIsFresh
<1>4. /\ log \in Seq(Entries) /\ row \in [Tasks -> Rows]
  BY DEF TypeInv, TypeOK
<1> HIDE DEF S
<1>5. /\ M \in Seq(Entries)
      /\ \A u : u \notin S => Told(M, u) = Told(log, u)
      /\ \A u \in S : Of(log, u) = {} => Told(M, u) = <<1, {"pending"}>>
  BY <1>2, <1>4, AppendPending
<1> HIDE DEF M
<1>6. row[t].status \in Reapable /\ row' = EnqueuedRows([row EXCEPT ![t] = Completed(row[t])], S)
  BY <1>1 DEF Complete
<1>7. t \notin S /\ row'[t] = Completed(row[t])
  BY <1>2, <1>4, <1>6 DEF EnqueuedRows, Reapable
<1>8. row'[t].status = "completed" /\ row'[t].retries = row[t].retries
  BY <1>4, <1>7 DEF Completed, Rows
<1>9. ASSUME NEW u \in Tasks \ {t}
      PROVE  /\ row'[u] = row[u] \/ row'[u] = [AbsentRow EXCEPT !.status = "pending"]
             /\ Told(M, u) = Owed(row'[u])
  <2>1. CASE u \in S
    <3>1. row'[u] = [AbsentRow EXCEPT !.status = "pending"]
      BY <1>2, <1>4, <1>6, <2>1 DEF EnqueuedRows
    <3>2. Of(log, u) = {}
      BY <1>2, <2>1, AbsentHasNone DEF LogInv
    <3> QED
      BY <1>5, <2>1, <3>1, <3>2, OwedNew
  <2>2. CASE u \notin S
    <3>1. row'[u] = row[u]
      BY <1>4, <1>6, <2>2 DEF EnqueuedRows
    <3> QED
      BY <1>5, <2>2, <3>1 DEF LogInv, Recorded
  <2> QED
    BY <2>1, <2>2
<1>10. Types'
  BY RowsRemain
<1>11. Told(M, t) = Told(log, t)
  BY <1>5, <1>7
<1>12. PICK L \in Seq(Entries) : L = M
  BY <1>5
<1>13. log' = Upserted(L, L, t, row'[t].status) /\ row'[t].status \in Terminal
  BY <1>1, <1>3, <1>8, <1>12 DEF Terminal
<1>14. Told(L, t) = Told(log, t)
  BY <1>11, <1>12
<1>15. \A u \in Tasks \ {t} :
         /\ row'[u] = row[u] \/ row'[u] = [AbsentRow EXCEPT !.status = "pending"]
         /\ Told(L, u) = Owed(row'[u])
  BY <1>9, <1>12
<1> QED
  BY <1>1, <1>8, <1>10, <1>13, <1>14, <1>15, EndKeeps

(* A failure recorded by the worker itself, or by the reaper.              *)
LEMMA FailKeeps ==
  ASSUME TypeInv, [Next]_vars, LogInv, NEW w \in Workers, NEW t \in Tasks,
         NEW retryable \in BOOLEAN, NEW delayed \in BOOLEAN,
         held[w] = {t}, Fail({t}, retryable, delayed), EndTx(w, "idle", {}),
         log' = Upserted(log, log, t, "failed")
  PROVE  LogInv'
<1>1. log \in Seq(Entries) /\ row \in [Tasks -> Rows]
  BY DEF TypeInv, TypeOK
<1>2. row' = [u \in Tasks |-> IF u \in {t} THEN Failed(row[u], retryable, delayed) ELSE row[u]]
  BY DEF Fail
<1>3. row'[t] = Failed(row[t], retryable, delayed)
  BY <1>2
<1>4. row'[t].status = "failed" /\ row'[t].retries = row[t].retries
  BY <1>1, <1>3 DEF Failed, Rows
<1>5. ASSUME NEW u \in Tasks \ {t} PROVE row'[u] = row[u] /\ Told(log, u) = Owed(row'[u])
  <2>1. row'[u] = row[u]
    BY <1>2
  <2> QED
    BY <2>1 DEF LogInv, Recorded
<1>6. Types'
  BY RowsRemain
<1>7. PICK L \in Seq(Entries) : L = log
  BY <1>1
<1>8. log' = Upserted(L, L, t, row'[t].status) /\ row'[t].status \in Terminal
  BY <1>4, <1>7 DEF Terminal
<1>9. Told(L, t) = Told(log, t)
  BY <1>7
<1>10. \A u \in Tasks \ {t} :
         /\ row'[u] = row[u] \/ row'[u] = [AbsentRow EXCEPT !.status = "pending"]
         /\ Told(L, u) = Owed(row'[u])
  BY <1>5, <1>7
<1> QED
  BY <1>4, <1>6, <1>8, <1>9, <1>10, EndKeeps

(* A rung is offered when nobody is busy.                                  *)
LEMMA OfferKeeps ==
  ASSUME TypeInv, LogInv, NEW t \in Tasks, Offer(t)
  PROVE  LogInv'
<1>1. /\ row[t].status = "absent" /\ row' = EnqueuedRows(row, {t})
      /\ log' = Upserted(log, log, t, "pending") /\ UNCHANGED <<writer, pc, held, read, faults>>
  BY DEF Offer, Enqueue
<1>2. log \in Seq(Entries) /\ row \in [Tasks -> Rows]
  BY DEF TypeInv, TypeOK
<1>3. /\ \A u \in Tasks : row[u].status \notin Reserving
      /\ \A v \in Workers : held[v] = {} /\ pc[v] \in {"idle", "down"}
  BY OfferAlone DEF LogInv
<1>4. /\ row'[t] = [AbsentRow EXCEPT !.status = "pending"]
      /\ \A u \in Tasks \ {t} : row'[u] = row[u]
  BY <1>1, <1>2 DEF EnqueuedRows
<1>5. row'[t].status = "pending" /\ row'[t].retries = 0
  BY <1>4 DEF AbsentRow
<1>6. OneBusy'
  <2>1. \A u \in Tasks : row'[u].status \notin Reserving
    BY <1>3, <1>4, <1>5 DEF Reserving
  <2> QED
    BY <1>1, <1>3, <2>1 DEF OneBusy
<1>7. FirstTryPending'
  BY <1>4, <1>5 DEF LogInv, FirstTryPending
<1>8. ReadIsFresh'
  BY <1>1, <1>3 DEF ReadIsFresh
<1>9. Of(log, t) = {} /\ Live(log, t) = {}
  BY <1>1, AbsentHasNone DEF LogInv
<1>10. ASSUME NEW u \in Tasks PROVE Told(log', u) = Owed(row'[u])
  <2>1. CASE u = t
    <3>1. Cardinality(Of(log, t)) = 0
      BY <1>9, FS_EmptySet
    <3>2. Told(Upserted(log, log, t, "pending"), t) = <<0 + 1, {"pending"}>>
      BY <1>2, <1>9, <3>1, UpsertOwn
    <3> QED
      BY <1>1, <1>4, <2>1, <3>2, OwedNew
  <2>2. CASE u # t
    <3>1. Told(Upserted(log, log, t, "pending"), u) = Told(log, u)
      BY <1>2, <2>2, UpsertOther
    <3> QED
      BY <1>1, <1>4, <2>2, <3>1 DEF LogInv, Recorded
  <2> QED
    BY <2>1, <2>2
<1>11. Recorded'
  BY <1>10 DEF Recorded
<1> QED
  BY <1>6, <1>7, <1>8, <1>11 DEF LogInv

(* What the list says of each row is inductive where one task runs at a    *)
(* time.                                                                   *)
LEMMA LogStep == OneAtATime /\ TypeInv /\ LogInv /\ [Next]_vars => LogInv'
<1> SUFFICES ASSUME OneAtATime, TypeInv, LogInv, [Next]_vars PROVE LogInv'
  OBVIOUS
<1>1. /\ held \in [Workers -> SUBSET Tasks] /\ read \in [Workers -> Seq(Entries)]
      /\ \A v \in Workers : held[v] = {} <=> pc[v] \in {"idle", "down"}
  BY DEF TypeInv, TypeOK
<1>2. ASSUME NEW w \in Workers, NEW t \in Tasks, ClaimNext(w, t) \/ MarkRunning(w, t)
      PROVE  LogInv'
  BY <1>2, ClaimKeeps, StartKeeps
<1>3. ASSUME NEW w \in Workers, NEW t \in Tasks, HandleRead(w, t) PROVE LogInv'
  <2> DEFINE M == log \o PendingEntries(Spawned(t))
  <2>1. pc[w] = "running" /\ held[w] = {t} /\ Goto(w, "completing", {t}, M)
        /\ UNCHANGED <<lifecycle, log>>
    BY <1>3 DEF HandleRead
  <2>2. /\ row[t].status \in StatusIn("completing")
        /\ \A v \in Workers \ {w} : held[v] = {}
    BY <2>1, BusyAlone DEF LogInv, StatusIn
  <2>3. \A u \in Tasks : {t} = {u} => M = log \o PendingEntries(Spawned(u))
    <3> SUFFICES ASSUME NEW u \in Tasks, {t} = {u} PROVE M = log \o PendingEntries(Spawned(u))
      OBVIOUS
    <3>1. u = t
      OBVIOUS
    <3> QED
      BY <3>1
  <2> HIDE DEF M
  <2>4. PICK list : list = M
    OBVIOUS
  <2>5. PICK H : H = {t}
    OBVIOUS
  <2>6. Goto(w, "completing", H, list)
    BY <2>1, <2>4, <2>5
  <2>7. H # {} => \E u \in Tasks :
          /\ H = {u} /\ row[u].status \in StatusIn("completing")
          /\ \A v \in Workers \ {w} : held[v] = {}
    BY <2>2, <2>5
  <2>8. \A u \in Tasks : H = {u} => list = log \o PendingEntries(Spawned(u))
    BY <2>3, <2>4, <2>5
  <2>9. PICK phase : phase = "completing"
    OBVIOUS
  <2>10. Goto(w, phase, H, list) /\ phase \notin {"failing", "reaping"}
    BY <2>6, <2>9
  <2>11. H # {} => \E u \in Tasks :
           /\ H = {u} /\ row[u].status \in StatusIn(phase)
           /\ \A v \in Workers \ {w} : held[v] = {}
    BY <2>7, <2>9
  <2> QED
    BY <2>1, <2>8, <2>10, <2>11, QuietMove
<1>4. ASSUME NEW w \in Workers, NEW t \in Tasks, HandleCommit(w, t) PROVE LogInv'
  BY <1>4, CommitKeeps
<1>5. ASSUME NEW w \in Workers, NEW t \in Tasks, HandleRaise(w, t) PROVE LogInv'
  <2>1. pc[w] \in {"running", "completing"} /\ held[w] = {t} /\ Goto(w, "raised", {t}, <<>>)
        /\ UNCHANGED <<lifecycle, log>>
    BY <1>5 DEF HandleRaise, EndTx
  <2>2. /\ row[t].status \in StatusIn("raised")
        /\ \A v \in Workers \ {w} : held[v] = {}
    BY <2>1, BusyAlone DEF LogInv, StatusIn
  <2>3. PICK H : H = {t}
    OBVIOUS
  <2>4. Goto(w, "raised", H, <<>>)
    BY <2>1, <2>3
  <2>5. H # {} => \E u \in Tasks :
          /\ H = {u} /\ row[u].status \in StatusIn("raised")
          /\ \A v \in Workers \ {w} : held[v] = {}
    BY <2>2, <2>3
  <2> QED
    BY <2>1, <2>4, <2>5, QuietMove
<1>6. ASSUME NEW w \in Workers, NEW t \in Tasks, RecordRead(w, t) PROVE LogInv'
  <2>1. pc[w] = "raised" /\ held[w] = {t} /\ Goto(w, "failing", {t}, log)
        /\ UNCHANGED <<lifecycle, log>>
    BY <1>6 DEF RecordRead
  <2>2. /\ row[t].status \in StatusIn("failing")
        /\ \A v \in Workers \ {w} : held[v] = {}
    BY <2>1, BusyAlone DEF LogInv, StatusIn
  <2>3. PICK H : H = {t}
    OBVIOUS
  <2>4. Goto(w, "failing", H, log)
    BY <2>1, <2>3
  <2>5. H # {} => \E u \in Tasks :
          /\ H = {u} /\ row[u].status \in StatusIn("failing")
          /\ \A v \in Workers \ {w} : held[v] = {}
    BY <2>2, <2>3
  <2> QED
    BY <2>1, <2>4, <2>5, QuietMove
<1>7. ASSUME NEW w \in Workers, NEW t \in Tasks, NEW retryable \in BOOLEAN,
             RecordCommit(w, t, retryable)
      PROVE  LogInv'
  <2>1. read[w] = log
    BY <1>7 DEF RecordCommit, LogInv, ReadIsFresh
  <2>2. held[w] = {t} /\ Fail({t}, retryable, TRUE) /\ EndTx(w, "idle", {})
        /\ log' = Upserted(log, log, t, "failed")
    BY <1>7, <2>1 DEF RecordCommit
  <2> QED
    BY <2>2, FailKeeps
<1>8. ASSUME NEW w \in Workers, ReapRead(w) PROVE LogInv'
  <2>1. Goto(w, "reaping", Abandoned, log) /\ Abandoned # {} /\ UNCHANGED <<lifecycle, log>>
    BY <1>8 DEF ReapRead
  <2>2. PICK t \in Tasks : Abandoned = {t} /\ row[t].status \in Reapable
    BY <2>1, ReapAlone DEF LogInv
  <2>3. \A v \in Workers \ {w} : held[v] = {}
    BY <2>1, ReapAlone DEF LogInv
  <2>4. PICK H : H = {t}
    OBVIOUS
  <2>5. Goto(w, "reaping", H, log)
    BY <2>1, <2>2, <2>4
  <2>6. H # {} => \E u \in Tasks :
          /\ H = {u} /\ row[u].status \in StatusIn("reaping")
          /\ \A v \in Workers \ {w} : held[v] = {}
    BY <2>2, <2>3, <2>4 DEF StatusIn
  <2> QED
    BY <2>1, <2>5, <2>6, QuietMove
<1>9. ASSUME NEW w \in Workers, ReapCommit(w) PROVE LogInv'
  <2>1. pc[w] = "reaping" /\ Fail(held[w], TRUE, FALSE) /\ log' = AllFailed(log, read[w], held[w])
        /\ EndTx(w, "idle", {})
    BY <1>9 DEF ReapCommit
  <2>2. read[w] = log /\ held[w] # {}
    BY <1>1, <2>1 DEF LogInv, ReadIsFresh
  <2>3. PICK t \in Tasks : held[w] = {t}
    BY <2>2, BusyAlone DEF LogInv
  <2>4. log \in Seq(Entries)
    BY DEF TypeInv
  <2>5. AllFailed(log, log, {t}) = Upserted(log, log, t, "failed")
    BY <2>4, OneFailed
  <2>6. Fail({t}, TRUE, FALSE) /\ log' = Upserted(log, log, t, "failed")
    BY <2>1, <2>2, <2>3, <2>5
  <2> QED
    BY <2>1, <2>3, <2>6, FailKeeps
<1>10. ASSUME NEW w \in Workers, Crash(w) PROVE LogInv'
  <2>1. Goto(w, "down", {}, <<>>) /\ UNCHANGED <<lifecycle, log>>
    BY <1>10 DEF Crash, EndTx
  <2> QED
    BY <2>1, QuietMove
<1>11. ASSUME NEW w \in Workers, Return(w) PROVE LogInv'
  <2>1. Goto(w, "idle", {}, <<>>) /\ UNCHANGED <<lifecycle, log>>
    BY <1>11 DEF Return, EndTx
  <2> QED
    BY <2>1, QuietMove
<1>12. ASSUME UNCHANGED <<log, pc, held, read>>,
              \A u \in Tasks : row'[u].status = row[u].status /\ row'[u].retries = row[u].retries
       PROVE  LogInv'
  <2>1. /\ FirstTryPending' /\ Recorded' /\ \A u : Spawned(u)' = Spawned(u)
        /\ \A s, t \in Tasks : row'[s].status \in Reserving /\ row'[t].status \in Reserving => s = t
    BY <1>12, QuietRows
  <2>2. OneBusy'
    BY <1>12, <2>1 DEF LogInv, OneBusy
  <2>3. ReadIsFresh'
    BY <1>12, <2>1 DEF LogInv, ReadIsFresh
  <2> QED
    BY <2>1, <2>2, <2>3 DEF LogInv
<1>13. ASSUME NEW t \in Tasks, BackoffPasses(t) PROVE LogInv'
  <2>1. row \in [Tasks -> Rows] /\ row' = [row EXCEPT ![t].backoff = FALSE]
    BY <1>13 DEF BackoffPasses, BackoffEnds, TypeInv, TypeOK
  <2>2. \A u \in Tasks : row'[u].status = row[u].status /\ row'[u].retries = row[u].retries
    BY <2>1 DEF Rows
  <2> QED
    BY <1>12, <1>13, <2>2 DEF BackoffPasses, logVars
<1>14. ASSUME NEW t \in Tasks, Offer(t) PROVE LogInv'
  BY <1>14, OfferKeeps
<1>15. ASSUME UNCHANGED vars PROVE LogInv'
  BY <1>12, <1>15 DEF vars, logVars, lifecycle
<1> QED
  BY <1>2, <1>3, <1>4, <1>5, <1>6, <1>7, <1>8, <1>9, <1>10, <1>11, <1>13, <1>14, <1>15 DEF Next

(* And it holds at the start.                                              *)
LEMMA LogInit == Init => LogInv
<1> SUFFICES ASSUME Init PROVE LogInv
  OBVIOUS
<1>1. \A t \in Tasks :
        row[t] = IF t \in Queued THEN [AbsentRow EXCEPT !.status = "pending"] ELSE AbsentRow
  BY DEF Init
<1>2. /\ [AbsentRow EXCEPT !.status = "pending"].status = "pending"
      /\ [AbsentRow EXCEPT !.status = "pending"].retries = 0
      /\ AbsentRow.status = "absent"
  BY DEF AbsentRow
<1>3. /\ \A w \in Workers : held[w] = {} /\ pc[w] = "idle"
      /\ log = PendingEntries(Queued)
  BY DEF Init
<1>4. OneBusy
  <2>1. \A t \in Tasks : row[t].status \notin Reserving
    BY <1>1, <1>2 DEF Reserving
  <2> QED
    BY <1>3, <2>1 DEF OneBusy
<1>5. FirstTryPending
  BY <1>1, <1>2 DEF FirstTryPending
<1>6. ReadIsFresh
  BY <1>3 DEF ReadIsFresh
<1>7. ASSUME NEW t \in Tasks PROVE Told(log, t) = Owed(row[t])
  <2>1. << >> \in Seq(Entries) /\ DOMAIN << >> = {}
    OBVIOUS
  <2>2. << >> \o PendingEntries(Queued) = log
    BY <1>3, LogAssumption, PendingListed
  <2>3. Of(<< >>, t) = {} /\ Top(<< >>, t) = {}
    BY <2>1 DEF Of, Top
  <2>4. Told(<< >>, t) = <<0, {}>>
    BY <2>3, FS_EmptySet DEF Told, Latest
  <2>5. CASE t \in Queued
    <3>1. Told(<< >> \o PendingEntries(Queued), t) = <<1, {"pending"}>>
      BY <2>1, <2>3, <2>5, LogAssumption, AppendPending
    <3> QED
      BY <1>1, <2>2, <2>5, <3>1, OwedNew
  <2>6. CASE t \notin Queued
    <3>1. Told(<< >> \o PendingEntries(Queued), t) = Told(<< >>, t)
      BY <2>1, <2>6, LogAssumption, AppendPending
    <3>2. Owed(row[t]) = <<0, {}>>
      BY <1>1, <1>2, <2>6, OwedNew
    <3> QED
      BY <2>2, <2>4, <3>1, <3>2
  <2> QED
    BY <2>5, <2>6
<1>8. Recorded
  BY <1>7 DEF Recorded
<1> QED
  BY <1>4, <1>5, <1>6, <1>8 DEF LogInv

(* Where one task of the document runs at a time, the list says last of    *)
(* each task how its last try ended, or that it has not ended one yet:     *)
(* "the single thing that must not happen is one being written without the *)
(* other".                                                                 *)
THEOREM LogIsTheRow ==
  ASSUME OneAtATime
  PROVE  Spec => []LogMatchesRow
<1>1. Init => TypeInv /\ LogInv
  BY TypeInit, LogInit
<1>2. TypeInv /\ LogInv /\ [Next]_vars => (TypeInv /\ LogInv)'
  BY TypeStep, LogStep
<1>3. TypeInv /\ LogInv => LogMatchesRow
  BY RecordedSays DEF LogInv
<1> QED
  BY <1>1, <1>2, <1>3, PTL DEF Spec

(* And it has one entry per try, whatever crashed and was reaped.          *)
THEOREM EntriesAreTries ==
  ASSUME OneAtATime
  PROVE  Spec => []OneEntryPerAttempt
<1>1. Init => TypeInv /\ LogInv
  BY TypeInit, LogInit
<1>2. TypeInv /\ LogInv /\ [Next]_vars => (TypeInv /\ LogInv)'
  BY TypeStep, LogStep
<1>3. TypeInv /\ LogInv => OneEntryPerAttempt
  BY RecordedSays DEF LogInv
<1> QED
  BY <1>1, <1>2, <1>3, PTL DEF Spec

(* An outcome written into the list as it is stored, with or without       *)
(* successors appended first, keeps every terminal entry.                  *)
LEMMA HistoryStep ==
  ASSUME TypeInv, LogInv, [Next]_vars, NEW i \in DOMAIN log, log[i].status \in Terminal
  PROVE  i \in DOMAIN log' /\ log'[i] = log[i]
<1>1. log \in Seq(Entries) /\ \A v \in Workers : held[v] = {} <=> pc[v] \in {"idle", "down"}
  BY DEF TypeInv, TypeOK
<1>2. ASSUME NEW L \in Seq(Entries), NEW t \in Tasks, NEW status \in {"pending"} \cup Terminal,
             i \in DOMAIN L, L[i] = log[i], log' = Upserted(L, L, t, status)
      PROVE  i \in DOMAIN log' /\ log'[i] = log[i]
  BY <1>2, UpsertKeeps
<1>3. ASSUME NEW w \in Workers, NEW t \in Tasks, HandleCommit(w, t)
      PROVE  i \in DOMAIN log' /\ log'[i] = log[i]
  <2> DEFINE S == Spawned(t)
             M == log \o PendingEntries(S)
  <2>1. S \in SUBSET Tasks
    BY DEF Spawned
  <2>2. read[w] = M
    BY <1>3 DEF HandleCommit, LogInv, ReadIsFresh
  <2>3. log' = Upserted(M, M, t, "completed")
    BY <1>3, <2>2 DEF HandleCommit
  <2> HIDE DEF S
  <2>4. M \in Seq(Entries) /\ i \in DOMAIN M /\ M[i] = log[i]
    BY <1>1, <2>1, AppendPending
  <2> HIDE DEF M
  <2>5. "completed" \in {"pending"} \cup Terminal
    BY DEF Terminal
  <2> QED
    BY <1>2, <2>3, <2>4, <2>5
<1>4. "failed" \in {"pending"} \cup Terminal /\ "pending" \in {"pending"} \cup Terminal
  BY DEF Terminal
<1>5. ASSUME NEW w \in Workers, NEW t \in Tasks, NEW retryable \in BOOLEAN,
             RecordCommit(w, t, retryable)
      PROVE  i \in DOMAIN log' /\ log'[i] = log[i]
  <2>1. log' = Upserted(log, log, t, "failed")
    BY <1>5 DEF RecordCommit, LogInv, ReadIsFresh
  <2> QED
    BY <1>1, <1>2, <1>4, <2>1
<1>6. ASSUME NEW w \in Workers, ReapCommit(w)
      PROVE  i \in DOMAIN log' /\ log'[i] = log[i]
  <2>1. pc[w] = "reaping" /\ log' = AllFailed(log, read[w], held[w])
    BY <1>6 DEF ReapCommit
  <2>2. read[w] = log /\ held[w] # {}
    BY <1>1, <2>1 DEF LogInv, ReadIsFresh
  <2>3. PICK t \in Tasks : held[w] = {t}
    BY <2>2, BusyAlone DEF LogInv
  <2>4. AllFailed(log, log, {t}) = Upserted(log, log, t, "failed")
    BY <1>1, OneFailed
  <2>5. log' = Upserted(log, log, t, "failed")
    BY <2>1, <2>2, <2>3, <2>4
  <2> QED
    BY <1>1, <1>2, <1>4, <2>5
<1>7. ASSUME NEW t \in Tasks, Offer(t)
      PROVE  i \in DOMAIN log' /\ log'[i] = log[i]
  <2>1. log' = Upserted(log, log, t, "pending")
    BY <1>7 DEF Offer
  <2> QED
    BY <1>1, <1>2, <1>4, <2>1
<1>8. ASSUME UNCHANGED log PROVE i \in DOMAIN log' /\ log'[i] = log[i]
  BY <1>8
<1>9. ASSUME NEW w \in Workers, NEW t \in Tasks,
             ClaimNext(w, t) \/ MarkRunning(w, t) \/ HandleRead(w, t) \/ HandleRaise(w, t)
               \/ RecordRead(w, t)
      PROVE  UNCHANGED log
  BY <1>9 DEF ClaimNext, MarkRunning, HandleRead, HandleRaise, RecordRead
<1>10. ASSUME NEW w \in Workers, ReapRead(w) \/ Crash(w) \/ Return(w) PROVE UNCHANGED log
  BY <1>10 DEF ReapRead, Crash, Return
<1>11. ASSUME NEW t \in Tasks, BackoffPasses(t) PROVE UNCHANGED log
  BY <1>11 DEF BackoffPasses, logVars
<1>12. ASSUME UNCHANGED vars PROVE UNCHANGED log
  BY <1>12 DEF vars, logVars
<1> QED
  BY <1>3, <1>5, <1>6, <1>7, <1>8, <1>9, <1>10, <1>11, <1>12 DEF Next

(* The record is durable: no step moves or rewrites a terminal entry.      *)
THEOREM RecordIsDurable ==
  ASSUME OneAtATime
  PROVE  Spec => HistoryKept
<1>1. Init => TypeInv /\ LogInv
  BY TypeInit, LogInit
<1>2. TypeInv /\ LogInv /\ [Next]_vars => (TypeInv /\ LogInv)'
  BY TypeStep, LogStep
<1>3. TypeInv /\ LogInv /\ [Next]_vars =>
        [\A i \in DOMAIN log : log[i].status \in Terminal =>
           i \in DOMAIN log' /\ log'[i] = log[i]]_vars
  BY HistoryStep
<1> QED
  BY <1>1, <1>2, <1>3, PTL DEF Spec, HistoryKept
=============================================================================
