------------------------- MODULE TransactionsProofs -------------------------
(***************************************************************************)
(* Proofs about Transactions, for any number of threads, db values, keys   *)
(* and versions.                                                           *)
(***************************************************************************)
EXTENDS Transactions, SequenceTheorems, TLAPS

\* A thread that waits to begin, or that is in a transaction, has a live Realm.
InRealm == \A t \in Threads :
    pc[t] \in {"begin", "beginWrite"} \/ writer = t => HasRealm(t)

\* While a function of write() is on the stack of the writer, the transaction is
\* the latest version and what functions did.
WorkIsTheirs == \A t \in Threads :
    writer = t /\ functions[t] > 0 => work = LatestWithDone

IInv == TypeOK /\ WriterOnLatest /\ InRealm /\ WorkIsTheirs

\* What TypeOK says of the history of the file, in the terms the steps use.
LEMMA StoreFacts ==
    ASSUME TypeOK
    PROVE  /\ Latest \in Nat \ {0}
           /\ store[Latest] \in Objects
           /\ \A t \in Threads : at[t] \in 0..Latest
BY EmptySeq, ElementOfSeq, LenProperties DEF TypeOK, Latest

\* A new version is appended to the history and becomes its latest.
LEMMA AppendVersion ==
    ASSUME TypeOK, NEW t \in Threads, CommitTransaction(t)
    PROVE  /\ store' \in Seq(Objects) /\ store' # <<>>
           /\ Latest' = Latest + 1
           /\ store'[Latest'] = work
<1>1. store \in Seq(Objects) /\ work \in Objects /\ store' = Append(store, work)
  BY DEF TypeOK, CommitTransaction
<1>2. /\ store' \in Seq(Objects) /\ Len(store') = Len(store) + 1
      /\ store'[Len(store) + 1] = work
  BY <1>1, AppendProperties
<1>3. store' # <<>>
  BY <1>2, EmptySeq, LenProperties, <1>1
<1>4. QED
  BY <1>2, <1>3 DEF Latest

\* What a db may refer to, given the versions of the file.
LEMMA DbValuesFacts ==
    ASSUME NEW n \in Nat
    PROVE  /\ NoDb \in DbValues(n)
           /\ \A t \in Threads : Live(t) \in DbValues(n)
           /\ \A v \in 1..n : Frozen(v) \in DbValues(n)
           /\ DbValues(n) \subseteq DbValues(n + 1)
BY DEF DbValues

\* The write ends with nothing left of it.
LEMMA BlankWork ==
    /\ NoObjects \in Objects
    /\ Nothing \in [Keys -> ObjectStates \cup {"untouched"}]
BY DEF NoObjects, Objects, ObjectStates, Nothing

\* The thread's Realm ends, and its write with it: the common part of dropping,
\* closing and invalidating.
LEMMA EndOfRealm ==
    ASSUME TypeOK, NEW t \in Threads, NEW d2 \in [Dbs -> DbValues(Latest)],
           db' = d2,
           Rollback(t) \/ UNCHANGED <<at, writer, work, did>>,
           UNCHANGED <<store, pc, functions>>,
           UNCHANGED shut \/ shut' = [shut EXCEPT ![t] = functions[t]]
    PROVE  TypeOK'
<1>1. /\ at' \in [Threads -> 0..Latest] /\ writer' \in Threads \cup {NoThread}
      /\ work' \in Objects /\ did' \in [Keys -> ObjectStates \cup {"untouched"}]
  <2>1. /\ at \in [Threads -> 0..Latest] /\ 0 \in 0..Latest
        /\ writer \in Threads \cup {NoThread}
        /\ work \in Objects /\ did \in [Keys -> ObjectStates \cup {"untouched"}]
    BY StoreFacts DEF TypeOK
  <2>2. CASE EndWrite /\ at' = [at EXCEPT ![t] = 0]
    BY <2>1, <2>2, BlankWork DEF EndWrite
  <2>3. CASE UNCHANGED <<writer, work, did>> /\ (UNCHANGED at \/ at' = [at EXCEPT ![t] = 0])
    BY <2>1, <2>3
  <2>4. QED
    BY <2>2, <2>3 DEF Rollback
<1>2. shut' \in [Threads -> 0..MaxDepth] /\ DepthsAgree'
  <2>1. CASE UNCHANGED shut
    BY <2>1 DEF TypeOK, DepthsAgree
  <2>2. CASE shut' = [shut EXCEPT ![t] = functions[t]]
    <3>1. /\ functions \in [Threads -> 0..MaxDepth] /\ shut \in [Threads -> 0..MaxDepth]
          /\ functions[t] \in 0..MaxDepth /\ functions[t] <= functions[t]
      BY ConstantsAssumption DEF TypeOK
    <3>2. \A u \in Threads : shut'[u] = IF u = t THEN functions[t] ELSE shut[u]
      BY <2>2, <3>1
    <3>3. QED
      BY <2>2, <3>1, <3>2 DEF TypeOK, DepthsAgree
  <2>3. QED
    BY <2>1, <2>2
<1>3. QED
  BY <1>1, <1>2 DEF TypeOK, Latest

\* The invariant holds initially.
LEMMA InitIInv == Init => IInv
<1> SUFFICES ASSUME Init PROVE IInv
  OBVIOUS
<1>1. NoObjects \in Objects
  BY BlankWork
<1>2. store \in Seq(Objects) /\ store # <<>> /\ Len(store) = 1
  BY <1>1 DEF Init
<1>3. TypeOK
  BY <1>1, <1>2, BlankWork, DbValuesFacts, ConstantsAssumption DEF Init, TypeOK, DepthsAgree, Latest
<1>4. QED
  BY <1>3, ConstantsAssumption DEF Init, IInv, WriterOnLatest, InRealm, WorkIsTheirs

\* Steps that neither commit nor begin leave the history as it is.
LEMMA StepTypeOK == TypeOK /\ [Next]_vars => TypeOK'
<1> SUFFICES ASSUME TypeOK, [Next]_vars PROVE TypeOK'
  OBVIOUS
<1>0. /\ Latest \in Nat \ {0} /\ NoDb \in DbValues(Latest)
      /\ \A t \in Threads : Live(t) \in DbValues(Latest) /\ at[t] \in 0..Latest
      /\ \A v \in 1..Latest : Frozen(v) \in DbValues(Latest)
  BY StoreFacts, DbValuesFacts
<1>6. ASSUME NEW t \in Threads, CommitTransaction(t), UNCHANGED <<db, pc>>,
             functions' \in [Threads -> 0..MaxDepth], shut' \in [Threads -> 0..MaxDepth],
             DepthsAgree'
      PROVE  TypeOK'
  <2>1. /\ store' \in Seq(Objects) /\ store' # <<>> /\ Latest' = Latest + 1
      BY <1>6, AppendVersion
  <2>2. db' \in [Dbs -> DbValues(Latest')]
    <3>1. DbValues(Latest) \subseteq DbValues(Latest + 1)
      BY <1>0, DbValuesFacts
    <3>2. QED
      BY <1>6, <2>1, <3>1 DEF TypeOK
  <2>3. at' \in [Threads -> 0..Latest']
    BY <1>0, <1>6, <2>1 DEF CommitTransaction, TypeOK
  <2>4. QED
    <3>1. /\ writer' \in Threads \cup {NoThread} /\ work' \in Objects
          /\ did' \in [Keys -> ObjectStates \cup {"untouched"}]
      BY <1>6, BlankWork DEF CommitTransaction, EndWrite
    <3>2. pc' \in [Threads -> {"runs", "begin", "beginWrite"}]
      BY <1>6 DEF TypeOK
    <3>3. QED
      BY <1>6, <2>1, <2>2, <2>3, <3>1, <3>2 DEF TypeOK
<1>7. ASSUME NEW t \in Threads, FunctionEnds(t)
      PROVE  /\ functions' \in [Threads -> 0..MaxDepth]
             /\ shut' \in [Threads -> 0..MaxDepth]
             /\ DepthsAgree'
  BY <1>7, ConstantsAssumption DEF FunctionEnds, Runs, TypeOK, DepthsAgree
<1>8. ASSUME NEW t \in Threads, FunctionEnds(t), Abandoned(t)
      PROVE  TypeOK'
  <2>1. /\ did' \in [Keys -> ObjectStates \cup {"untouched"}]
        /\ UNCHANGED <<store, at, writer, work, db, pc>>
    BY <1>8, BlankWork DEF FunctionEnds, Abandoned, TypeOK
  <2>2. /\ store' \in Seq(Objects) /\ store' # <<>> /\ db' \in [Dbs -> DbValues(Latest')]
        /\ at' \in [Threads -> 0..Latest'] /\ writer' \in Threads \cup {NoThread}
        /\ work' \in Objects /\ pc' \in [Threads -> {"runs", "begin", "beginWrite"}]
    BY <2>1 DEF TypeOK, Latest
  <2>3. QED
    BY <1>7, <1>8, <2>1, <2>2 DEF TypeOK
<1>9. ASSUME NEW t \in Threads, NEW k \in Keys, NEW x \in ObjectStates, Put(t, k, x)
      PROVE  TypeOK'
  BY <1>9 DEF Put, calls, TypeOK, DepthsAgree, Latest, Objects
<1>1. ASSUME NEW t \in Threads, NEW d \in Dbs, OnDb(t, d)
      PROVE  TypeOK'
  <2>0. ASSUME NEW e \in Dbs, SharedRealm(t, e), UNCHANGED <<store, writer, work, calls, did>>
        PROVE  TypeOK'
    <3>1. /\ db' \in [Dbs -> DbValues(Latest)]
          /\ at' \in [Threads -> 0..Latest]
      BY <1>0, <2>0 DEF SharedRealm, TypeOK
    <3>2. QED
      BY <2>0, <3>1 DEF calls, TypeOK, DepthsAgree, Latest
  <2>1. CASE Open(t, d)
    BY <2>0, <2>1 DEF Open
  <2>2. CASE Drop(t, d)
    <3>1. [db EXCEPT ![d] = NoDb] \in [Dbs -> DbValues(Latest)]
      BY <1>0 DEF TypeOK
    <3>2. QED
      BY <2>2, <3>1, EndOfRealm DEF Drop, calls
  <2>3. CASE Close(t, d)
    <3>1. [e \in Dbs |-> IF db[e] = db[d] THEN NoDb ELSE db[e]]
             \in [Dbs -> DbValues(Latest)]
      BY <1>0 DEF TypeOK
    <3>2. QED
      BY <2>3, <3>1, EndOfRealm DEF Close
  <2>4. CASE Invalidate(t, d)
    <3>1. db \in [Dbs -> DbValues(Latest)]
      BY DEF TypeOK
    <3>2. QED
      BY <2>4, <3>1, EndOfRealm DEF Invalidate, calls
  <2>5. CASE Read(t, d)
    BY <1>0, <2>5 DEF Read, calls, TypeOK, DepthsAgree, Latest
  <2>6. CASE Refresh(t, d)
    BY <1>0, <2>6 DEF Refresh, calls, TypeOK, DepthsAgree, Latest
  <2>7. CASE Commit(t, d)
    <3>1. CommitTransaction(t) /\ UNCHANGED <<db, pc, functions, shut>>
      BY <2>7 DEF Commit, calls
    <3>2. QED
      BY <3>1, <1>6 DEF TypeOK, DepthsAgree
  <2>8. ASSUME NEW e \in Dbs, Freeze(t, d, e)
        PROVE  TypeOK'
    <3> DEFINE v == IF at[t] = 0 THEN Latest ELSE at[t]
    <3>1. v \in 1..Latest
      BY <1>0
    <3>2. /\ db' \in [Dbs -> DbValues(Latest)]
          /\ at' \in [Threads -> 0..Latest]
      <4>1. CASE db[d] = Live(t)
        <5>1. db[d].kind # "frozen"
          BY <4>1 DEF Live
        <5>2. at' = [at EXCEPT ![t] = v] /\ db' = [db EXCEPT ![e] = Frozen(v)]
          BY <2>8, <5>1 DEF Freeze
        <5>3. v \in 0..Latest /\ Frozen(v) \in DbValues(Latest)
          BY <1>0, <3>1
        <5> HIDE DEF v
        <5>4. QED
          BY <5>2, <5>3 DEF TypeOK
      <4>2. CASE db[d].kind = "frozen" /\ UNCHANGED at
        <5>1. /\ at \in [Threads -> 0..Latest] /\ db \in [Dbs -> DbValues(Latest)]
              /\ db[d] \in DbValues(Latest) /\ db[d] # Live(t)
          BY <4>2 DEF TypeOK, Live
        <5>2. db' = [db EXCEPT ![e] = db[d]]
          BY <2>8, <5>1 DEF Freeze
        <5>3. QED
          BY <4>2, <5>1, <5>2
      <4>3. QED
        BY <2>8, <4>1, <4>2 DEF Freeze
    <3>3. QED
      BY <2>8, <3>2 DEF Freeze, calls, TypeOK, DepthsAgree, Latest
  <2>9. ASSUME NEW e \in Dbs, Thaw(t, d, e)
        PROVE  TypeOK'
    BY <2>0, <2>9 DEF Thaw
  <2>10. ASSUME NEW call \in {"begin", "beginWrite"}, Begin(t, d, call)
         PROVE  TypeOK'
    <3>1. DepthsAgree' /\ pc' \in [Threads -> {"runs", "begin", "beginWrite"}]
      BY <2>10, ConstantsAssumption DEF Begin, Uses, Runs, TypeOK, DepthsAgree
    <3>2. QED
      BY <2>10, <3>1 DEF Begin, TypeOK, Latest
  <2>11. ASSUME NEW k \in Keys, Add(t, d, k)
         PROVE  TypeOK'
    BY <1>9, <2>11 DEF Add, ObjectStates
  <2>12. ASSUME NEW k \in Keys, Remove(t, d, k)
         PROVE  TypeOK'
    BY <1>9, <2>12 DEF Remove, ObjectStates
  <2>13. QED
    BY <1>1, <2>1, <2>2, <2>3, <2>4, <2>5, <2>6, <2>7, <2>8, <2>9, <2>10, <2>11,
       <2>12 DEF OnDb
<1>2. ASSUME NEW t \in Threads, Acquire(t)
      PROVE  TypeOK'
  <2>1. /\ at' \in [Threads -> 0..Latest] /\ work' \in Objects
        /\ writer' \in Threads \cup {NoThread}
    BY <1>0, <1>2, StoreFacts DEF Acquire, TypeOK
  <2>2. functions' \in [Threads -> 0..MaxDepth] /\ DepthsAgree'
    BY <1>2, ConstantsAssumption DEF Acquire, Begun, Runs, TypeOK, DepthsAgree
  <2>3. /\ pc' \in [Threads -> {"runs", "begin", "beginWrite"}]
        /\ did' \in [Keys -> ObjectStates \cup {"untouched"}]
    BY <1>2, BlankWork DEF Acquire, Begun, TypeOK
  <2>4. QED
    <3>1. UNCHANGED <<store, db, shut>>
      BY <1>2 DEF Acquire
    <3>2. /\ store' \in Seq(Objects) /\ store' # <<>> /\ db' \in [Dbs -> DbValues(Latest')]
          /\ at' \in [Threads -> 0..Latest'] /\ shut' \in [Threads -> 0..MaxDepth]
      BY <2>1, <3>1 DEF TypeOK, Latest
    <3>3. QED
      BY <2>1, <2>2, <2>3, <3>2 DEF TypeOK
<1>3. ASSUME NEW t \in Threads, Return(t)
      PROVE  TypeOK'
  <2>1. CASE FunctionEnds(t) /\ CommitTransaction(t)
    BY <2>1, <1>6, <1>7 DEF FunctionEnds
  <2>2. QED
    BY <1>3, <1>8, <2>1 DEF Return
<1>4. ASSUME NEW t \in Threads, Throw(t)
      PROVE  TypeOK'
  BY <1>4, <1>8 DEF Throw
<1>5. CASE UNCHANGED vars
  BY <1>5 DEF vars, TypeOK, DepthsAgree, Latest
<1>10. QED
  BY <1>1, <1>2, <1>3, <1>4, <1>5 DEF Next, Quiet

\* The two ways a step can touch the writer's snapshot: a transaction begins on
\* the latest version, and one that is committed or given up is no longer one.
LEMMA StepWriterOnLatest == TypeOK /\ WriterOnLatest /\ [Next]_vars => WriterOnLatest'
<1> SUFFICES ASSUME TypeOK, WriterOnLatest, [Next]_vars PROVE WriterOnLatest'
  OBVIOUS
<1> USE DEF WriterOnLatest
<1>0. at \in [Threads -> 0..Latest] /\ writer \in Threads \cup {NoThread}
  BY DEF TypeOK
<1>1. ASSUME NEW t \in Threads, NEW d \in Dbs, OnDb(t, d)
      PROVE  WriterOnLatest'
  <2>0. ASSUME NEW e \in Dbs, SharedRealm(t, e), UNCHANGED <<store, writer>>,
               ~HasRealm(t) => writer # t \/ at[t] = Latest
        PROVE  WriterOnLatest'
    BY <1>0, <2>0 DEF SharedRealm, Latest
  <2>1. CASE Open(t, d)
    BY <1>0, <2>0, <2>1 DEF Open
  <2>2. CASE Drop(t, d)
    BY <1>0, <2>2, ConstantsAssumption DEF Drop, Rollback, EndWrite, Latest
  <2>3. CASE Close(t, d)
    BY <1>0, <2>3, ConstantsAssumption DEF Close, Rollback, EndWrite, Latest
  <2>4. CASE Invalidate(t, d)
    BY <1>0, <2>4, ConstantsAssumption DEF Invalidate, Rollback, EndWrite, Latest
  <2>5. CASE Read(t, d)
    BY <1>0, <2>5 DEF Read, Latest
  <2>6. CASE Refresh(t, d)
    BY <1>0, <2>6 DEF Refresh, Latest
  <2>7. CASE Commit(t, d)
    BY <2>7 DEF Commit, CommitTransaction, EndWrite
  <2>8. ASSUME NEW e \in Dbs, Freeze(t, d, e)
        PROVE  WriterOnLatest'
    <3>1. UNCHANGED <<store, writer>> /\ (writer # t \/ UNCHANGED at)
          /\ \A u \in Threads : u # t => at'[u] = at[u]
      BY <1>0, <2>8 DEF Freeze
    <3>2. QED
      BY <1>0, <3>1 DEF Latest
  <2>9. ASSUME NEW e \in Dbs, Thaw(t, d, e)
        PROVE  WriterOnLatest'
    BY <1>0, <2>0, <2>9 DEF Thaw
  <2>10. ASSUME NEW call \in {"begin", "beginWrite"}, Begin(t, d, call)
         PROVE  WriterOnLatest'
    BY <2>10 DEF Begin, Latest
  <2>11. ASSUME NEW k \in Keys, Add(t, d, k)
         PROVE  WriterOnLatest'
    BY <2>11 DEF Add, Put, Latest
  <2>12. ASSUME NEW k \in Keys, Remove(t, d, k)
         PROVE  WriterOnLatest'
    BY <2>12 DEF Remove, Put, Latest
  <2>13. QED
    BY <1>1, <2>1, <2>2, <2>3, <2>4, <2>5, <2>6, <2>7, <2>8, <2>9, <2>10, <2>11,
       <2>12 DEF OnDb
<1>2. ASSUME NEW t \in Threads, Acquire(t)
      PROVE  WriterOnLatest'
  BY <1>0, <1>2 DEF Acquire, Latest
<1>3. ASSUME NEW t \in Threads, Return(t)
      PROVE  WriterOnLatest'
  BY <1>3 DEF Return, CommitTransaction, EndWrite, FunctionEnds, Abandoned, Latest
<1>4. ASSUME NEW t \in Threads, Throw(t)
      PROVE  WriterOnLatest'
  BY <1>4 DEF Throw, FunctionEnds, Abandoned, Latest
<1>5. CASE UNCHANGED vars
  BY <1>5 DEF vars, Latest
<1>6. QED
  BY <1>1, <1>2, <1>3, <1>4, <1>5 DEF Next, Quiet

\* A step takes the Realm of a thread away only with its write, and never while
\* the thread waits to begin one.
LEMMA StepInRealm == TypeOK /\ InRealm /\ [Next]_vars => InRealm'
<1> SUFFICES ASSUME TypeOK, InRealm, [Next]_vars,
                    NEW u \in Threads,
                    pc'[u] \in {"begin", "beginWrite"} \/ writer' = u
             PROVE  HasRealm(u)'
  BY DEF InRealm
<1>0. /\ pc \in [Threads -> {"runs", "begin", "beginWrite"}]
      /\ db \in [Dbs -> DbValues(Latest)] /\ writer \in Threads \cup {NoThread}
  BY DEF TypeOK
<1>a. ASSUME UNCHANGED <<pc, writer>>
      PROVE  \E d \in Dbs : db[d] = Live(u)
  BY <1>a DEF InRealm, HasRealm
<1>1. ASSUME NEW t \in Threads, NEW d \in Dbs, OnDb(t, d)
      PROVE  HasRealm(u)'
  <2>0. ASSUME NEW e \in Dbs, NEW x, ~Used(e), db' = [db EXCEPT ![e] = x],
               UNCHANGED <<pc, writer>>
        PROVE  HasRealm(u)'
    <3>1. PICK c \in Dbs : db[c] = Live(u)
      BY <1>a, <2>0
    <3>2. c # e
      BY <2>0, <3>1 DEF Used, NoDb, Live
    <3>3. db'[c] = Live(u)
      BY <1>0, <2>0, <3>1, <3>2
    <3>4. QED
      BY <3>3 DEF HasRealm, Live
  <2>00. ASSUME UNCHANGED <<db, pc>>, writer' \in {writer, NoThread}
         PROVE  HasRealm(u)'
    BY <2>00, ConstantsAssumption DEF InRealm, HasRealm, Live
  <2>1. CASE Open(t, d)
    BY <2>0, <2>1 DEF Open, SharedRealm, calls
  <2>2. CASE Drop(t, d)
    <3>1. /\ UNCHANGED pc /\ Runs(t) /\ db' = [db EXCEPT ![d] = NoDb]
          /\ writer' \in {writer, NoThread} /\ db[d].owner \in {t, NoThread}
          /\ (db[d] = Live(t) /\ \A e \in Dbs \ {d} : db[e] # Live(t))
                 => writer' # t
      BY <1>0, <2>2, ConstantsAssumption DEF Drop, Rollback, EndWrite, calls
    <3>2. PICK c \in Dbs : db[c] = Live(u)
      BY <3>1, ConstantsAssumption DEF InRealm, HasRealm
    <3>3. \E e \in Dbs \ {d} : db[e] = Live(u)
      <4>1. CASE c = d
        <5>1. db[d].owner = u /\ u = t
          BY <3>1, <3>2, <4>1, ConstantsAssumption DEF Live
        <5>2. QED
          BY <3>1, <3>2, <4>1, <5>1 DEF Runs
      <4>2. CASE c # d
        BY <3>2, <4>2
      <4>3. QED
        BY <4>1, <4>2
    <3>4. QED
      BY <1>0, <3>1, <3>3 DEF HasRealm, Live
  <2>3. CASE Close(t, d)
    <3>1. /\ UNCHANGED pc /\ Runs(t) /\ writer' \in {writer, NoThread}
          /\ db' = [e \in Dbs |-> IF db[e] = db[d] THEN NoDb ELSE db[e]]
          /\ \/ db[d] = Live(t) /\ writer' # t
             \/ db[d].kind = "frozen"
      BY <1>0, <2>3, ConstantsAssumption DEF Close, Uses, Rollback, EndWrite
    <3>2. PICK c \in Dbs : db[c] = Live(u)
      BY <3>1, ConstantsAssumption DEF InRealm, HasRealm
    <3>3. db[d] # Live(u)
      <4>1. CASE db[d] = Live(t) /\ writer' # t
        <5>1. u # t
          BY <3>1, <4>1 DEF Runs
        <5>2. QED
          BY <4>1, <5>1 DEF Live
      <4>2. CASE db[d].kind = "frozen"
        BY <4>2 DEF Live
      <4>3. QED
        BY <3>1, <4>1, <4>2
    <3>4. QED
      BY <3>1, <3>2, <3>3 DEF HasRealm, Live
  <2>4. CASE Invalidate(t, d)
    BY <2>00, <2>4 DEF Invalidate, Rollback, EndWrite, calls
  <2>5. CASE Read(t, d)
    BY <2>00, <2>5 DEF Read, calls
  <2>6. CASE Refresh(t, d)
    BY <2>00, <2>6 DEF Refresh, calls
  <2>7. CASE Commit(t, d)
    BY <2>00, <2>7 DEF Commit, CommitTransaction, EndWrite, calls
  <2>8. ASSUME NEW e \in Dbs, Freeze(t, d, e)
        PROVE  HasRealm(u)'
    <3>1. ~Used(e) /\ UNCHANGED <<pc, writer>> /\ \E x : db' = [db EXCEPT ![e] = x]
      BY <2>8 DEF Freeze, calls
    <3>2. QED
      BY <2>0, <3>1
  <2>9. ASSUME NEW e \in Dbs, Thaw(t, d, e)
        PROVE  HasRealm(u)'
    BY <2>0, <2>9 DEF Thaw, SharedRealm, calls
  <2>10. ASSUME NEW call \in {"begin", "beginWrite"}, Begin(t, d, call)
         PROVE  HasRealm(u)'
    BY <1>0, <2>10 DEF Begin, Uses, InRealm, HasRealm, Live
  <2>11. ASSUME NEW k \in Keys, Add(t, d, k)
         PROVE  HasRealm(u)'
    BY <2>00, <2>11 DEF Add, Put, calls
  <2>12. ASSUME NEW k \in Keys, Remove(t, d, k)
         PROVE  HasRealm(u)'
    BY <2>00, <2>12 DEF Remove, Put, calls
  <2>13. QED
    BY <1>1, <2>1, <2>2, <2>3, <2>4, <2>5, <2>6, <2>7, <2>8, <2>9, <2>10, <2>11,
       <2>12 DEF OnDb
<1>2. ASSUME NEW t \in Threads, Acquire(t)
      PROVE  HasRealm(u)'
  BY <1>0, <1>2 DEF Acquire, Begun, Runs, InRealm, HasRealm, Live
<1>3. ASSUME NEW t \in Threads, Return(t) \/ Throw(t)
      PROVE  HasRealm(u)'
  <2>1. UNCHANGED <<db, pc>> /\ writer' \in {writer, NoThread}
    BY <1>3 DEF Return, Throw, CommitTransaction, EndWrite, FunctionEnds, Abandoned
  <2>2. QED
    BY <1>0, <2>1, ConstantsAssumption DEF InRealm, HasRealm, Live
<1>4. CASE UNCHANGED vars
  BY <1>4 DEF vars, InRealm, HasRealm, Live
<1>5. QED
  BY <1>1, <1>2, <1>3, <1>4 DEF Next, Quiet

\* A transaction begins as the latest version, every change a function makes is
\* recorded, and nothing else changes the transaction under a function.
LEMMA StepWorkIsTheirs == TypeOK /\ WorkIsTheirs /\ [Next]_vars => WorkIsTheirs'
<1> SUFFICES ASSUME TypeOK, WorkIsTheirs, [Next]_vars,
                    NEW u \in Threads, writer' = u, functions'[u] > 0
             PROVE  work' = LatestWithDone'
  BY DEF WorkIsTheirs
<1>0. /\ functions \in [Threads -> 0..MaxDepth] /\ work \in Objects
      /\ did \in [Keys -> ObjectStates \cup {"untouched"}]
      /\ writer \in Threads \cup {NoThread} /\ u # NoThread
      /\ MaxDepth \in Nat /\ functions[u] \in 0..MaxDepth
  BY ConstantsAssumption DEF TypeOK
<1>a. ASSUME UNCHANGED <<store, work, did>>, writer = u, functions[u] > 0
      PROVE  work' = LatestWithDone'
  BY <1>a DEF WorkIsTheirs, LatestWithDone, Latest
<1>b. ASSUME UNCHANGED <<store, functions>>,
             UNCHANGED <<writer, work, did>> \/ EndWrite
      PROVE  work' = LatestWithDone'
  BY <1>0, <1>a, <1>b DEF EndWrite
<1>c. ASSUME NEW t \in Threads, NEW j \in Keys, NEW x \in ObjectStates, Put(t, j, x),
             writer = t
      PROVE  work' = LatestWithDone'
  <2>1. /\ u = t /\ UNCHANGED <<store, functions>>
        /\ work' = [work EXCEPT ![j] = x]
    BY <1>c DEF Put, calls
  <2>2. did' = [did EXCEPT ![j] = x] /\ work = LatestWithDone
    BY <1>c, <2>1 DEF Put, WorkIsTheirs
  <2>3. x # "untouched"
    BY DEF ObjectStates
  <2>4. QED
    BY <1>0, <2>1, <2>2, <2>3 DEF LatestWithDone, Latest
<1>1. ASSUME NEW t \in Threads, NEW d \in Dbs, OnDb(t, d)
      PROVE  work' = LatestWithDone'
  <2>1. CASE Open(t, d) \/ Drop(t, d) \/ Close(t, d) \/ Invalidate(t, d)
    <3>1. /\ UNCHANGED <<store, functions>>
          /\ UNCHANGED <<writer, work, did>> \/ EndWrite
      BY <2>1 DEF Open, Drop, Close, Invalidate, Rollback, calls
    <3>2. QED
      BY <1>b, <3>1
  <2>2. CASE Read(t, d) \/ Refresh(t, d) \/ \E e \in Dbs : Freeze(t, d, e) \/ Thaw(t, d, e)
    <3>1. UNCHANGED <<store, functions, writer, work, did>>
      BY <2>2 DEF Read, Refresh, Freeze, Thaw, calls
    <3>2. QED
      BY <1>b, <3>1
  <2>3. ASSUME NEW call \in {"begin", "beginWrite"}, Begin(t, d, call)
        PROVE  work' = LatestWithDone'
    BY <1>b, <2>3 DEF Begin
  <2>4. CASE Commit(t, d)
    BY <1>0, <2>4 DEF Commit, CommitTransaction, EndWrite
  <2>5. ASSUME NEW k \in Keys, Add(t, d, k) \/ Remove(t, d, k)
        PROVE  work' = LatestWithDone'
    BY <1>c, <2>5 DEF Add, Remove, ObjectStates
  <2>6. QED
    BY <1>1, <2>1, <2>2, <2>3, <2>4, <2>5 DEF OnDb
<1>2. ASSUME NEW t \in Threads, Acquire(t)
      PROVE  work' = LatestWithDone'
  <2>1. /\ work' = store[Latest] /\ UNCHANGED store /\ did' = Nothing
        /\ store[Latest] \in Objects
    BY <1>2, StoreFacts DEF Acquire, Begun
  <2>2. store[Latest] = [k \in Keys |-> store[Latest][k]]
    BY <2>1 DEF Objects
  <2>3. LatestWithDone' = [k \in Keys |-> store[Latest][k]]
    BY <2>1 DEF LatestWithDone, Latest, Nothing
  <2>4. QED
    BY <2>1, <2>2, <2>3
<1>3. ASSUME NEW t \in Threads, FunctionEnds(t), Abandoned(t)
      PROVE  work' = LatestWithDone'
  <2>1. UNCHANGED <<store, work, writer>> /\ writer = u /\ functions[u] > 0
    BY <1>0, <1>3 DEF FunctionEnds, Abandoned
  <2>2. UNCHANGED did
    BY <1>0, <1>3, <2>1 DEF FunctionEnds, Abandoned
  <2>3. QED
    BY <1>a, <2>1, <2>2
<1>4. ASSUME NEW t \in Threads, Return(t) \/ Throw(t)
      PROVE  work' = LatestWithDone'
  <2>1. CASE CommitTransaction(t)
    BY <1>0, <2>1 DEF CommitTransaction, EndWrite
  <2>2. QED
    BY <1>3, <1>4, <2>1 DEF Return, Throw
<1>5. CASE UNCHANGED vars
  BY <1>b, <1>5 DEF vars
<1>6. QED
  BY <1>1, <1>2, <1>4, <1>5 DEF Next, Quiet

-----------------------------------------------------------------------------
\* The inductive invariant holds in every reachable state.
THEOREM Invariance == Spec => []IInv
<1>1. IInv /\ [Next]_vars => IInv'
  BY StepTypeOK, StepWriterOnLatest, StepInRealm, StepWorkIsTheirs DEF IInv
<1>2. QED
  BY InitIInv, <1>1, PTL DEF Spec

\* The state of the model is well formed: a frozen db names a version of the
\* file, and no Realm reads a version that was not committed.
THEOREM TypeCorrect == Spec => []TypeOK
<1>1. IInv => TypeOK
  BY DEF IInv
<1>2. QED
  BY Invariance, <1>1, PTL

\* A write transaction always builds on the latest version.
THEOREM NoLostUpdate == Spec => []WriterOnLatest
<1>1. IInv => WriterOnLatest
  BY DEF IInv
<1>2. QED
  BY Invariance, <1>1, PTL

\* The write lock is held only by a thread that can still give it up.
THEOREM LockReleasable == Spec => []LockIsReleasable
<1>1. IInv => LockIsReleasable
  BY DEF IInv, TypeOK, InRealm, LockIsReleasable
<1>2. QED
  BY Invariance, <1>1, PTL

\* What write() commits is the latest version and what was done under its
\* function, all of it and nothing else.
THEOREM WritesCommitWhatTheyDid == Spec => WritesCommitTheirWork
<1> DEFINE Step == \A t \in Threads : store' # store /\ functions'[t] < functions[t] =>
        store'[Latest'] = LatestWithDone
<1>1. IInv /\ [Next]_vars => [Step]_vars
  <2> SUFFICES ASSUME IInv, Next, NEW t \in Threads,
                      store' # store, functions'[t] < functions[t]
               PROVE  store'[Latest'] = LatestWithDone
    OBVIOUS
  <2>0. TypeOK /\ WorkIsTheirs /\ functions \in [Threads -> 0..MaxDepth] /\ MaxDepth \in Nat
        /\ functions[t] \in 0..MaxDepth
    BY ConstantsAssumption DEF IInv, TypeOK
  <2>1. ASSUME NEW u \in Threads, Return(u)
        PROVE  store'[Latest'] = LatestWithDone
    <3>1. u = t /\ functions[t] > 0
      BY <2>0, <2>1 DEF Return, FunctionEnds
    <3>2. writer = t /\ CommitTransaction(t)
      BY <2>1, <3>1 DEF Return, Abandoned
    <3>3. store'[Latest'] = work
      BY <2>0, <3>2, AppendVersion
    <3>4. QED
      BY <2>0, <3>1, <3>2, <3>3 DEF WorkIsTheirs
  <2>2. ASSUME NEW u \in Threads, NEW d \in Dbs, OnDb(u, d)
        PROVE  FALSE
    <3>1. UNCHANGED functions \/ \E call \in {"begin", "beginWrite"} : Begin(u, d, call)
      BY <2>2 DEF OnDb, Open, Drop, Close, Invalidate, Read, Refresh, Freeze, Thaw, Add,
         Remove, Put, Commit, calls
    <3>2. UNCHANGED functions
      BY <3>1 DEF Begin
    <3>3. QED
      BY <2>0, <3>2
  <2>3. ASSUME NEW u \in Threads, Acquire(u) \/ Throw(u)
        PROVE  FALSE
    BY <2>3 DEF Acquire, Throw, Abandoned
  <2>4. QED
    BY <2>1, <2>2, <2>3 DEF Next, Quiet, vars
<1>2. QED
  BY Invariance, <1>1, PTL DEF Spec, WritesCommitTheirWork

\* What a thread reads never goes back to an older version.
THEOREM ReadsAreMonotonic == Spec => MonotonicReads
<1> DEFINE Step == \A t \in Threads :
        HasRealm(t) /\ HasRealm(t)' /\ at'[t] # 0 => at[t] <= at'[t]
<1>1. IInv /\ [Next]_vars => [Step]_vars
  <2> SUFFICES ASSUME IInv, Next, NEW u \in Threads, HasRealm(u), at'[u] # 0
               PROVE  at[u] <= at'[u]
    OBVIOUS
  <2>0. /\ Latest \in Nat /\ at \in [Threads -> 0..Latest]
        /\ \A t \in Threads : at[t] \in 0..Latest
    BY StoreFacts DEF IInv, TypeOK
  <2>a. ASSUME at'[u] \in {at[u], Latest, Latest + 1}
        PROVE  at[u] <= at'[u]
    BY <2>0, <2>a
  <2>1. ASSUME NEW t \in Threads, NEW d \in Dbs, OnDb(t, d)
        PROVE  at'[u] \in {0, at[u], Latest, Latest + 1}
    <3>1. CASE Open(t, d) \/ \E e \in Dbs : Thaw(t, d, e)
      <4>1. at' = [at EXCEPT ![t] = IF HasRealm(t) THEN @ ELSE Latest]
        BY <3>1 DEF Open, Thaw, SharedRealm
      <4>2. QED
        BY <2>0, <4>1
    <3>2. CASE Drop(t, d) \/ Close(t, d) \/ Invalidate(t, d)
      BY <2>0, <3>2 DEF Drop, Close, Invalidate, Rollback
    <3>3. CASE Read(t, d) \/ Refresh(t, d) \/ Commit(t, d)
      BY <2>0, <3>3 DEF Read, Refresh, Commit, CommitTransaction
    <3>4. ASSUME NEW e \in Dbs, Freeze(t, d, e)
          PROVE  at'[u] \in {0, at[u], Latest, Latest + 1}
      BY <2>0, <3>4 DEF Freeze
    <3>5. CASE \/ \E call \in {"begin", "beginWrite"} : Begin(t, d, call)
               \/ \E k \in Keys : Add(t, d, k) \/ Remove(t, d, k)
      BY <3>5 DEF Begin, Add, Remove, Put
    <3>6. QED
      BY <2>1, <3>1, <3>2, <3>3, <3>4, <3>5 DEF OnDb
  <2>2. ASSUME NEW t \in Threads, Acquire(t) \/ Return(t) \/ Throw(t)
        PROVE  at'[u] \in {at[u], Latest, Latest + 1}
    BY <2>0, <2>2 DEF Acquire, Return, Throw, CommitTransaction, FunctionEnds, Abandoned
  <2>3. QED
    BY <2>0, <2>a, <2>1, <2>2 DEF Next, Quiet, vars
<1>2. QED
  BY Invariance, <1>1, PTL DEF Spec, MonotonicReads
=============================================================================
