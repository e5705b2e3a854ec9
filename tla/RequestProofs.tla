--------------------------- MODULE RequestProofs ---------------------------
(***************************************************************************)
(* Proofs about ApiKeyFlags, InferenceRouting and PpuPricing: that no      *)
(* billing flag of a key gets lost and its tier is never dropped, that a   *)
(* request is billed by the one service that answers it, that the services *)
(* are tried in the Application's order, and that the charge follows the   *)
(* usage, for any number of requests at a time, any services and           *)
(* fallbacks, payloads of any size and any prices.  MCRequests names the   *)
(* routes R and the properties.                                            *)
(***************************************************************************)
EXTENDS MCRequests, TLAPS

-----------------------------------------------------------------------------
(* Types                                                                    *)

Values == {"none", "0", "1", "assigned", "unassigned"}
Flags == [Field -> Values]
Snapshot == [null : BOOLEAN, f : Flags]
Entry == [kind : {"absent", "partial", "full"}, f : Flags]

Patching == {"exists", "hset", "persist"}
Places == [none |-> {"idle"}, push |-> Patching, keys |-> Patching, tenant |-> Patching,
           unassign |-> {"hset_if", "update_if"}, clear |-> {"hdel", "remove"},
           refresh |-> {"get", "set", "snapshot"}, validate |-> {"rehydrate"}]
Op == {"none", "push", "keys", "tenant", "unassign", "clear", "refresh", "validate"}
Pc == Patching \cup {"idle", "hset_if", "update_if", "hdel", "remove", "get", "set",
                     "snapshot", "rehydrate"}

Task == [op : Op, pc : Pc, field : Field, value : Values, copy : Snapshot, seen : Flags]

\* A request is at a place of its operation, and its values are the operation's.
Proper(t) ==
    /\ t \in Task /\ t.pc \in Places[t.op]
    /\ t.op = "none" => t = Idle
    /\ t.op = "push" => ~t.copy.null /\ t.value = "1"
    /\ t.op \in {"push", "keys"} => t.field = "budget"
    /\ t.op \in {"push", "keys", "tenant"} => t.value # "none"
    /\ t.op = "validate" => ~t.copy.null
    /\ t.seen["tier"] = "none"

StoreTypes ==
    /\ data \in Snapshot /\ hash \in Entry /\ last \in Flags
    /\ data.null => data.f = Blank /\ last = Blank
    /\ hash.kind = "absent" => hash = NoHash

TaskTypes == worker \in [Worker -> Task] /\ \A w \in Worker : Proper(worker[w])

-----------------------------------------------------------------------------
(* The inductive invariant                                                  *)

\* A key without a snapshot has given none to a request.
NullCopies == data.null => \A w \in Worker : worker[w].copy.null

\* Fields that differ from the snapshot's only where they are absent.
Agrees(f) == \A x \in Field : f[x] = "none" \/ f[x] = data.f[x]

\* The snapshot has the last completed write of every field, ...
Lockstep == ~disturbed /\ ~data.null => data.f = last

\* ... a request that will replace it is the only one that writes, ...
Exclusive ==
    ~disturbed => \A w, u \in Worker : w # u /\ worker[w].op \in WholeWriters
                                          => worker[u].op \notin Writers

\* ... has read it as it is, and a refresh mixes nothing else into it.
WillReplace(w) ==
    /\ worker[w].copy.f = data.f
    /\ worker[w].op = "refresh" =>
          /\ Agrees(hash.f)
          /\ Agrees(worker[w].seen)
          /\ \A u \in Worker : worker[u].op = "validate" => worker[u].copy.f = data.f

CopiesCurrent == ~disturbed => \A w \in Worker : worker[w].op \in WholeWriters => WillReplace(w)

\* What the hash holds when only the request t is handled: the snapshot, with the
\* write that t makes to Redis first.
Expected(t) ==
    IF t.pc = "persist" THEN [data.f EXCEPT ![t.field] = t.value]
    ELSE IF t.pc = "update_if" /\ data.f["tier"] # "none"
    THEN [data.f EXCEPT !["tier"] = "unassigned"]
    ELSE IF t.pc = "remove" THEN [data.f EXCEPT !["quota"] = "none"]
    ELSE data.f

InStep(t) ==
    /\ hash.kind = "full" => hash.f = Expected(t) /\ (data.null => t.pc = "snapshot")
    /\ t.pc = "hset" => hash.kind = "full"
    /\ t.op \in {"push", "refresh", "validate"} => t.copy.f = data.f
    /\ t.op = "refresh" => Agrees(t.seen)

Alone(w) == \A u \in Worker \ {w} : worker[u] = Idle

\* Requests handled one after the other keep both stores alike.
Quiet ==
    ~stale => /\ hash.kind # "partial"
              /\ \A w \in Worker : worker[w] # Idle => Alone(w)
              /\ \A w \in Worker : Alone(w) => InStep(worker[w])

\* A key that was issued has a snapshot, and everything made from it has a tier.
Tiered ==
    issued => /\ ~data.null /\ data.f["tier"] # "none"
              /\ hash.kind = "full" => hash.f["tier"] # "none"
              /\ \A w \in Worker : worker[w].op \in {"push", "refresh", "validate"}
                                      => ~worker[w].copy.null /\ worker[w].copy.f["tier"] # "none"

FlagsInv ==
    StoreTypes /\ TaskTypes /\ NullCopies /\ Lockstep /\ Exclusive /\ CopiesCurrent /\ Quiet /\ Tiered

-----------------------------------------------------------------------------
(* Fields and stores                                                        *)

\* The map without a field.
LEMMA BlankFlags == Blank \in Flags /\ \A x \in Field : Blank[x] = "none"
BY DEF Blank, Flags, Field, Values

\* Writing one field.
LEMMA FlagsWith ==
    ASSUME NEW f \in Flags, NEW x \in Field, NEW v \in Values
    PROVE  /\ [f EXCEPT ![x] = v] \in Flags /\ [f EXCEPT ![x] = v][x] = v
           /\ \A y \in Field \ {x} : [f EXCEPT ![x] = v][y] = f[y]
BY DEF Flags

\* A payload over fields that agree with it is the payload.
LEMMA MergeFlags ==
    ASSUME NEW f \in Flags, NEW g \in Flags
    PROVE  /\ Merge(f, g) \in Flags
           /\ \A x \in Field : Merge(f, g)[x] = IF g[x] = "none" THEN f[x] ELSE g[x]
           /\ (\A x \in Field : f[x] = "none" \/ f[x] = g[x]) => Merge(f, g) = g
           /\ (\A x \in Field : g[x] = "none" \/ f[x] = g[x]) => Merge(f, g) = f
BY DEF Merge, Flags

\* The empty stores and the idle request.
LEMMA Empty ==
    /\ NoData \in Snapshot /\ NoData.null /\ NoData.f = Blank
    /\ NoHash \in Entry /\ NoHash.kind = "absent" /\ NoHash.f = Blank
    /\ Idle \in Task /\ Idle.op = "none" /\ Idle.pc = "idle" /\ Idle.seen = Blank
    /\ Idle.field = "budget" /\ Idle.value = "1" /\ Idle.copy = NoData
  <1>1. NoData \in Snapshot /\ NoData.null /\ NoData.f = Blank
    BY BlankFlags DEF NoData, Snapshot
  <1>2. NoHash \in Entry /\ NoHash.kind = "absent" /\ NoHash.f = Blank
    BY BlankFlags DEF NoHash, Entry
  <1>3. /\ Idle \in Task /\ Idle.op = "none" /\ Idle.pc = "idle" /\ Idle.seen = Blank
        /\ Idle.field = "budget" /\ Idle.value = "1" /\ Idle.copy = NoData
    BY <1>1, BlankFlags DEF Idle, Task, Op, Pc, Patching, Field, Values
  <1> QED BY <1>1, <1>2, <1>3

\* A worker without a request.
LEMMA IdleProper == Proper(Idle)
BY Empty, BlankFlags DEF Proper, Places, Field

\* A snapshot made of fields.
LEMMA DataFacts ==
    ASSUME NEW f \in Flags
    PROVE  Data(f) \in Snapshot /\ ~Data(f).null /\ Data(f).f = f
BY DEF Data, Snapshot

\* A snapshot whose field is written.
LEMMA SnapshotWith ==
    ASSUME NEW d \in Snapshot, NEW x \in Field, NEW v \in Values, NEW e, e = [d EXCEPT !.f[x] = v]
    PROVE  e \in Snapshot /\ e.null = d.null /\ e.f = [d.f EXCEPT ![x] = v]
BY FlagsWith DEF Snapshot

\* A hash made of fields.
LEMMA HashFacts ==
    ASSUME NEW k \in {"partial", "full"}, NEW f \in Flags
    PROVE  Hash(k, f) \in Entry /\ Hash(k, f).kind = k /\ Hash(k, f).f = f
BY DEF Hash, Entry

\* HSET of a field: a hash that is gone becomes partial.
LEMMA SetFieldFacts ==
    ASSUME StoreTypes, NEW x \in Field, NEW v \in Values
    PROVE  /\ SetField(x, v) \in Entry /\ SetField(x, v).kind # "absent"
           /\ hash.kind = "absent" => SetField(x, v).kind = "partial"
           /\ hash.kind # "absent" => /\ SetField(x, v).kind = hash.kind
                                      /\ SetField(x, v).f = [hash.f EXCEPT ![x] = v]
  <1>1. hash \in Entry /\ (hash.kind = "absent" <=> hash = NoHash)
    BY Empty DEF StoreTypes
  <1>2. CASE hash = NoHash
    <2>1. [Blank EXCEPT ![x] = v] \in Flags
      BY BlankFlags, FlagsWith
    <2>2. SetField(x, v) = Hash("partial", [Blank EXCEPT ![x] = v])
      BY <1>2 DEF SetField
    <2> QED BY <1>1, <1>2, <2>1, <2>2, HashFacts
  <1>3. CASE hash # NoHash
    <2>1. SetField(x, v) = [hash EXCEPT !.f[x] = v]
      BY <1>3 DEF SetField
    <2>2. [hash.f EXCEPT ![x] = v] \in Flags
      BY <1>1, FlagsWith DEF Entry
    <2> QED BY <1>1, <1>3, <2>1, <2>2 DEF Entry
  <1> QED BY <1>2, <1>3

\* HDEL of a field: only a partial hash can vanish.
LEMMA DeleteFieldFacts ==
    ASSUME StoreTypes, NEW x \in Field
    PROVE  /\ DeleteField(x) \in Entry
           /\ DeleteField(x).kind = "absent" => DeleteField(x) = NoHash
           /\ hash.kind = "absent" => DeleteField(x) = NoHash
           /\ hash.kind = "full" => /\ DeleteField(x).kind = "full"
                                    /\ DeleteField(x).f = [hash.f EXCEPT ![x] = "none"]
           /\ DeleteField(x).kind \in {hash.kind, "absent"}
           /\ \A y \in Field : DeleteField(x).f[y] \in {hash.f[y], "none"}
  <1>1. hash \in Entry /\ (hash.kind = "absent" => hash = NoHash) /\ hash.f \in Flags
    BY DEF StoreTypes, Entry
  <1>2. [hash.f EXCEPT ![x] = "none"] \in Flags /\ "none" \in Values
    BY <1>1, FlagsWith DEF Values
  <1>3. CASE DeleteField(x) = NoHash
    BY <1>1, <1>3, Empty, BlankFlags DEF DeleteField, Entry
  <1>4. CASE DeleteField(x) = [hash EXCEPT !.f[x] = "none"]
    <2>1. PICK e : e = [hash EXCEPT !.f[x] = "none"]
      OBVIOUS
    <2>2. e \in Entry /\ e.kind = hash.kind /\ e.f = [hash.f EXCEPT ![x] = "none"]
      BY <1>1, <1>2, <2>1 DEF Entry
    <2>3. hash.kind = "absent" => e = NoHash
      BY <1>1, <2>1, <2>2, BlankFlags, Empty DEF NoHash, Flags
    <2>4. \A y \in Field : e.f[y] \in {hash.f[y], "none"}
      BY <1>1, <1>2, <2>2, FlagsWith
    <2> QED BY <1>4, <2>1, <2>2, <2>3, <2>4
  <1> QED BY <1>3, <1>4 DEF DeleteField

-----------------------------------------------------------------------------
(* Requests                                                                 *)

\* Only the request of w moves, to t.
Moves(w, t) ==
    /\ worker' = [worker EXCEPT ![w] = t]
    /\ worker'[w] = t /\ \A u \in Worker \ {w} : worker'[u] = worker[u]

\* Requests stay proper when the one that moves is.
LEMMA MovesProper ==
    ASSUME TaskTypes, NEW w \in Worker, NEW t, Moves(w, t), Proper(t)
    PROVE  TaskTypes'
  <1>1. worker' \in [Worker -> Task]
    BY DEF Moves, TaskTypes, Proper
  <1>2. \A u \in Worker : Proper(worker'[u])
    BY DEF Moves, TaskTypes
  <1> QED BY <1>1, <1>2 DEF TaskTypes, Proper

\* A request ends.
LEMMA DoneMoves ==
    ASSUME TaskTypes, NEW w \in Worker, Done(w)
    PROVE  Moves(w, Idle) /\ TaskTypes'
  <1>1. Moves(w, Idle)
    BY DEF Done, Moves, TaskTypes
  <1> QED BY <1>1, MovesProper, IdleProper

\* A request that goes on keeps what it has.
LEMMA GotoMoves ==
    ASSUME TaskTypes, NEW w \in Worker, NEW pc \in Pc, Goto(w, pc)
    PROVE  \E t \in Task : /\ Moves(w, t) /\ t.pc = pc /\ t.op = worker[w].op
                           /\ t.field = worker[w].field /\ t.value = worker[w].value
                           /\ t.copy = worker[w].copy /\ t.seen = worker[w].seen
  <1>1. PICK t : t = [worker[w] EXCEPT !.pc = pc]
    OBVIOUS
  <1>2. worker[w] \in Task
    BY DEF TaskTypes
  <1>3. /\ t \in Task /\ t.pc = pc /\ t.op = worker[w].op
        /\ t.field = worker[w].field /\ t.value = worker[w].value
        /\ t.copy = worker[w].copy /\ t.seen = worker[w].seen
    BY <1>1, <1>2 DEF Task
  <1>4. Moves(w, t)
    BY <1>1 DEF Goto, Moves, TaskTypes
  <1> QED BY <1>3, <1>4

\* A request begins.
LEMMA BeginMoves ==
    ASSUME TaskTypes, NEW w \in Worker, NEW op \in Op, NEW pc \in Pc, NEW x \in Field, NEW v \in Values,
           Begin(w, op, pc, x, v)
    PROVE  \E t \in Task : /\ Moves(w, t) /\ t.op = op /\ t.pc = pc /\ t.field = x /\ t.value = v
                           /\ t.copy = NoData /\ t.seen = Blank
  <1>1. PICK t : t = [Idle EXCEPT !.op = op, !.pc = pc, !.field = x, !.value = v]
    OBVIOUS
  <1>2. /\ t \in Task /\ t.op = op /\ t.pc = pc /\ t.field = x /\ t.value = v
        /\ t.copy = NoData /\ t.seen = Blank
    BY <1>1, Empty DEF Task
  <1>3. Moves(w, t)
    BY <1>1 DEF Begin, Moves, TaskTypes
  <1> QED BY <1>2, <1>3

\* A request begins with a copy of the snapshot.
LEMMA BeginWithCopyMoves ==
    ASSUME TaskTypes, data \in Snapshot, NEW w \in Worker, NEW op \in Op, NEW pc \in Pc,
           BeginWithCopy(w, op, pc)
    PROVE  \E t \in Task : /\ Moves(w, t) /\ t.op = op /\ t.pc = pc /\ t.copy = data
                           /\ t.field = "budget" /\ t.value = "1" /\ t.seen = Blank
  <1>1. PICK t : t = [Idle EXCEPT !.op = op, !.pc = pc, !.copy = data]
    OBVIOUS
  <1>2. /\ t \in Task /\ t.op = op /\ t.pc = pc /\ t.copy = data
        /\ t.field = "budget" /\ t.value = "1" /\ t.seen = Blank
    BY <1>1, Empty DEF Task
  <1>3. Moves(w, t)
    BY <1>1 DEF BeginWithCopy, Moves, TaskTypes
  <1> QED BY <1>2, <1>3

-----------------------------------------------------------------------------
(* The kinds of steps                                                       *)

\* A request begins: the stores stay, and history notes whom it meets.
Begins(w, t) ==
    /\ worker[w] = Idle /\ Moves(w, t) /\ Proper(t)
    /\ UNCHANGED <<data, hash, last, issued>>
    /\ disturbed \/ (t.op # "none" /\ Meets(w, t.op)) => disturbed'
    /\ stale \/ Busy(w) => stale'
    /\ t.pc \in {"idle", "exists", "hset_if", "hdel", "get", "rehydrate"}
    /\ t.op \in {"push", "refresh", "validate"} => t.copy = data
    /\ t.seen = Blank /\ t.copy \in {data, NoData}

\* Such a step keeps the invariant.
LEMMA BeginsKeeps ==
    ASSUME FlagsInv, NEW w \in Worker, NEW t, Begins(w, t)
    PROVE  FlagsInv'
  <1> USE DEF FlagsInv
  <1>1. StoreTypes' /\ Lockstep' /\ TaskTypes'
    BY MovesProper DEF Begins, StoreTypes, Lockstep
  <1>2. worker'[w] = t /\ \A u \in Worker \ {w} : worker'[u] = worker[u]
    BY DEF Begins, Moves
  <1>3. Exclusive'
    <2> SUFFICES ASSUME ~disturbed', NEW v \in Worker, NEW u \in Worker, v # u,
                        worker'[v].op \in WholeWriters, worker'[u].op \in Writers
                 PROVE  FALSE
      BY DEF Exclusive
    <2>1. ~disturbed /\ (t.op # "none" => ~Meets(w, t.op))
      BY DEF Begins
    <2>2. WholeWriters \subseteq Writers /\ "none" \notin Writers
      BY DEF Writers, WholeWriters
    <2>3. CASE v = w
      BY <1>2, <2>1, <2>2, <2>3 DEF Meets
    <2>4. CASE u = w
      BY <1>2, <2>1, <2>2, <2>4 DEF Meets
    <2>5. CASE v # w /\ u # w
      BY <1>2, <2>1, <2>5 DEF Exclusive
    <2> QED BY <2>3, <2>4, <2>5
  <1>4. CopiesCurrent'
    <2> SUFFICES ASSUME ~disturbed', NEW v \in Worker, worker'[v].op \in WholeWriters
                 PROVE  WillReplace(v)'
      BY DEF CopiesCurrent
    <2>1. ~disturbed /\ UNCHANGED <<data, hash>> /\ (t.op # "none" => ~Meets(w, t.op))
      BY DEF Begins
    <2>2. CASE v # w
      <3>1. WillReplace(v) /\ worker'[v] = worker[v]
        BY <1>2, <2>1, <2>2 DEF CopiesCurrent
      <3>2. t.op = "validate" => t.copy = data
        BY DEF Begins
      <3>3. \A u \in Worker : worker'[u].op = "validate" /\ worker[v].op = "refresh"
                                 => worker'[u].copy.f = data.f
        BY <1>2, <3>1, <3>2 DEF WillReplace
      <3> QED BY <2>1, <3>1, <3>3 DEF WillReplace, Agrees
    <2>3. CASE v = w
      <3>1. t.op \in WholeWriters /\ t.copy = data /\ t.seen = Blank
        BY <1>2, <2>3 DEF Begins, WholeWriters
      <3>2. CASE t.op = "push"
        BY <1>2, <2>1, <2>3, <3>1, <3>2 DEF WillReplace
      <3>3. CASE t.op = "refresh"
        <4>1. ~stale /\ \A u \in Worker \ {w} : worker[u].op \notin Writers
          BY <2>1, <3>3 DEF Meets, WholeWriters
        <4>2. Agrees(Blank)
          BY BlankFlags DEF Agrees
        <4>3. ASSUME NEW u \in Worker \ {w}, worker[u] # Idle
              PROVE  worker[u].op = "validate" /\ worker[u].copy.f = data.f
          <5>1. Proper(worker[u]) /\ worker[u].op \in Op
            BY DEF TaskTypes, Task
          <5>2. worker[u].op = "validate"
            BY <4>1, <4>3, <5>1 DEF Proper, Op, Writers, WholeWriters
          <5> QED BY <4>1, <4>3, <5>2 DEF Quiet, InStep
        <4>4. Agrees(hash.f)
          <5>1. PICK u \in Worker : Alone(u) /\ worker[u].op \in {"none", "validate"}
            <6>1. CASE \E u \in Worker \ {w} : worker[u] # Idle
              BY <4>1, <4>3, <6>1 DEF Quiet
            <6>2. CASE \A u \in Worker \ {w} : worker[u] = Idle
              BY <6>2, Empty DEF Alone, Begins
            <6> QED BY <6>1, <6>2
          <5>2. worker[u].pc \in {"idle", "rehydrate"}
            BY <5>1 DEF TaskTypes, Proper, Places
          <5>3. hash.kind = "full" => hash.f = data.f
            BY <4>1, <5>1, <5>2 DEF Quiet, InStep, Expected
          <5>4. hash.kind = "absent" => hash.f = Blank
            BY Empty DEF StoreTypes
          <5>5. hash.kind \in {"absent", "full"}
            BY <4>1 DEF Quiet, StoreTypes, Entry
          <5> QED BY <4>2, <5>3, <5>4, <5>5 DEF Agrees
        <4>5. \A u \in Worker : worker'[u].op = "validate" => worker'[u].copy.f = data.f
          BY <1>2, <3>3, <4>3, Empty
        <4> QED BY <1>2, <2>1, <2>3, <3>1, <4>2, <4>4, <4>5 DEF WillReplace, Agrees
      <3> QED BY <3>1, <3>2, <3>3 DEF WholeWriters
    <2> QED BY <2>2, <2>3
  <1>5. Quiet'
    <2> SUFFICES ASSUME ~stale' PROVE Quiet'
      BY DEF Quiet
    <2>1. ~stale /\ Alone(w) /\ worker[w] = Idle /\ UNCHANGED <<data, hash>>
      BY DEF Begins, Busy, Alone
    <2>2. hash.kind # "partial" /\ InStep(Idle)
      BY <2>1 DEF Quiet
    <2>3. hash.kind = "full" => hash.f = data.f /\ ~data.null
      BY <2>2, Empty DEF InStep, Expected
    <2>4. InStep(t)'
      <3>1. t.seen = Blank /\ Agrees(Blank)'
        BY BlankFlags DEF Begins, Agrees
      <3> QED BY <2>1, <2>3, <3>1 DEF Begins, InStep, Expected
    <2>5. InStep(Idle)'
      BY <2>1, <2>2 DEF InStep, Expected, Agrees
    <2>6. \A u \in Worker \ {w} : worker'[u] = Idle
      BY <1>2, <2>1 DEF Alone
    <2> QED BY <1>2, <2>1, <2>2, <2>4, <2>5, <2>6 DEF Quiet, Alone
  <1>6. Tiered' /\ NullCopies'
    BY <1>2, Empty DEF Tiered, NullCopies, Begins
  <1> QED BY <1>1, <1>3, <1>4, <1>5, <1>6

\* A request goes on in Redis: the snapshot stays.  What it leaves in the hash
\* agrees with the snapshot when a refresh may read it, is what the request's place
\* says when no other is handled, and has a tier.
HashStep(w, t) ==
    /\ worker[w] # Idle /\ Moves(w, t) /\ Proper(t)
    /\ UNCHANGED <<data, last, disturbed, stale, issued>>
    /\ t = Idle \/ (t.op = worker[w].op /\ t.copy = worker[w].copy)
    /\ hash' \in Entry /\ (hash'.kind = "absent" => hash' = NoHash)
    /\ ~disturbed /\ (\E u \in Worker : worker[u].op = "refresh") => Agrees(hash'.f)
    /\ ~disturbed /\ t.op = "refresh" => Agrees(t.seen)
    /\ ~stale => hash'.kind # "partial" /\ InStep(t)'
    /\ issued /\ hash'.kind = "full" => hash'.f["tier"] # "none"

\* Such a step keeps the invariant.
LEMMA HashStepKeeps ==
    ASSUME FlagsInv, NEW w \in Worker, NEW t, HashStep(w, t)
    PROVE  FlagsInv'
  <1> USE DEF FlagsInv
  <1>1. StoreTypes' /\ Lockstep' /\ TaskTypes'
    BY MovesProper DEF HashStep, StoreTypes, Lockstep
  <1>2. worker'[w] = t /\ \A u \in Worker \ {w} : worker'[u] = worker[u]
    BY DEF HashStep, Moves
  <1>3. /\ \A u \in Worker : /\ worker'[u].op \in {"none", worker[u].op}
                             /\ worker'[u].op # "none" => worker'[u].copy = worker[u].copy
        /\ "none" \notin Writers /\ WholeWriters \subseteq Writers
    BY <1>2, Empty DEF HashStep, Writers, WholeWriters
  <1>4. Exclusive'
    BY <1>3 DEF Exclusive, HashStep
  <1>5. CopiesCurrent'
    <2> SUFFICES ASSUME ~disturbed', NEW v \in Worker, worker'[v].op \in WholeWriters
                 PROVE  WillReplace(v)'
      BY DEF CopiesCurrent
    <2>1. ~disturbed /\ UNCHANGED data
      BY DEF HashStep
    <2>2. WillReplace(v) /\ worker'[v].op = worker[v].op /\ worker'[v].copy = worker[v].copy
      BY <1>3, <2>1 DEF CopiesCurrent
    <2>3. worker[v].op = "refresh" => Agrees(hash'.f)
      BY <2>1 DEF HashStep
    <2>4. worker[v].op = "refresh" => Agrees(worker'[v].seen)
      BY <1>2, <2>1, <2>2 DEF HashStep, WillReplace
    <2>5. worker[v].op = "refresh" =>
            \A u \in Worker : worker'[u].op = "validate" => worker'[u].copy.f = data.f
      BY <1>3, <2>2 DEF WillReplace
    <2> QED BY <2>1, <2>2, <2>3, <2>4, <2>5 DEF WillReplace, Agrees
  <1>6. Quiet'
    <2> SUFFICES ASSUME ~stale' PROVE Quiet'
      BY DEF Quiet
    <2>1. ~stale /\ Alone(w) /\ hash'.kind # "partial" /\ InStep(t)'
      BY DEF HashStep, Quiet
    <2>2. \A u \in Worker \ {w} : worker'[u] = Idle
      BY <1>2, <2>1 DEF Alone
    <2>3. ASSUME NEW u \in Worker, Alone(u)' PROVE InStep(worker[u])'
      <3>1. worker'[u] = t
        BY <1>2, <2>2, <2>3 DEF Alone
      <3> QED BY <2>1, <3>1 DEF InStep, Expected, Agrees
    <2> QED BY <2>1, <2>2, <2>3 DEF Quiet, Alone
  <1>7. Tiered' /\ NullCopies'
    BY <1>2, <1>3, Empty DEF Tiered, NullCopies, HashStep
  <1> QED BY <1>1, <1>4, <1>5, <1>6, <1>7

\* A writer of the snapshot ends with its write: the hash stays.
DataStep(w) ==
    /\ worker[w].op \in Writers /\ Moves(w, Idle)
    /\ UNCHANGED <<hash, disturbed, stale, issued>>
    /\ data' \in Snapshot /\ last' \in Flags /\ (data'.null => data.null)
    /\ data'.null => data'.f = Blank /\ last' = Blank
    /\ ~disturbed /\ ~data'.null => data'.f = last'
    /\ ~stale /\ hash.kind = "full" => hash.f = data'.f /\ ~data'.null
    /\ issued => ~data'.null /\ data'.f["tier"] # "none"

\* Such a step keeps the invariant: while nothing was disturbed, no other
\* request holds a copy that the write could make old.
LEMMA DataStepKeeps ==
    ASSUME FlagsInv, NEW w \in Worker, DataStep(w)
    PROVE  FlagsInv'
  <1> USE DEF FlagsInv
  <1>1. StoreTypes' /\ Lockstep' /\ TaskTypes'
    BY MovesProper, IdleProper DEF DataStep, StoreTypes, Lockstep
  <1>2. worker'[w] = Idle /\ \A u \in Worker \ {w} : worker'[u] = worker[u]
    BY DEF DataStep, Moves
  <1>3. Idle.op \notin Writers /\ WholeWriters \subseteq Writers /\ worker[w] # Idle
    BY Empty DEF Writers, WholeWriters, DataStep
  <1>4. Exclusive'
    BY <1>2, <1>3 DEF Exclusive, DataStep
  <1>5. CopiesCurrent'
    BY <1>2, <1>3 DEF Exclusive, DataStep, CopiesCurrent
  <1>6. Quiet'
    <2> SUFFICES ASSUME ~stale' PROVE Quiet'
      BY DEF Quiet
    <2>1. ~stale /\ Alone(w) /\ hash'.kind # "partial"
      BY <1>3 DEF DataStep, Quiet
    <2>2. \A u \in Worker : worker'[u] = Idle
      BY <1>2, <2>1 DEF Alone
    <2>3. InStep(Idle)'
      BY <2>1, Empty DEF DataStep, InStep, Expected
    <2> QED BY <2>1, <2>2, <2>3 DEF Quiet, Alone
  <1>7. Tiered' /\ NullCopies'
    BY <1>2, Empty DEF Tiered, NullCopies, DataStep
  <1> QED BY <1>1, <1>4, <1>5, <1>6, <1>7

-----------------------------------------------------------------------------
(* The requests begin                                                       *)

\* What Starts records of the requests that are already handled.
LEMMA StartsBegins ==
    ASSUME FlagsInv, NEW w \in Worker, NEW op, Starts(w, op), NEW t, Moves(w, t), Proper(t),
           UNCHANGED <<data, hash, last, issued>>, t.op \in {"none", op},
           t.pc \in {"idle", "exists", "hset_if", "hdel", "get", "rehydrate"},
           t.op \in {"push", "refresh", "validate"} => t.copy = data, t.seen = Blank,
           t.copy \in {data, NoData}
    PROVE  FlagsInv'
  <1>1. Begins(w, t)
    BY DEF Begins, Starts
  <1> QED BY <1>1, BeginsKeeps

\* A request that ends where it started.
LEMMA StartsDone ==
    ASSUME FlagsInv, NEW w \in Worker, NEW op, Starts(w, op), Done(w),
           UNCHANGED <<data, hash, last, issued>>
    PROVE  FlagsInv'
BY StartsBegins, DoneMoves, IdleProper, Empty DEF FlagsInv

\* A request that writes one field.
LEMMA StartsBegin ==
    ASSUME FlagsInv, NEW w \in Worker, NEW op \in {"keys", "tenant", "unassign", "clear"},
           NEW pc \in {"exists", "hset_if", "hdel"}, NEW x \in Field, NEW v \in Values,
           Starts(w, op), Begin(w, op, pc, x, v), pc \in Places[op], op = "keys" => x = "budget",
           op \in {"keys", "tenant"} => v # "none",
           UNCHANGED <<data, hash, last, issued>>
    PROVE  FlagsInv'
  <1>1. op \in Op /\ pc \in Pc
    BY DEF Op, Pc, Patching
  <1>2. PICK t \in Task : /\ Moves(w, t) /\ t.op = op /\ t.pc = pc /\ t.field = x /\ t.value = v
                          /\ t.copy = NoData /\ t.seen = Blank
    BY <1>1, BeginMoves DEF FlagsInv
  <1>3. Proper(t)
    BY <1>2, BlankFlags DEF Proper, Field
  <1> QED BY <1>2, <1>3, StartsBegins

\* A request that keeps the snapshot it read.
LEMMA StartsWithCopy ==
    ASSUME FlagsInv, NEW w \in Worker, NEW op \in {"push", "refresh", "validate"},
           NEW pc \in {"exists", "get", "rehydrate"}, pc \in Places[op],
           Starts(w, op), BeginWithCopy(w, op, pc), op # "refresh" => ~data.null,
           UNCHANGED <<data, hash, last, issued>>
    PROVE  FlagsInv'
  <1>1. op \in Op /\ pc \in Pc /\ data \in Snapshot
    BY DEF Op, Pc, Patching, FlagsInv, StoreTypes
  <1>2. PICK t \in Task : /\ Moves(w, t) /\ t.op = op /\ t.pc = pc /\ t.copy = data
                          /\ t.field = "budget" /\ t.value = "1" /\ t.seen = Blank
    BY <1>1, BeginWithCopyMoves DEF FlagsInv
  <1>3. Proper(t)
    BY <1>2, BlankFlags DEF Proper, Field
  <1> QED BY <1>2, <1>3, StartsBegins

\* What an administrator, the consumer or a client begins keeps the invariant.
LEMMA AdminKeeps ==
    ASSUME FlagsInv, NEW w \in Worker, Admin(w) \/ ValidateMiss(w) \/ PushStart(w)
    PROVE  FlagsInv'
  <1>1. /\ "exists" \in Places["keys"] /\ "exists" \in Places["tenant"] /\ "exists" \in Places["push"]
        /\ "hset_if" \in Places["unassign"] /\ "hdel" \in Places["clear"]
        /\ "get" \in Places["refresh"] /\ "rehydrate" \in Places["validate"]
        /\ Field = {"budget", "quota", "tier"}
        /\ Values = {"none", "0", "1", "assigned", "unassigned"}
    BY DEF Places, Patching, Field, Values
  <1>2. ASSUME NEW value \in {"0", "1"}, KeysStart(w, value) PROVE FlagsInv'
    <2>1. Starts(w, "keys") /\ UNCHANGED <<data, hash, last, issued>>
      BY <1>2 DEF KeysStart, AdminStarts
    <2>2. Done(w) \/ Begin(w, "keys", "exists", "budget", value)
      BY <1>2 DEF KeysStart
    <2> QED BY <1>1, <2>1, <2>2, StartsDone, StartsBegin
  <1>3. ASSUME NEW x \in Field, NEW value \in {"0", "1", "assigned"}, TenantStart(w, x, value)
        PROVE FlagsInv'
    <2>1. /\ Starts(w, "tenant") /\ UNCHANGED <<data, hash, last, issued>>
          /\ Begin(w, "tenant", "exists", x, value)
      BY <1>3 DEF TenantStart, AdminStarts, stores
    <2> QED BY <1>1, <2>1, StartsBegin
  <1>4. CASE UnassignStart(w)
    <2>1. /\ Starts(w, "unassign") /\ UNCHANGED <<data, hash, last, issued>>
          /\ Begin(w, "unassign", "hset_if", "tier", "unassigned")
      BY <1>4 DEF UnassignStart, AdminStarts, stores
    <2> QED BY <1>1, <2>1, StartsBegin
  <1>5. CASE ClearStart(w)
    <2>1. /\ Starts(w, "clear") /\ UNCHANGED <<data, hash, last, issued>>
          /\ Begin(w, "clear", "hdel", "quota", "none")
      BY <1>5 DEF ClearStart, AdminStarts, stores
    <2> QED BY <1>1, <2>1, StartsBegin
  <1>6. CASE RefreshStart(w)
    <2>1. /\ Starts(w, "refresh") /\ UNCHANGED <<data, hash, last, issued>>
          /\ BeginWithCopy(w, "refresh", "get")
      BY <1>6 DEF RefreshStart, AdminStarts, stores
    <2> QED BY <1>1, <2>1, StartsWithCopy
  <1>7. CASE ValidateMiss(w)
    <2>1. /\ Starts(w, "validate") /\ UNCHANGED <<data, hash, last, issued>> /\ ~data.null
          /\ BeginWithCopy(w, "validate", "rehydrate")
      BY <1>7 DEF ValidateMiss, stores
    <2> QED BY <1>1, <2>1, StartsWithCopy
  <1>8. CASE PushStart(w)
    <2>1. Starts(w, "push") /\ UNCHANGED <<data, hash, last, issued>>
      BY <1>8 DEF PushStart, stores
    <2>2. Done(w) \/ (BeginWithCopy(w, "push", "exists") /\ ~data.null)
      BY <1>8 DEF PushStart
    <2> QED BY <1>1, <2>1, <2>2, StartsDone, StartsWithCopy
  <1> QED BY <1>1, <1>2, <1>3, <1>4, <1>5, <1>6, <1>7, <1>8 DEF Admin

-----------------------------------------------------------------------------
(* The requests go on in Redis                                              *)

\* The place of a request tells its operation, and the values it has.
LEMMA OpAt ==
    ASSUME FlagsInv, NEW w \in Worker
    PROVE  /\ worker[w].pc \in Patching => worker[w].op \in {"push", "keys", "tenant"}
           /\ worker[w].pc \in {"hset_if", "update_if"} => worker[w].op = "unassign"
           /\ worker[w].pc \in {"hdel", "remove"} => worker[w].op = "clear"
           /\ worker[w].pc \in {"get", "set", "snapshot"} => worker[w].op = "refresh"
           /\ worker[w].pc = "rehydrate" => worker[w].op = "validate"
           /\ worker[w].pc # "idle" => worker[w] # Idle
           /\ Proper(worker[w]) /\ worker[w] \in Task
           /\ worker[w].copy \in Snapshot /\ worker[w].copy.f \in Flags /\ worker[w].seen \in Flags
  <1>1. Proper(worker[w]) /\ worker[w] \in Task
    BY DEF FlagsInv, TaskTypes
  <1>2. worker[w].op \in Op /\ worker[w].pc \in Places[worker[w].op]
    BY <1>1 DEF Proper, Task
  <1>3. worker[w].copy \in Snapshot /\ worker[w].copy.f \in Flags /\ worker[w].seen \in Flags
    BY <1>1 DEF Task, Snapshot
  <1> QED BY <1>1, <1>2, <1>3, Empty DEF Op, Places, Patching

\* What the invariant says of the hash: agreement while a refresh runs, the
\* expected fields while only w is handled, and a tier.
LEMMA HashNow ==
    ASSUME FlagsInv, NEW w \in Worker, worker[w] # Idle
    PROVE  /\ ~disturbed /\ (\E u \in Worker : worker[u].op = "refresh") => Agrees(hash.f)
           /\ ~disturbed /\ worker[w].op \in Writers \ WholeWriters
                 => \A u \in Worker : worker[u].op # "refresh"
           /\ ~disturbed /\ worker[w].op = "push" => \A u \in Worker : worker[u].op # "refresh"
           /\ ~stale => hash.kind \in {"absent", "full"} /\ InStep(worker[w])
           /\ issued /\ hash.kind = "full" => hash.f["tier"] # "none"
           /\ hash \in Entry /\ hash.f \in Flags /\ data.f \in Flags
           /\ hash.kind = "absent" => hash = NoHash /\ hash.f = Blank
           /\ data.null => data.f = Blank /\ last = Blank
  <1>1. ~disturbed /\ (\E u \in Worker : worker[u].op = "refresh") => Agrees(hash.f)
    BY DEF FlagsInv, CopiesCurrent, WillReplace, WholeWriters
  <1>2. /\ ~disturbed /\ worker[w].op \in Writers \ WholeWriters
              => \A u \in Worker : worker[u].op # "refresh"
        /\ ~disturbed /\ worker[w].op = "push" => \A u \in Worker : worker[u].op # "refresh"
    BY DEF FlagsInv, Exclusive, Writers, WholeWriters
  <1>3. /\ hash \in Entry /\ hash.f \in Flags /\ data.f \in Flags
        /\ hash.kind = "absent" => hash = NoHash /\ hash.f = Blank
        /\ data.null => data.f = Blank /\ last = Blank
    BY Empty DEF FlagsInv, StoreTypes, Entry, Snapshot
  <1>4. ~stale => hash.kind \in {"absent", "full"} /\ InStep(worker[w])
    BY <1>3 DEF FlagsInv, Quiet, Entry
  <1>5. issued /\ hash.kind = "full" => hash.f["tier"] # "none"
    BY DEF FlagsInv, Tiered
  <1> QED BY <1>1, <1>2, <1>3, <1>4, <1>5

\* EXISTS of a patch.
LEMMA PatchExistsKeeps ==
    ASSUME FlagsInv, NEW w \in Worker, PatchExists(w)
    PROVE  FlagsInv'
  <1>1. worker[w] # Idle /\ worker[w].op \in {"push", "keys", "tenant"} /\ Proper(worker[w])
    BY OpAt DEF PatchExists, Patching
  <1>2. PICK pc \in {"persist", "hset"} : Goto(w, pc) /\ (pc = "persist" <=> hash = NoHash)
    BY DEF PatchExists
  <1>3. PICK t \in Task : /\ Moves(w, t) /\ t.pc = pc /\ t.op = worker[w].op
                          /\ t.field = worker[w].field /\ t.value = worker[w].value
                          /\ t.copy = worker[w].copy /\ t.seen = worker[w].seen
    BY <1>2, GotoMoves DEF FlagsInv, Pc, Patching
  <1>4. UNCHANGED <<data, hash, last, disturbed, stale, issued>>
    BY DEF PatchExists, stores, history
  <1>5. Proper(t)
    BY <1>1, <1>2, <1>3 DEF Proper, Places, Patching
  <1>6. ~stale => hash'.kind # "partial" /\ InStep(t)'
    <2> SUFFICES ASSUME ~stale PROVE hash'.kind # "partial" /\ InStep(t)'
      OBVIOUS
    <2>1. hash.kind \in {"absent", "full"} /\ InStep(worker[w]) /\ (hash.kind = "absent" <=> hash = NoHash)
      BY <1>1, HashNow, Empty
    <2>2. worker[w].pc = "exists"
      BY DEF PatchExists
    <2> QED BY <1>1, <1>2, <1>3, <1>4, <2>1, <2>2 DEF InStep, Expected
  <1>7. HashStep(w, t)
    BY <1>1, <1>3, <1>4, <1>5, <1>6, HashNow DEF HashStep
  <1> QED BY <1>7, HashStepKeeps

\* HSET of a patch.
LEMMA PatchHsetKeeps ==
    ASSUME FlagsInv, NEW w \in Worker, PatchHset(w)
    PROVE  FlagsInv'
  <1>1. worker[w] # Idle /\ worker[w].op \in {"push", "keys", "tenant"} /\ Proper(worker[w])
    BY OpAt DEF PatchHset, Patching
  <1>2. PICK t \in Task : /\ Moves(w, t) /\ t.pc = "persist" /\ t.op = worker[w].op
                          /\ t.field = worker[w].field /\ t.value = worker[w].value
                          /\ t.copy = worker[w].copy /\ t.seen = worker[w].seen
    BY GotoMoves DEF PatchHset, FlagsInv, Pc, Patching
  <1>3. /\ UNCHANGED <<data, last, disturbed, stale, issued>>
        /\ hash' = SetField(worker[w].field, worker[w].value)
    BY DEF PatchHset, history
  <1>4. Proper(t)
    BY <1>1, <1>2 DEF Proper, Places, Patching
  <1>5. t.field \in Field /\ t.value \in Values /\ t.value # "none"
    BY <1>1, <1>2, <1>4 DEF Proper, Task
  <1>6. /\ hash' \in Entry /\ hash'.kind # "absent"
        /\ hash.kind = "absent" => hash'.kind = "partial"
        /\ hash.kind # "absent" => hash'.kind = hash.kind /\ hash'.f = [hash.f EXCEPT ![t.field] = t.value]
    BY <1>2, <1>3, <1>5, SetFieldFacts DEF FlagsInv
  <1>7. ~stale => hash'.kind # "partial" /\ InStep(t)'
    <2> SUFFICES ASSUME ~stale PROVE hash'.kind # "partial" /\ InStep(t)'
      OBVIOUS
    <2>1. InStep(worker[w]) /\ worker[w].pc = "hset"
      BY <1>1, HashNow DEF PatchHset
    <2>2. hash.kind = "full" /\ hash.f = data.f /\ ~data.null
      BY <2>1 DEF InStep, Expected
    <2> QED BY <1>1, <1>2, <1>3, <1>6, <2>1, <2>2 DEF InStep, Expected
  <1>8. issued /\ hash'.kind = "full" => hash'.f["tier"] # "none"
    <2>1. issued /\ hash'.kind = "full" => hash.kind = "full" /\ hash.f["tier"] # "none" /\ hash.f \in Flags
      BY <1>1, <1>6, HashNow
    <2>2. "tier" \in Field
      BY DEF Field
    <2> QED BY <1>5, <1>6, <2>1, <2>2, FlagsWith
  <1>9. ~disturbed => \A u \in Worker : worker[u].op # "refresh"
    BY <1>1, HashNow DEF Writers, WholeWriters
  <1>10. HashStep(w, t)
    BY <1>1, <1>2, <1>3, <1>4, <1>6, <1>7, <1>8, <1>9 DEF HashStep
  <1> QED BY <1>10, HashStepKeeps

\* The script that marks a tier as unassigned where there is one.
LEMMA HsetIfPresentKeeps ==
    ASSUME FlagsInv, NEW w \in Worker, HsetIfPresent(w)
    PROVE  FlagsInv'
  <1>1. worker[w] # Idle /\ worker[w].op = "unassign" /\ Proper(worker[w])
    BY OpAt DEF HsetIfPresent
  <1>2. PICK t \in Task : /\ Moves(w, t) /\ t.pc = "update_if" /\ t.op = worker[w].op
                          /\ t.field = worker[w].field /\ t.value = worker[w].value
                          /\ t.copy = worker[w].copy /\ t.seen = worker[w].seen
    BY GotoMoves DEF HsetIfPresent, FlagsInv, Pc
  <1>3. /\ UNCHANGED <<data, last, disturbed, stale, issued>>
        /\ hash' = IF hash.f.tier = "none" THEN hash ELSE SetField("tier", "unassigned")
    BY DEF HsetIfPresent, history
  <1>4. Proper(t)
    BY <1>1, <1>2 DEF Proper, Places
  <1>5. "tier" \in Field /\ "unassigned" \in Values
    BY DEF Field, Values
  <1>6. hash.kind = "absent" => hash.f["tier"] = "none"
    BY <1>1, <1>5, HashNow, BlankFlags
  <1>7. /\ hash' \in Entry /\ hash'.kind = hash.kind /\ (hash'.kind = "absent" => hash' = NoHash)
        /\ hash.f["tier"] = "none" => hash' = hash
        /\ hash.f["tier"] # "none" => hash'.f = [hash.f EXCEPT !["tier"] = "unassigned"]
    BY <1>1, <1>3, <1>5, <1>6, SetFieldFacts, HashNow DEF FlagsInv
  <1>8. ~stale => hash'.kind # "partial" /\ InStep(t)'
    <2> SUFFICES ASSUME ~stale PROVE hash'.kind # "partial" /\ InStep(t)'
      OBVIOUS
    <2>1. InStep(worker[w]) /\ worker[w].pc = "hset_if" /\ hash.kind # "partial"
      BY <1>1, HashNow DEF HsetIfPresent
    <2>2. hash.kind = "full" => hash.f = data.f /\ ~data.null
      BY <2>1 DEF InStep, Expected
    <2> QED BY <1>1, <1>2, <1>3, <1>7, <2>1, <2>2 DEF InStep, Expected
  <1>9. issued /\ hash'.kind = "full" => hash'.f["tier"] # "none"
    <2>1. issued /\ hash'.kind = "full" => hash.f["tier"] # "none" /\ hash.f \in Flags
      BY <1>1, <1>7, HashNow
    <2> QED BY <1>5, <1>7, <2>1, FlagsWith
  <1>10. ~disturbed => \A u \in Worker : worker[u].op # "refresh"
    BY <1>1, HashNow DEF Writers, WholeWriters
  <1>11. HashStep(w, t)
    BY <1>1, <1>2, <1>3, <1>4, <1>7, <1>8, <1>9, <1>10 DEF HashStep
  <1> QED BY <1>11, HashStepKeeps

\* HDEL of the quota flags.
LEMMA ClearHdelKeeps ==
    ASSUME FlagsInv, NEW w \in Worker, ClearHdel(w)
    PROVE  FlagsInv'
  <1>1. worker[w] # Idle /\ worker[w].op = "clear" /\ Proper(worker[w])
    BY OpAt DEF ClearHdel
  <1>2. PICK t \in Task : /\ Moves(w, t) /\ t.pc = "remove" /\ t.op = worker[w].op
                          /\ t.field = worker[w].field /\ t.value = worker[w].value
                          /\ t.copy = worker[w].copy /\ t.seen = worker[w].seen
    BY GotoMoves DEF ClearHdel, FlagsInv, Pc
  <1>3. UNCHANGED <<data, last, disturbed, stale, issued>> /\ hash' = DeleteField("quota")
    BY DEF ClearHdel, history
  <1>4. Proper(t)
    BY <1>1, <1>2 DEF Proper, Places
  <1>5. "quota" \in Field /\ "tier" \in Field \ {"quota"} /\ "none" \in Values
    BY DEF Field, Values
  <1>6. /\ hash' \in Entry /\ (hash'.kind = "absent" => hash' = NoHash)
        /\ hash.kind = "absent" => hash' = NoHash
        /\ hash.kind = "full" => hash'.kind = "full" /\ hash'.f = [hash.f EXCEPT !["quota"] = "none"]
        /\ hash'.kind \in {hash.kind, "absent"}
    BY <1>3, <1>5, DeleteFieldFacts DEF FlagsInv
  <1>7. ~stale => hash'.kind # "partial" /\ InStep(t)'
    <2> SUFFICES ASSUME ~stale PROVE hash'.kind # "partial" /\ InStep(t)'
      OBVIOUS
    <2>1. InStep(worker[w]) /\ worker[w].pc = "hdel" /\ hash.kind # "partial"
      BY <1>1, HashNow DEF ClearHdel
    <2>2. hash.kind = "full" => hash.f = data.f /\ ~data.null
      BY <2>1 DEF InStep, Expected
    <2> QED BY <1>1, <1>2, <1>3, <1>6, <2>1, <2>2, Empty DEF InStep, Expected
  <1>8. issued /\ hash'.kind = "full" => hash'.f["tier"] # "none"
    <2>1. issued /\ hash'.kind = "full" => /\ hash.kind = "full" /\ hash.f["tier"] # "none"
                                           /\ hash.f \in Flags
      BY <1>1, <1>6, HashNow
    <2>2. hash.f \in Flags => [hash.f EXCEPT !["quota"] = "none"]["tier"] = hash.f["tier"]
      BY <1>5, FlagsWith
    <2> QED BY <1>6, <2>1, <2>2
  <1>9. ~disturbed => \A u \in Worker : worker[u].op # "refresh"
    BY <1>1, HashNow DEF Writers, WholeWriters
  <1>10. HashStep(w, t)
    BY <1>1, <1>2, <1>3, <1>4, <1>6, <1>7, <1>8, <1>9 DEF HashStep
  <1> QED BY <1>10, HashStepKeeps

\* A refresh reads the live hash, all of it but the tier.
LEMMA RefreshGetKeeps ==
    ASSUME FlagsInv, NEW w \in Worker, RefreshGet(w)
    PROVE  FlagsInv'
  <1>1. worker[w] # Idle /\ worker[w].op = "refresh" /\ Proper(worker[w]) /\ worker[w] \in Task
    BY OpAt DEF RefreshGet
  <1>2. hash.f \in Flags /\ "tier" \in Field /\ "none" \in Values
    BY <1>1, HashNow DEF Field, Values
  <1>3. PICK seen : seen = [hash.f EXCEPT !["tier"] = "none"]
    OBVIOUS
  <1>4. /\ seen \in Flags /\ seen["tier"] = "none"
        /\ \A x \in Field : seen[x] \in {"none", hash.f[x]}
    BY <1>2, <1>3, FlagsWith
  <1>5. PICK t : t = [worker[w] EXCEPT !.seen = seen, !.pc = "set"]
    OBVIOUS
  <1>6. /\ t \in Task /\ t.pc = "set" /\ t.op = worker[w].op
        /\ t.field = worker[w].field /\ t.value = worker[w].value
        /\ t.copy = worker[w].copy /\ t.seen = seen
    BY <1>1, <1>4, <1>5 DEF Task, Pc
  <1>7. Moves(w, t)
    BY <1>1, <1>3, <1>5 DEF RefreshGet, Moves, FlagsInv, TaskTypes, Task
  <1>8. UNCHANGED <<data, hash, last, disturbed, stale, issued>>
    BY DEF RefreshGet, stores, history
  <1>9. Proper(t)
    BY <1>1, <1>4, <1>6 DEF Proper, Places
  <1>10. Agrees(hash.f) => Agrees(seen)
    BY <1>4 DEF Agrees
  <1>11. ~stale => hash'.kind # "partial" /\ InStep(t)'
    <2> SUFFICES ASSUME ~stale PROVE hash'.kind # "partial" /\ InStep(t)'
      OBVIOUS
    <2>1. InStep(worker[w]) /\ worker[w].pc = "get" /\ hash.kind \in {"absent", "full"}
      BY <1>1, HashNow DEF RefreshGet
    <2>2. hash.kind = "full" => hash.f = data.f /\ ~data.null
      BY <2>1 DEF InStep, Expected
    <2>3. Agrees(hash.f)
      BY <1>1, <2>1, <2>2, HashNow, BlankFlags DEF Agrees
    <2> QED BY <1>1, <1>6, <1>8, <1>10, <2>1, <2>2, <2>3 DEF InStep, Expected, Agrees
  <1>12. HashStep(w, t)
    BY <1>1, <1>6, <1>7, <1>8, <1>9, <1>10, <1>11, HashNow DEF HashStep
  <1> QED BY <1>12, HashStepKeeps

\* Fields that agree with the snapshot, mixed, and a payload over them.
LEMMA PayloadAgrees ==
    ASSUME NEW f \in Flags, NEW g \in Flags, Agrees(g), data.f \in Flags, f = data.f
    PROVE  Merge(f, g) = data.f /\ Merge(g, f) = data.f
BY MergeFlags DEF Agrees

\* HSET of a whole payload that has a tier.
LEMMA PayloadFacts ==
    ASSUME NEW f \in Flags, hash.f \in Flags
    PROVE  /\ SetPayload(f) \in Entry /\ SetPayload(f).kind = "full"
           /\ SetPayload(f).f = Merge(hash.f, f)
           /\ f["tier"] # "none" => SetPayload(f).f["tier"] # "none"
  <1>1. Merge(hash.f, f) \in Flags
    BY MergeFlags
  <1>2. /\ SetPayload(f) \in Entry /\ SetPayload(f).kind = "full"
        /\ SetPayload(f).f = Merge(hash.f, f)
    BY <1>1, HashFacts DEF SetPayload
  <1> QED BY <1>2, MergeFlags DEF Field

\* A refresh writes its payload to Redis.
LEMMA RefreshSetKeeps ==
    ASSUME FlagsInv, NEW w \in Worker, RefreshSet(w)
    PROVE  FlagsInv'
  <1>1. /\ worker[w] # Idle /\ worker[w].op = "refresh" /\ Proper(worker[w])
        /\ worker[w].copy.f \in Flags /\ worker[w].seen \in Flags
    BY OpAt DEF RefreshSet
  <1>2. PICK t \in Task : /\ Moves(w, t) /\ t.pc = "snapshot" /\ t.op = worker[w].op
                          /\ t.field = worker[w].field /\ t.value = worker[w].value
                          /\ t.copy = worker[w].copy /\ t.seen = worker[w].seen
    BY GotoMoves DEF RefreshSet, FlagsInv, Pc
  <1>3. UNCHANGED <<data, last, disturbed, stale, issued>> /\ hash' = SetPayload(RefreshPayload(w))
    BY DEF RefreshSet, history
  <1>4. Proper(t)
    BY <1>1, <1>2 DEF Proper, Places
  <1>5. RefreshPayload(w) \in Flags /\ hash.f \in Flags /\ data.f \in Flags
    BY <1>1, MergeFlags, HashNow DEF RefreshPayload
  <1>6. hash' \in Entry /\ hash'.kind = "full" /\ hash'.f = Merge(hash.f, RefreshPayload(w))
    BY <1>3, <1>5, PayloadFacts
  <1>7. issued => hash'.f["tier"] # "none"
    <2>1. issued => worker[w].copy.f["tier"] # "none"
      BY <1>1 DEF FlagsInv, Tiered
    <2>2. worker[w].seen["tier"] = "none" /\ "tier" \in Field
      BY <1>1 DEF Proper, Field
    <2>3. issued => RefreshPayload(w)["tier"] # "none"
      BY <1>1, <2>1, <2>2, MergeFlags DEF RefreshPayload
    <2> QED BY <1>3, <1>5, <2>3, PayloadFacts
  <1>8. ASSUME worker[w].copy.f = data.f, Agrees(worker[w].seen), Agrees(hash.f)
        PROVE  hash'.f = data.f /\ Agrees(hash'.f)
    <2>1. RefreshPayload(w) = data.f
      BY <1>1, <1>5, <1>8, PayloadAgrees DEF RefreshPayload
    <2>2. hash'.f = data.f
      BY <1>5, <1>6, <1>8, <2>1, PayloadAgrees
    <2> QED BY <2>2 DEF Agrees
  <1>9. ~disturbed => Agrees(hash'.f) /\ Agrees(t.seen)
    BY <1>1, <1>2, <1>8 DEF FlagsInv, CopiesCurrent, WillReplace, WholeWriters
  <1>10. ~stale => hash'.kind # "partial" /\ InStep(t)'
    <2> SUFFICES ASSUME ~stale PROVE hash'.kind # "partial" /\ InStep(t)'
      OBVIOUS
    <2>1. InStep(worker[w]) /\ worker[w].pc = "set" /\ hash.kind \in {"absent", "full"}
      BY <1>1, HashNow DEF RefreshSet
    <2>2. (hash.kind = "full" => hash.f = data.f) /\ worker[w].copy.f = data.f /\ Agrees(worker[w].seen)
      BY <1>1, <2>1 DEF InStep, Expected
    <2>3. Agrees(hash.f)
      BY <1>1, <2>1, <2>2, HashNow, BlankFlags DEF Agrees
    <2>4. hash'.f = data.f
      BY <1>8, <2>2, <2>3
    <2> QED BY <1>1, <1>2, <1>3, <1>6, <2>2, <2>4 DEF InStep, Expected, Agrees
  <1>11. HashStep(w, t)
    BY <1>1, <1>2, <1>3, <1>4, <1>6, <1>7, <1>9, <1>10 DEF HashStep
  <1> QED BY <1>11, HashStepKeeps

\* A validation rebuilds the hash from the snapshot it read.
LEMMA RehydrateKeeps ==
    ASSUME FlagsInv, NEW w \in Worker, Rehydrate(w)
    PROVE  FlagsInv'
  <1>1. /\ worker[w] # Idle /\ worker[w].op = "validate" /\ Proper(worker[w])
        /\ worker[w].copy.f \in Flags
    BY OpAt DEF Rehydrate
  <1>2. Moves(w, Idle)
    BY DoneMoves DEF Rehydrate, FlagsInv
  <1>3. UNCHANGED <<data, last, disturbed, stale, issued>> /\ hash' = SetPayload(worker[w].copy.f)
    BY DEF Rehydrate, history
  <1>4. hash.f \in Flags /\ data.f \in Flags /\ ~data.null
    BY <1>1, HashNow DEF FlagsInv, NullCopies, Proper
  <1>5. hash' \in Entry /\ hash'.kind = "full" /\ hash'.f = Merge(hash.f, worker[w].copy.f)
    BY <1>1, <1>3, <1>4, PayloadFacts
  <1>6. issued => hash'.f["tier"] # "none"
    BY <1>1, <1>3, <1>4, PayloadFacts DEF FlagsInv, Tiered
  <1>7. ASSUME worker[w].copy.f = data.f, Agrees(hash.f)
        PROVE  hash'.f = data.f /\ Agrees(hash'.f)
    BY <1>1, <1>4, <1>5, <1>7, PayloadAgrees DEF Agrees
  <1>8. ~disturbed /\ (\E u \in Worker : worker[u].op = "refresh") => Agrees(hash'.f)
    BY <1>1, <1>7 DEF FlagsInv, CopiesCurrent, WillReplace, WholeWriters
  <1>9. ~stale => hash'.kind # "partial" /\ InStep(Idle)'
    <2> SUFFICES ASSUME ~stale PROVE hash'.kind # "partial" /\ InStep(Idle)'
      OBVIOUS
    <2>1. InStep(worker[w]) /\ worker[w].pc = "rehydrate" /\ hash.kind \in {"absent", "full"}
      BY <1>1, HashNow DEF Rehydrate
    <2>2. (hash.kind = "full" => hash.f = data.f) /\ worker[w].copy.f = data.f
      BY <1>1, <2>1 DEF InStep, Expected
    <2>3. Agrees(hash.f)
      BY <1>1, <2>1, <2>2, HashNow, BlankFlags DEF Agrees
    <2>4. hash'.f = data.f
      BY <1>7, <2>2, <2>3
    <2> QED BY <1>3, <1>4, <1>5, <2>4, Empty DEF InStep, Expected
  <1>10. HashStep(w, Idle)
    BY <1>1, <1>2, <1>3, <1>5, <1>6, <1>8, <1>9, IdleProper, Empty DEF HashStep
  <1> QED BY <1>10, HashStepKeeps

-----------------------------------------------------------------------------
(* The requests write the snapshot                                          *)

\* jsonb_set of one field, by the request that first wrote it to Redis.
LEMMA PatchDataKeeps ==
    ASSUME FlagsInv, NEW w \in Worker, worker[w].op \in Writers, Done(w),
           NEW x \in Field, NEW v \in Values, PatchData(x, v), x = "tier" => v # "none",
           UNCHANGED <<hash, disturbed, stale, issued>>,
           ~stale /\ hash.kind = "full" => hash.f = [data.f EXCEPT ![x] = v] /\ ~data.null
    PROVE  FlagsInv'
  <1>1. Moves(w, Idle)
    BY DoneMoves DEF FlagsInv
  <1>2. /\ data \in Snapshot /\ last \in Flags /\ data.f \in Flags
        /\ data.null => data.f = Blank /\ last = Blank
    BY DEF FlagsInv, StoreTypes, Snapshot
  <1>3. CASE data.null
    <2>1. UNCHANGED <<data, last>>
      BY <1>3 DEF PatchData
    <2> QED BY <1>1, <1>2, <1>3, <2>1, DataStepKeeps DEF DataStep, FlagsInv, Tiered
  <1>4. CASE ~data.null
    <2>1. data' = [data EXCEPT !.f[x] = v] /\ last' = [last EXCEPT ![x] = v]
      BY <1>4 DEF PatchData
    <2>2. data' \in Snapshot /\ ~data'.null /\ data'.f = [data.f EXCEPT ![x] = v]
      BY <1>2, <1>4, <2>1, SnapshotWith
    <2>3. last' \in Flags
      BY <1>2, <2>1, FlagsWith
    <2>4. ~disturbed => data'.f = last'
      BY <1>4, <2>1, <2>2 DEF FlagsInv, Lockstep
    <2>5. issued => data'.f["tier"] # "none"
      <3>1. issued => data.f["tier"] # "none"
        BY DEF FlagsInv, Tiered
      <3>2. "tier" \in Field
        BY DEF Field
      <3> QED BY <1>2, <2>2, <3>1, <3>2, FlagsWith
    <2>6. DataStep(w)
      BY <1>1, <2>2, <2>3, <2>4, <2>5 DEF DataStep
    <2> QED BY <2>6, DataStepKeeps
  <1> QED BY <1>3, <1>4

\* The patches of one field commit.
LEMMA PatchesKeep ==
    ASSUME FlagsInv, NEW w \in Worker,
           KeysCommit(w) \/ TenantUpdate(w) \/ UpdateIfPresent(w) \/ ClearRemove(w)
    PROVE  FlagsInv'
  <1>1. Proper(worker[w]) /\ worker[w] \in Task
    BY OpAt
  <1>2. ASSUME worker[w].pc # "idle", ~stale, hash.kind = "full"
        PROVE  hash.f = Expected(worker[w]) /\ (data.null => worker[w].pc = "snapshot")
    BY <1>2, OpAt, HashNow DEF InStep
  <1>3. "tier" \in Field /\ "quota" \in Field /\ "none" \in Values /\ "unassigned" \in Values
    BY DEF Field, Values
  <1>4. CASE KeysCommit(w)
    <2>1. /\ worker[w].op = "keys" /\ worker[w].pc = "persist" /\ worker[w].field = "budget"
          /\ PatchData(worker[w].field, worker[w].value) /\ Done(w)
          /\ UNCHANGED <<hash, disturbed, stale, issued>>
      BY <1>1, <1>4 DEF KeysCommit, At, Proper
    <2>2. worker[w].op \in Writers /\ worker[w].field \in Field /\ worker[w].value \in Values
      BY <1>1, <2>1 DEF Writers, Task
    <2>3. ~stale /\ hash.kind = "full"
            => hash.f = [data.f EXCEPT ![worker[w].field] = worker[w].value] /\ ~data.null
      BY <1>2, <2>1 DEF Expected
    <2> QED BY <2>1, <2>2, <2>3, PatchDataKeeps
  <1>5. CASE TenantUpdate(w)
    <2>1. /\ worker[w].op = "tenant" /\ worker[w].pc = "persist" /\ worker[w].value # "none"
          /\ PatchData(worker[w].field, worker[w].value) /\ Done(w)
          /\ UNCHANGED <<hash, disturbed, stale, issued>>
      BY <1>1, <1>5 DEF TenantUpdate, At, Proper
    <2>2. worker[w].op \in Writers /\ worker[w].field \in Field /\ worker[w].value \in Values
      BY <1>1, <2>1 DEF Writers, Task
    <2>3. ~stale /\ hash.kind = "full"
            => hash.f = [data.f EXCEPT ![worker[w].field] = worker[w].value] /\ ~data.null
      BY <1>2, <2>1 DEF Expected
    <2> QED BY <2>1, <2>2, <2>3, PatchDataKeeps
  <1>6. CASE UpdateIfPresent(w)
    <2>1. /\ worker[w].op = "unassign" /\ worker[w].pc = "update_if" /\ Done(w)
          /\ UNCHANGED <<hash, disturbed, stale, issued>>
      BY <1>6, OpAt DEF UpdateIfPresent
    <2>2. worker[w].op \in Writers
      BY <2>1 DEF Writers
    <2>3. CASE data.f["tier"] = "none"
      <3>1. UNCHANGED <<data, last>> /\ Moves(w, Idle)
        BY <1>6, <2>1, <2>3, DoneMoves DEF UpdateIfPresent, FlagsInv
      <3>2. ~stale /\ hash.kind = "full" => hash.f = data.f /\ ~data.null
        BY <1>2, <2>1, <2>3 DEF Expected
      <3>3. DataStep(w)
        BY <2>1, <2>2, <3>1, <3>2 DEF DataStep, FlagsInv, StoreTypes, Lockstep, Tiered
      <3> QED BY <3>3, DataStepKeeps
    <2>4. CASE data.f["tier"] # "none"
      <3>1. PatchData("tier", "unassigned")
        BY <1>6, <2>4 DEF UpdateIfPresent
      <3>2. ~stale /\ hash.kind = "full"
              => hash.f = [data.f EXCEPT !["tier"] = "unassigned"] /\ ~data.null
        BY <1>2, <2>1, <2>4 DEF Expected
      <3> QED BY <1>3, <2>1, <2>2, <3>1, <3>2, PatchDataKeeps
    <2> QED BY <2>3, <2>4
  <1>7. CASE ClearRemove(w)
    <2>1. /\ worker[w].op = "clear" /\ worker[w].pc = "remove" /\ Done(w)
          /\ UNCHANGED <<hash, disturbed, stale, issued>> /\ PatchData("quota", "none")
      BY <1>7, OpAt DEF ClearRemove
    <2>2. worker[w].op \in Writers
      BY <2>1 DEF Writers
    <2>3. ~stale /\ hash.kind = "full"
            => hash.f = [data.f EXCEPT !["quota"] = "none"] /\ ~data.null
      BY <1>2, <2>1 DEF Expected
    <2> QED BY <1>3, <2>1, <2>2, <2>3, PatchDataKeeps
  <1> QED BY <1>4, <1>5, <1>6, <1>7

\* The consumer's notice replaces the snapshot with the copy it read.
LEMMA PushPersistKeeps ==
    ASSUME FlagsInv, NEW w \in Worker, PushPersist(w)
    PROVE  FlagsInv'
  <1>1. /\ worker[w].op = "push" /\ worker[w].pc = "persist" /\ worker[w].field = "budget"
        /\ worker[w].value = "1" /\ ~worker[w].copy.null /\ worker[w].copy \in Snapshot
        /\ worker[w].copy.f \in Flags /\ worker[w] # Idle /\ worker[w].op \in Writers
    BY OpAt DEF PushPersist, At, Proper, Writers, WholeWriters
  <1>2. /\ Moves(w, Idle) /\ UNCHANGED <<hash, disturbed, stale, issued>>
        /\ data' = [worker[w].copy EXCEPT !.f["budget"] = "1"]
        /\ last' = [last EXCEPT !["budget"] = "1"]
    BY DoneMoves DEF PushPersist, FlagsInv
  <1>3. "budget" \in Field /\ "tier" \in Field \ {"budget"} /\ "1" \in Values /\ last \in Flags
    BY DEF Field, Values, FlagsInv, StoreTypes
  <1>4. data' \in Snapshot /\ ~data'.null /\ data'.f = [worker[w].copy.f EXCEPT !["budget"] = "1"]
    <2>1. PICK d \in Snapshot : d = worker[w].copy
      BY <1>1
    <2>2. PICK x \in Field, v \in Values : x = "budget" /\ v = "1"
      BY <1>3
    <2>3. PICK e : e = [d EXCEPT !.f[x] = v]
      OBVIOUS
    <2>4. e \in Snapshot /\ e.null = d.null /\ e.f = [d.f EXCEPT ![x] = v]
      BY <2>3, FlagsWith DEF Snapshot
    <2> QED BY <1>1, <1>2, <2>1, <2>2, <2>3, <2>4
  <1>5. ~data.null /\ last' \in Flags
    BY <1>1, <1>2, <1>3, FlagsWith DEF FlagsInv, NullCopies
  <1>6. ~disturbed => data'.f = last'
    BY <1>1, <1>2, <1>4, <1>5 DEF FlagsInv, Lockstep, CopiesCurrent, WillReplace, WholeWriters
  <1>7. ~stale /\ hash.kind = "full" => hash.f = data'.f
    BY <1>1, <1>4, HashNow DEF InStep, Expected
  <1>8. issued => data'.f["tier"] # "none"
    <2>1. issued => worker[w].copy.f["tier"] # "none"
      BY <1>1 DEF FlagsInv, Tiered
    <2> QED BY <1>1, <1>3, <1>4, <2>1, FlagsWith
  <1>9. DataStep(w)
    BY <1>1, <1>2, <1>4, <1>5, <1>6, <1>7, <1>8 DEF DataStep
  <1> QED BY <1>9, DataStepKeeps

\* A refresh replaces the snapshot with its payload.
LEMMA RefreshPersistKeeps ==
    ASSUME FlagsInv, NEW w \in Worker, RefreshPersist(w)
    PROVE  FlagsInv'
  <1>1. /\ worker[w].op = "refresh" /\ worker[w].pc = "snapshot" /\ worker[w] # Idle
        /\ worker[w].copy.f \in Flags /\ worker[w].seen \in Flags
        /\ worker[w].seen["tier"] = "none" /\ worker[w].op \in Writers
    BY OpAt DEF RefreshPersist, Proper, Writers, WholeWriters
  <1>2. /\ Moves(w, Idle) /\ UNCHANGED <<hash, last, disturbed, stale, issued>>
        /\ data' = Data(RefreshPayload(w))
    BY DoneMoves DEF RefreshPersist, FlagsInv, history
  <1>3. RefreshPayload(w) \in Flags /\ data.f \in Flags /\ last \in Flags
    BY <1>1, MergeFlags, HashNow DEF RefreshPayload, FlagsInv, StoreTypes
  <1>4. data' \in Snapshot /\ ~data'.null /\ data'.f = RefreshPayload(w)
    BY <1>2, <1>3, DataFacts
  <1>5. ASSUME worker[w].copy.f = data.f, Agrees(worker[w].seen)
        PROVE  data'.f = data.f
    BY <1>1, <1>3, <1>4, <1>5, PayloadAgrees DEF RefreshPayload
  <1>6. ~disturbed => data'.f = last
    <2>1. ~disturbed => data'.f = data.f
      BY <1>1, <1>5 DEF FlagsInv, CopiesCurrent, WillReplace, WholeWriters
    <2>2. ~disturbed => data.f = last
      BY DEF FlagsInv, Lockstep, StoreTypes
    <2> QED BY <2>1, <2>2
  <1>7. ~stale /\ hash.kind = "full" => hash.f = data'.f
    <2>1. ~stale => InStep(worker[w])
      BY <1>1, HashNow
    <2> QED BY <1>1, <1>5, <2>1 DEF InStep, Expected
  <1>8. issued => data'.f["tier"] # "none"
    <2>1. issued => worker[w].copy.f["tier"] # "none"
      BY <1>1 DEF FlagsInv, Tiered
    <2> QED BY <1>1, <1>4, <2>1, MergeFlags DEF RefreshPayload, Field
  <1>9. DataStep(w)
    BY <1>1, <1>2, <1>3, <1>4, <1>6, <1>7, <1>8 DEF DataStep
  <1> QED BY <1>9, DataStepKeeps

-----------------------------------------------------------------------------
(* Failures, expiry and the invariant                                       *)

\* A request dies: what it wrote to Redis stays, and the stores may differ.
LEMMA AbortKeeps ==
    ASSUME FlagsInv, NEW w \in Worker, Abort(w)
    PROVE  FlagsInv'
  <1> USE DEF FlagsInv
  <1>1. /\ Moves(w, Idle) /\ TaskTypes' /\ stale' = TRUE
        /\ UNCHANGED <<data, hash, last, disturbed, issued>>
    BY DoneMoves DEF Abort
  <1>2. worker'[w] = Idle /\ \A u \in Worker \ {w} : worker'[u] = worker[u]
    BY <1>1 DEF Moves
  <1>3. Idle.op = "none" /\ "none" \notin Writers /\ WholeWriters \subseteq Writers /\ Idle.copy.null
    BY Empty DEF Writers, WholeWriters
  <1>4. StoreTypes' /\ Lockstep' /\ Quiet' /\ NullCopies' /\ Tiered'
    BY <1>1, <1>2, <1>3 DEF StoreTypes, Lockstep, Quiet, NullCopies, Tiered
  <1>5. Exclusive'
    BY <1>1, <1>2, <1>3 DEF Exclusive
  <1>6. CopiesCurrent'
    <2> SUFFICES ASSUME ~disturbed', NEW v \in Worker, worker'[v].op \in WholeWriters
                 PROVE  WillReplace(v)'
      BY DEF CopiesCurrent
    <2>1. v # w /\ worker'[v] = worker[v] /\ WillReplace(v)
      BY <1>1, <1>2, <1>3 DEF CopiesCurrent
    <2>2. \A u \in Worker : worker'[u].op = "validate" => worker'[u] = worker[u]
      BY <1>2, <1>3
    <2> QED BY <1>1, <2>1, <2>2 DEF WillReplace, Agrees
  <1> QED BY <1>1, <1>4, <1>5, <1>6

\* The hash expires.
LEMMA ExpireKeeps ==
    ASSUME FlagsInv, Expire
    PROVE  FlagsInv'
  <1> USE DEF FlagsInv
  <1>1. /\ hash' = NoHash /\ UNCHANGED <<data, last, disturbed, worker, issued>>
        /\ stale' = (\E w \in Worker : worker[w] # Idle)
    BY DEF Expire
  <1>2. StoreTypes' /\ TaskTypes' /\ Lockstep' /\ Exclusive' /\ NullCopies' /\ Tiered'
    BY <1>1, Empty DEF StoreTypes, TaskTypes, Proper, Lockstep, Exclusive, NullCopies, Tiered
  <1>3. CopiesCurrent'
    BY <1>1, Empty, BlankFlags DEF CopiesCurrent, WillReplace, Agrees
  <1>4. Quiet'
    <2> SUFFICES ASSUME ~stale' PROVE Quiet'
      BY DEF Quiet
    <2>1. \A w \in Worker : worker'[w] = Idle
      BY <1>1
    <2>2. hash'.kind = "absent" /\ InStep(Idle)'
      BY <1>1, Empty DEF InStep
    <2> QED BY <2>1, <2>2 DEF Quiet, Alone
  <1> QED BY <1>2, <1>3, <1>4

\* Nothing else touches the stores, the requests and their history.
LEMMA FlagsStutter ==
    ASSUME FlagsInv, UNCHANGED <<data, hash, last, disturbed, stale, worker, issued>>
    PROVE  FlagsInv'
BY DEF FlagsInv, StoreTypes, TaskTypes, Proper, Lockstep, Exclusive, CopiesCurrent, WillReplace,
       Agrees, NullCopies, Quiet, Alone, InStep, Expected, Tiered

\* The invariant holds at first.
LEMMA FlagsInit == Init => FlagsInv
  <1> SUFFICES ASSUME Init PROVE FlagsInv
    OBVIOUS
  <1>1. PICK f : f = [Blank EXCEPT !["tier"] = "assigned"]
    OBVIOUS
  <1>2. f \in Flags /\ f["tier"] = "assigned"
    BY <1>1, BlankFlags, FlagsWith DEF Field, Values
  <1>3. \/ data = NoData /\ hash = NoHash
        \/ data = Data(f) /\ hash = Hash("full", f)
    BY <1>1, <1>2, DataFacts DEF Init
  <1>4. /\ \A w \in Worker : worker[w] = Idle
        /\ worker \in [Worker -> Task] /\ last = data.f /\ issued = ~data.null
    BY Empty DEF Init
  <1>5. StoreTypes
    BY <1>2, <1>3, <1>4, Empty, BlankFlags, DataFacts, HashFacts DEF StoreTypes
  <1>6. TaskTypes /\ NullCopies /\ Lockstep /\ Exclusive /\ CopiesCurrent
    BY <1>4, Empty, IdleProper
    DEF TaskTypes, NullCopies, Lockstep, Exclusive, CopiesCurrent, Writers, WholeWriters
  <1>7. /\ hash.kind = "full" => hash.f = data.f /\ ~data.null /\ hash.f["tier"] = "assigned"
        /\ hash.kind # "partial" /\ (data.null \/ data.f["tier"] = "assigned")
    BY <1>2, <1>3, Empty, DataFacts, HashFacts
  <1>8. InStep(Idle)
    BY <1>7, Empty DEF InStep, Expected
  <1>9. Quiet /\ Tiered
    BY <1>4, <1>7, <1>8, Empty DEF Quiet, Alone, Tiered
  <1> QED BY <1>5, <1>6, <1>9 DEF FlagsInv

\* Every step keeps it.
LEMMA FlagsStep == FlagsInv /\ [Next]_vars => FlagsInv'
  <1> SUFFICES ASSUME FlagsInv, [Next]_vars PROVE FlagsInv'
    OBVIOUS
  <1>1. ASSUME NEW w \in Worker, Continue(w) PROVE FlagsInv'
    BY <1>1, PatchExistsKeeps, PatchHsetKeeps, HsetIfPresentKeeps, ClearHdelKeeps, RefreshGetKeeps,
       RefreshSetKeeps, RehydrateKeeps, PatchesKeep, PushPersistKeeps, RefreshPersistKeeps
    DEF Continue
  <1>2. ASSUME NEW crosses \in BOOLEAN, Serve(crosses) PROVE FlagsInv'
    BY <1>2, FlagsStutter DEF Serve, stores, history
  <1>3. CASE UNCHANGED vars
    BY <1>3, FlagsStutter DEF vars
  <1> QED BY <1>1, <1>2, <1>3, AdminKeeps, AbortKeeps, ExpireKeeps, FlagsAssumption DEF Next

\* The invariant of the flags: the snapshot is in step with the writes, the copies that
\* will replace it are current, and one request at a time keeps the two stores alike.
THEOREM FlagsInvariant == Spec => []FlagsInv
BY FlagsInit, FlagsStep, PTL DEF Spec

\* No billing flag gets lost, for any number of requests handled at a time: without a
\* meeting of whole-snapshot writers the snapshot holds the last write of every field,
\* and requests one after the other leave the Redis hash like the snapshot.
THEOREM FlagsKeptAlways == Spec => []FlagsKept
  <1>1. FlagsInv => FlagsKept
    <2> SUFFICES ASSUME FlagsInv PROVE FlagsKept
      OBVIOUS
    <2>1. ~disturbed /\ ~data.null => data.f = last
      BY DEF FlagsInv, Lockstep
    <2>2. ASSUME ~stale, hash.kind = "full", \A w \in Worker : worker[w] = Idle
          PROVE  hash.f = data.f
      <3>1. InStep(Idle)
        BY <2>2, FlagsAssumption DEF FlagsInv, Quiet, Alone
      <3> QED BY <2>2, <3>1, Empty DEF InStep, Expected
    <2> QED BY <2>1, <2>2 DEF FlagsKept
  <1> QED BY <1>1, FlagsInvariant, PTL

\* The snapshot and the full hash never come to lack the tier the key was issued with,
\* in any race of any number of requests.
THEOREM TierNeverDroppedAlways == Spec => TierNeverDropped
  <1>1. [Next]_vars => UNCHANGED issued
    BY DEF Next, vars, PushStart, Admin, KeysStart, TenantStart, UnassignStart, ClearStart, RefreshStart,
           ValidateMiss, Continue, PatchExists, PatchHset, KeysCommit, TenantUpdate, HsetIfPresent,
           UpdateIfPresent, ClearHdel, ClearRemove, RefreshGet, RefreshSet, RefreshPersist, Rehydrate,
           PushPersist, Abort, Serve, Expire
  <1>2. FlagsInv /\ FlagsInv' /\ [Next]_vars =>
          [issued => /\ ~data.null /\ data.f.tier # "none" => data'.f.tier # "none"
                     /\ hash.kind = "full" /\ hash'.kind = "full" /\ hash.f.tier # "none"
                           => hash'.f.tier # "none"]_vars
    BY <1>1 DEF FlagsInv, Tiered
  <1> QED BY <1>2, FlagsInvariant, PTL DEF TierNeverDropped, Spec

-----------------------------------------------------------------------------
(* Routing: the services that run a request and the spans they bill         *)

Services == Service \cup {Requested}

Routes ==
    /\ kind \in {"task", "chat", "stream", "upload"}
    /\ groups \in Nat \ {0} /\ (kind # "task" => groups = 1 /\ empty = {})
    /\ at \in {"start", "call", "streaming", "next", "done"}
    /\ calls \in Seq(Services) /\ todo \in Seq(Services) /\ chain \in Seq(Services)
    /\ answered \in Nat /\ spans \in Seq(Services \X Nat)

\* Until it is answered, a request has the spans of the groups that the current service
\* completed, and is charged for those that count; another service is tried only while
\* none is completed.
Underway ==
    at # "done" =>
        /\ report = R!NoReport /\ Len(spans) = answered
        /\ charged = IF unit THEN (1 .. answered) \ empty ELSE {}
        /\ at = "start" => calls = <<>> /\ answered = 0
        /\ at # "start" => calls # <<>>
        /\ at = "call" => answered < groups
        /\ kind # "task" => answered = 0
        /\ at = "next" /\ todo # <<>> => answered = 0
        /\ at = "streaming" => kind = "stream" /\ named = R!Current /\ status = 200

RoutesInv == Routes /\ Underway /\ R!BilledByOne /\ R!SuccessIsBilled

\* The service that runs the payload is one of the services.
LEMMA CurrentService ==
    ASSUME Routes, calls # <<>>
    PROVE  R!Current \in Services
BY DEF Routes, R!Current, R!Last

\* One more span of the service that has all the others.
LEMMA BillOne ==
    ASSUME Routes, R!BilledByOne, calls # <<>>, UNCHANGED calls,
           spans' = Append(spans, <<R!Current, Len(spans) + 1>>)
    PROVE  /\ R!BilledByOne' /\ spans' \in Seq(Services \X Nat) /\ Len(spans') = Len(spans) + 1
           /\ spans' = [i \in 1 .. Len(spans) + 1 |-> <<R!Current, i>>]
  <1>1. R!Current \in Services /\ R!Current' = R!Current
    BY CurrentService DEF R!Current, R!Last
  <1>2. PICK c \in Services, n \in Nat : c = R!Current /\ n = Len(spans)
    BY <1>1 DEF Routes
  <1>3. spans \in Seq(Services \X Nat) /\ \A i \in 1 .. n : spans[i] = <<c, i>>
    <2>1. spans \in Seq(Services \X Nat) /\ DOMAIN spans = 1 .. n
      BY <1>2 DEF Routes
    <2>2. \A i \in DOMAIN spans : spans[i] = <<R!Current, i>>
      BY DEF R!BilledByOne
    <2> QED BY <1>2, <2>1, <2>2
  <1>4. PICK e \in Services \X Nat : e = <<c, n + 1>>
    <2>1. c \in Services /\ n + 1 \in Nat
      BY <1>2
    <2> QED BY <2>1
  <1>5. spans' = Append(spans, e)
    BY <1>2, <1>4
  <1>6. /\ spans' \in Seq(Services \X Nat) /\ Len(spans') = n + 1 /\ DOMAIN spans' = 1 .. n + 1
        /\ \A i \in 1 .. n : spans'[i] = spans[i] /\ spans'[n + 1] = e
    BY <1>2, <1>3, <1>5
  <1>7. \A i \in 1 .. n + 1 : spans'[i] = <<c, i>>
    BY <1>2, <1>3, <1>4, <1>6
  <1>8. spans' = [i \in 1 .. n + 1 |-> <<c, i>>]
    <2>1. spans' = [i \in 1 .. n + 1 |-> spans'[i]]
      BY <1>6
    <2> QED BY <1>7, <2>1
  <1> QED BY <1>1, <1>2, <1>6, <1>7, <1>8 DEF R!BilledByOne

\* The span of the next group: it is charged when it can be counted.
LEMMA MeterOne ==
    ASSUME RoutesInv, at # "done", calls # <<>>, UNCHANGED <<empty, calls, unit>>, R!Meter(answered + 1)
    PROVE  /\ R!BilledByOne' /\ spans' \in Seq(Services \X Nat) /\ Len(spans') = answered + 1
           /\ spans' = [i \in 1 .. answered + 1 |-> <<R!Current, i>>]
           /\ charged' = IF unit THEN (1 .. answered + 1) \ empty ELSE {}
  <1>1. /\ Len(spans) = answered /\ answered \in Nat /\ Routes /\ R!BilledByOne
        /\ charged = IF unit THEN (1 .. answered) \ empty ELSE {}
    BY DEF RoutesInv, Routes, Underway
  <1>2. /\ spans' = Append(spans, <<R!Current, Len(spans) + 1>>)
        /\ charged' = IF unit /\ answered + 1 \notin empty THEN charged \union {answered + 1} ELSE charged
    BY <1>1 DEF R!Meter
  <1>3. /\ R!BilledByOne' /\ spans' \in Seq(Services \X Nat) /\ Len(spans') = answered + 1
        /\ spans' = [i \in 1 .. answered + 1 |-> <<R!Current, i>>]
    BY <1>1, <1>2, BillOne
  <1>4. charged' = IF unit THEN (1 .. answered + 1) \ empty ELSE {}
    <2>1. 1 .. answered + 1 = (1 .. answered) \union {answered + 1}
      BY <1>1
    <2>2. CASE unit
      <3>1. CASE answered + 1 \in empty
        <4>1. charged' = (1 .. answered) \ empty
          BY <1>1, <1>2, <2>2, <3>1
        <4> QED BY <2>1, <2>2, <3>1, <4>1
      <3>2. CASE answered + 1 \notin empty
        <4>1. charged' = ((1 .. answered) \ empty) \union {answered + 1}
          BY <1>1, <1>2, <2>2, <3>2
        <4> QED BY <2>1, <2>2, <3>2, <4>1
      <3> QED BY <3>1, <3>2
    <2>3. CASE ~unit
      BY <1>1, <1>2, <2>3
    <2> QED BY <2>2, <2>3
  <1> QED BY <1>3, <1>4

\* A request ends; a success names the service with a span for every group.
LEMMA EndsKeeps ==
    ASSUME RoutesInv, at' = "done", UNCHANGED <<kind, groups, empty, chain, calls, unit, todo>>, answered' \in Nat,
           R!BilledByOne', spans' \in Seq(Services \X Nat),
           report'.status = 200 =>
              /\ status' = 200 /\ report'.service = R!Current
              /\ spans' = [i \in 1 .. groups |-> <<R!Current, i>>]
              /\ charged' = IF unit THEN (1 .. groups) \ empty ELSE {}
    PROVE  RoutesInv'
  <1>1. Routes' /\ Underway'
    BY DEF RoutesInv, Routes, Underway
  <1>2. R!Current' = R!Current
    BY DEF R!Current, R!Last
  <1>3. R!SuccessIsBilled'
    BY <1>2 DEF R!SuccessIsBilled
  <1> QED BY <1>1, <1>3 DEF RoutesInv

\* The report of a request: only a success says 200, and an upload opens no span.
LEMMA ReportFacts ==
    ASSUME NEW code \in Nat, NEW service, NEW seen \in Nat, R!Report(code, service, seen)
    PROVE  /\ at' = "done" /\ status' = code
           /\ report'.status = 200 => kind # "upload" /\ report'.service = service /\ seen = 200
BY DEF R!Report, R!NoReport

\* A failure: the client is told, the bill stays.
LEMMA FailKeeps ==
    ASSUME RoutesInv, NEW code \in Nat \ {200}, NEW service, R!Report(code, service, code),
           UNCHANGED <<kind, groups, empty, chain, calls, unit, answered, todo, spans, charged>>
    PROVE  RoutesInv'
  <1>1. at' = "done" /\ report'.status # 200
    BY ReportFacts
  <1>2. answered' \in Nat /\ spans' \in Seq(Services \X Nat) /\ R!BilledByOne'
    BY DEF RoutesInv, Routes, R!BilledByOne, R!Current, R!Last
  <1> QED BY <1>1, <1>2, EndsKeeps

\* A service is called on the payload: nobody has answered any of it.
LEMMA CallKeeps ==
    ASSUME RoutesInv, NEW s \in Services, R!Call(s), at # "done", answered = 0,
           todo' \in Seq(Services)
    PROVE  RoutesInv'
  <1>1. /\ calls' = Append(calls, s) /\ answered' = 0 /\ at' = "call"
        /\ UNCHANGED <<kind, groups, empty, chain, named, spans, charged, report, status>>
    BY DEF R!Call, R!request, R!run, R!billed
  <1>2. /\ Routes /\ report = R!NoReport /\ Len(spans) = 0 /\ spans \in Seq(Services \X Nat) /\ charged = {}
    BY DEF RoutesInv, Underway, Routes
  <1>3. Routes' /\ calls' # <<>>
    BY <1>1, <1>2 DEF Routes
  <1>4. Underway'
    BY <1>1, <1>2, <1>3 DEF Underway, Routes, R!NoReport
  <1>5. R!BilledByOne'
    BY <1>1, <1>2 DEF R!BilledByOne
  <1>6. R!SuccessIsBilled'
    BY <1>1, <1>2 DEF R!SuccessIsBilled, R!NoReport
  <1> QED BY <1>3, <1>4, <1>5, <1>6 DEF RoutesInv

\* A group of a task is answered.
LEMMA AnswerGroupKeeps ==
    ASSUME RoutesInv, R!AnswerGroup
    PROVE  RoutesInv'
  <1>1. /\ at = "call" /\ kind = "task" /\ calls # <<>> /\ Len(spans) = answered /\ answered \in Nat
        /\ groups \in Nat /\ UNCHANGED <<kind, groups, empty, chain, calls, unit, todo>>
    BY DEF RoutesInv, Routes, Underway, R!AnswerGroup, R!IsTask, R!request, R!run, R!billed
  <1>2. R!Meter(answered + 1) /\ answered' = answered + 1
    BY DEF R!AnswerGroup
  <1>3. /\ R!BilledByOne' /\ spans' \in Seq(Services \X Nat) /\ Len(spans') = answered'
        /\ spans' = [i \in 1 .. answered' |-> <<R!Current, i>>] /\ answered' \in Nat
        /\ charged' = IF unit THEN (1 .. answered') \ empty ELSE {}
    BY <1>1, <1>2, MeterOne
  <1>4. CASE answered' < groups /\ UNCHANGED <<at, named, report, status>>
    <2>1. Routes'
      BY <1>1, <1>3, <1>4 DEF RoutesInv, Routes
    <2>2. Underway'
      BY <1>1, <1>3, <1>4 DEF RoutesInv, Underway, R!NoReport
    <2>3. R!SuccessIsBilled'
      BY <1>1, <1>4 DEF RoutesInv, Underway, R!SuccessIsBilled, R!NoReport
    <2> QED BY <1>3, <2>1, <2>2, <2>3 DEF RoutesInv
  <1>5. CASE answered' = groups /\ R!Served /\ R!Report(200, named', 200)
    BY <1>1, <1>3, <1>5, ReportFacts, EndsKeeps DEF R!Served
  <1>6. CASE answered' = groups /\ R!Report(500, named, 500)
    BY <1>1, <1>3, <1>6, ReportFacts, EndsKeeps
  <1> QED BY <1>4, <1>5, <1>6 DEF R!AnswerGroup

\* A chat or an upload is answered.
LEMMA AnswerKeeps ==
    ASSUME RoutesInv, R!Answer
    PROVE  RoutesInv'
  <1>1. /\ at = "call" /\ kind \in {"chat", "upload"} /\ calls # <<>> /\ Len(spans) = 0 /\ answered = 0
        /\ groups = 1 /\ UNCHANGED <<kind, groups, empty, chain, calls, unit, todo, answered>>
    BY DEF RoutesInv, Routes, Underway, R!Answer, R!request, R!run, R!billed
  <1>2. /\ IF kind = "chat" THEN R!Meter(answered + 1) ELSE UNCHANGED R!billed
        /\ named' = R!Current
    <2>1. IF kind = "chat" THEN R!Meter(1) ELSE UNCHANGED R!billed
      BY DEF R!Answer
    <2>2. answered + 1 = 1
      BY <1>1
    <2>3. named' = R!Current
      BY DEF R!Answer, R!Served
    <2> QED BY <2>1, <2>2, <2>3
  <1>3. R!Report(200, named', 200) \/ R!Report(500, named', 500)
    BY DEF R!Answer
  <1>4. CASE kind = "chat"
    <2>1. /\ R!BilledByOne' /\ spans' \in Seq(Services \X Nat)
          /\ spans' = [i \in 1 .. groups |-> <<R!Current, i>>]
          /\ charged' = IF unit THEN (1 .. groups) \ empty ELSE {}
      BY <1>1, <1>2, <1>4, MeterOne
    <2> QED BY <1>1, <1>2, <1>3, <2>1, ReportFacts, EndsKeeps
  <1>5. CASE kind = "upload"
    <2>1. R!BilledByOne' /\ spans' \in Seq(Services \X Nat)
      BY <1>1, <1>2, <1>5 DEF RoutesInv, Routes, R!BilledByOne, R!billed
    <2>2. at' = "done" /\ report'.status # 200
      BY <1>3, <1>5, ReportFacts
    <2> QED BY <1>1, <2>1, <2>2, EndsKeeps
  <1> QED BY <1>1, <1>4, <1>5

\* A stream is answered, by the service that has started it.
LEMMA StreamKeeps ==
    ASSUME RoutesInv, R!StreamStarts \/ R!StreamEnds \/ R!StreamBreaks \/ R!ClientLeaves
    PROVE  RoutesInv'
  <1>1. CASE R!StreamStarts
    <2>1. /\ at = "call" /\ kind = "stream" /\ at' = "streaming" /\ status' = 200 /\ named' = R!Current
          /\ UNCHANGED <<kind, groups, empty, chain, calls, unit, answered, todo, spans, charged, report>>
      BY <1>1 DEF R!StreamStarts, R!Served, R!request, R!run, R!billed
    <2>2. Routes' /\ R!BilledByOne' /\ R!Current' = R!Current
      BY <2>1 DEF RoutesInv, Routes, R!BilledByOne, R!Current, R!Last
    <2>3. Underway'
      BY <2>1, <2>2 DEF RoutesInv, Underway, R!NoReport
    <2>4. R!SuccessIsBilled'
      BY <2>1 DEF RoutesInv, Underway, R!SuccessIsBilled, R!NoReport
    <2> QED BY <2>2, <2>3, <2>4 DEF RoutesInv
  <1>2. ASSUME at = "streaming"
        PROVE  /\ kind = "stream" /\ calls # <<>> /\ Len(spans) = 0 /\ answered = 0 /\ groups = 1
               /\ named = R!Current /\ spans \in Seq(Services \X Nat) /\ report = R!NoReport
    BY <1>2 DEF RoutesInv, Routes, Underway
  <1>3. CASE R!StreamEnds
    <2>1. /\ R!Meter(answered + 1) /\ R!Report(200, named, 200) /\ at = "streaming"
          /\ UNCHANGED <<kind, groups, empty, chain, calls, unit, answered, todo, named>>
      BY <1>2, <1>3 DEF R!StreamEnds, R!request, R!run, R!billed
    <2>2. /\ R!BilledByOne' /\ spans' \in Seq(Services \X Nat)
          /\ spans' = [i \in 1 .. groups |-> <<R!Current, i>>]
          /\ charged' = IF unit THEN (1 .. groups) \ empty ELSE {}
      BY <1>2, <2>1, MeterOne
    <2> QED BY <1>2, <2>1, <2>2, ReportFacts, EndsKeeps
  <1>4. CASE R!StreamBreaks
    <2>1. /\ R!Report(200, named, 500) /\ at = "streaming"
          /\ UNCHANGED <<kind, groups, empty, chain, calls, unit, answered, todo, spans, charged>>
      BY <1>4 DEF R!StreamBreaks, R!request, R!run, R!billed
    <2>2. R!BilledByOne' /\ spans' \in Seq(Services \X Nat) /\ answered' \in Nat
      BY <1>2, <2>1 DEF R!BilledByOne
    <2>3. at' = "done" /\ report'.status # 200
      BY <2>1, ReportFacts
    <2> QED BY <2>1, <2>2, <2>3, EndsKeeps
  <1>5. CASE R!ClientLeaves
    <2>1. /\ at = "streaming" /\ at' = "done"
          /\ UNCHANGED <<kind, groups, empty, chain, calls, unit, answered, todo, spans, charged, report>>
      BY <1>5 DEF R!ClientLeaves, R!request, R!run, R!billed
    <2>2. /\ R!BilledByOne' /\ spans' \in Seq(Services \X Nat) /\ answered' \in Nat
          /\ report'.status # 200
      BY <1>2, <2>1 DEF R!BilledByOne, R!NoReport
    <2> QED BY <2>1, <2>2, EndsKeeps
  <1> QED BY <1>1, <1>3, <1>4, <1>5

\* The requested service cannot serve: the fallbacks' turn comes only when it
\* has answered nothing.
LEMMA UnavailableKeeps ==
    ASSUME RoutesInv, R!Unavailable
    PROVE  RoutesInv'
  <1>1. PICK found \in BOOLEAN :
          /\ R!GoOn(found)
          /\ IF ~R!OnFallback /\ todo' = <<>>
             THEN R!Fail(502)
             ELSE at' = "next" /\ UNCHANGED <<R!request, named, report, status>>
    BY DEF R!Unavailable
  <1>2. at = "call" /\ UNCHANGED <<calls, unit, answered, spans, charged>>
    BY DEF R!Unavailable, R!run, R!billed
  <1>3. todo' \in Seq(Services) /\ (todo' # <<>> => answered = 0)
    BY <1>1 DEF R!GoOn, R!Fallbacks, RoutesInv, Routes
  <1>4. R!BilledByOne' /\ spans' \in Seq(Services \X Nat) /\ answered' \in Nat
    BY <1>2 DEF RoutesInv, Routes, R!BilledByOne, R!Current, R!Last
  <1>5. CASE R!Fail(502) /\ todo' = <<>>
    <2>1. at' = "done" /\ report'.status # 200 /\ UNCHANGED <<kind, groups, empty, chain>>
      BY <1>5, ReportFacts DEF R!Fail, R!request, R!run, R!billed
    <2>2. Routes' /\ Underway'
      BY <1>2, <1>3, <1>4, <2>1 DEF RoutesInv, Routes, Underway
    <2>3. R!SuccessIsBilled'
      BY <2>1 DEF R!SuccessIsBilled
    <2> QED BY <1>4, <2>2, <2>3 DEF RoutesInv
  <1>6. CASE at' = "next" /\ UNCHANGED <<R!request, named, report, status>>
    <2>1. UNCHANGED <<kind, groups, empty, chain, report>>
      BY <1>6 DEF R!request, R!run, R!billed
    <2>2. Routes'
      BY <1>2, <1>3, <1>4, <1>6, <2>1 DEF RoutesInv, Routes
    <2>3. Underway'
      BY <1>2, <1>3, <1>6, <2>1 DEF RoutesInv, Routes, Underway, R!NoReport
    <2>4. R!SuccessIsBilled'
      BY <1>2, <2>1 DEF RoutesInv, Underway, R!SuccessIsBilled, R!NoReport
    <2> QED BY <1>4, <2>2, <2>3, <2>4 DEF RoutesInv
  <1> QED BY <1>1, <1>5, <1>6

\* The fallbacks are a sequence of services.
LEMMA ChainIsSeq == R!Chains \subseteq Seq(Services)
  <1> SUFFICES ASSUME NEW c \in R!Chains PROVE c \in Seq(Services)
    OBVIOUS
  <1>1. PICK m \in 0 .. MaxFallbacks : c \in [1 .. m -> Service \ {Requested}]
    BY DEF R!Chains, R!SeqOf
  <1>2. c \in [1 .. m -> Services]
    BY <1>1 DEF Services
  <1> QED BY <1>1, <1>2

\* The invariant of a request holds at first.
LEMMA RoutesInit == R!Init => RoutesInv
  <1> SUFFICES ASSUME R!Init PROVE RoutesInv
    OBVIOUS
  <1>1. R!Fresh /\ chain \in Seq(Services)
    BY ChainIsSeq DEF R!Init
  <1>2. Routes
    <2>1. /\ kind \in {"task", "chat", "stream", "upload"} /\ (kind # "task" => empty = {})
          /\ groups \in IF kind = "task" THEN 1 .. MaxGroups ELSE {1}
      BY DEF R!Init
    <2>2. groups \in Nat \ {0} /\ (kind # "task" => groups = 1 /\ empty = {})
      BY <2>1
    <2>3. /\ at = "start" /\ calls \in Seq(Services) /\ todo \in Seq(Services)
          /\ answered \in Nat /\ spans \in Seq(Services \X Nat)
      BY <1>1 DEF R!Fresh
    <2> QED BY <1>1, <2>1, <2>2, <2>3 DEF Routes
  <1>3. Underway /\ R!BilledByOne /\ R!SuccessIsBilled
    BY <1>1 DEF R!Fresh, Underway, R!BilledByOne, R!SuccessIsBilled, R!NoReport
  <1> QED BY <1>2, <1>3 DEF RoutesInv

\* Every step of the request keeps it.
LEMMA RoutesStep == RoutesInv /\ [R!Next]_R!vars => RoutesInv'
  <1> SUFFICES ASSUME RoutesInv, [R!Next]_R!vars PROVE RoutesInv'
    OBVIOUS
  <1>1. ASSUME NEW code \in Nat \ {200}, R!Fail(code), UNCHANGED <<calls, unit, answered, todo, spans, charged>>
        PROVE  RoutesInv'
    BY <1>1, FailKeeps DEF R!Fail, R!request, R!run, R!billed
  <1>2. CASE R!Refuse \/ R!Reject \/ R!Block \/ R!Misconfigured \/ R!AllUnavailable
    <2>1. R!ResolveError(Requested) \in Nat \ {200}
      BY DEF R!ResolveError
    <2> QED BY <1>1, <1>2, <2>1 DEF R!Refuse, R!Reject, R!Block, R!Misconfigured, R!AllUnavailable,
               R!run, R!billed
  <1>3. CASE R!Send
    BY <1>3, CallKeeps DEF R!Send, RoutesInv, Routes, Underway, Services
  <1>4. CASE R!TryNext
    <2>1. Head(todo) \in Services /\ Tail(todo) \in Seq(Services) /\ answered = 0
      BY <1>4 DEF R!TryNext, RoutesInv, Routes, Underway
    <2> QED BY <1>4, <2>1, CallKeeps DEF R!TryNext
  <1>5. CASE R!Skip
    <2>1. /\ at = "next" /\ todo # <<>> /\ todo' = Tail(todo)
          /\ UNCHANGED <<kind, groups, empty, chain, at, calls, unit, answered, named, spans, charged, report, status>>
      BY <1>5 DEF R!Skip, R!SkipOne, R!request, R!run, R!billed
    <2>2. Routes' /\ R!BilledByOne' /\ R!Current' = R!Current
      BY <2>1 DEF RoutesInv, Routes, R!BilledByOne, R!Current, R!Last
    <2>3. Underway'
      BY <2>1, <2>2 DEF RoutesInv, Underway, R!NoReport
    <2>4. R!SuccessIsBilled'
      BY <2>1, <2>2 DEF RoutesInv, R!SuccessIsBilled
    <2> QED BY <2>2, <2>3, <2>4 DEF RoutesInv
  <1>6. CASE R!Refused
    <2>1. UNCHANGED <<kind, groups, empty, chain, calls, unit, answered, todo, spans, charged>>
      BY <1>6 DEF R!Refused, R!request, R!run, R!billed
    <2>2. PICK code \in {400, 404, 500, 502} : \E service : R!Report(code, service, code)
      BY <1>6 DEF R!Refused
    <2> QED BY <2>1, <2>2, FailKeeps
  <1>7. CASE UNCHANGED R!vars
    <2>1. UNCHANGED <<kind, groups, empty, chain, at, calls, unit, answered, todo, named, spans, charged, report, status>>
      BY <1>7 DEF R!vars, R!request, R!run, R!billed
    <2>2. Routes' /\ R!BilledByOne' /\ R!Current' = R!Current
      BY <2>1 DEF RoutesInv, Routes, R!BilledByOne, R!Current, R!Last
    <2> QED BY <2>1, <2>2 DEF RoutesInv, Underway, R!NoReport, R!SuccessIsBilled
  <1> QED BY <1>2, <1>3, <1>4, <1>5, <1>6, <1>7, AnswerGroupKeeps, AnswerKeeps, StreamKeeps,
             UnavailableKeeps DEF R!Next

\* The invariant of a request, and with it the two properties, for any services,
\* fallbacks and number of groups.
THEOREM RoutesInvariant == R!Spec => []RoutesInv
BY RoutesInit, RoutesStep, PTL DEF R!Spec

\* The groups of a payload leave spans in order, each at most once and all at the one
\* service that runs it, however many calls fail on the way.
THEOREM BilledByOneAlways == R!Spec => []BilledByOne
  <1>1. RoutesInv => BilledByOne
    BY DEF RoutesInv, BilledByOne
  <1> QED BY <1>1, RoutesInvariant, PTL

\* A request reported as a success names the service that answered it, which has a span
\* for every group, and is charged as a whole when its unit is known, else not at all.
THEOREM SuccessIsBilledAlways == R!Spec => []SuccessIsBilled
  <1>1. RoutesInv => SuccessIsBilled
    BY DEF RoutesInv, SuccessIsBilled
  <1> QED BY <1>1, RoutesInvariant, PTL

-----------------------------------------------------------------------------
(* Routing: the order in which services are tried                           *)

\* What is left to do are the services of the plan after the first n.
Rest(n) ==
    /\ Len(todo) = Len(R!Plan) - n
    /\ \A k \in 1 .. Len(todo) : todo[k] = R!Plan[n + k]

\* While nothing is answered, the request is at a place n of the plan: what was called
\* are the usable services up to there, what is left is what comes after it.
Placed ==
    at \in {"call", "next"} /\ answered = 0 =>
        \E n \in 1 .. Len(R!Plan) :
            /\ R!CallsOf(n)
            /\ IF at = "call" /\ ~R!OnFallback THEN n = 1 ELSE Rest(n)

ChainInv ==
    /\ RoutesInv /\ Placed /\ R!ChainRespected
    /\ \A k \in 1 .. Len(chain) : chain[k] # Requested
    /\ at # "done" => status # 503
    /\ at = "start" => calls = <<>>

\* The plan is the requested service and then the fallbacks.
LEMMA PlanFacts ==
    ASSUME chain \in Seq(Services)
    PROVE  /\ R!Plan \in Seq(Services) /\ Len(R!Plan) = Len(chain) + 1 /\ R!Plan[1] = Requested
           /\ \A k \in 1 .. Len(chain) : R!Plan[k + 1] = chain[k]
           /\ DOMAIN R!Plan = 1 .. Len(R!Plan)
  <1>1. <<Requested>> \in Seq(Services) /\ Len(<<Requested>>) = 1 /\ <<Requested>>[1] = Requested
    BY DEF Services
  <1> QED BY <1>1 DEF R!Plan

\* What is called depends on the calls, the plan and what services resolve to.
LEMMA CallsOfSame ==
    ASSUME UNCHANGED <<calls, chain, info>>, NEW n, R!CallsOf(n)
    PROVE  R!CallsOf(n)'
BY DEF R!CallsOf, R!Plan, R!Usable

\* Before anything is called, none of the plan was looked at.
LEMMA NothingCalled ==
    ASSUME calls = <<>>
    PROVE  R!CallsOf(0)
  <1>1. DOMAIN calls = {}
    OBVIOUS
  <1>2. PICK pos \in [DOMAIN calls -> DOMAIN R!Plan] : TRUE
    <2>1. [i \in {} |-> i] \in [DOMAIN calls -> DOMAIN R!Plan]
      BY <1>1
    <2> QED BY <2>1
  <1>3. {pos[i] : i \in DOMAIN calls} = {k \in 1 .. 0 : R!Usable(R!Plan[k])}
    BY <1>1
  <1> QED BY <1>1, <1>3 DEF R!CallsOf

\* A service of the plan that cannot be used is passed over.
LEMMA PassOver ==
    ASSUME NEW n \in Nat, R!CallsOf(n), ~R!Usable(R!Plan[n + 1]), UNCHANGED <<calls, chain, info>>
    PROVE  R!CallsOf(n + 1)'
  <1>1. {k \in 1 .. n + 1 : R!Usable(R!Plan[k])} = {k \in 1 .. n : R!Usable(R!Plan[k])}
    OBVIOUS
  <1>2. R!CallsOf(n + 1)
    BY <1>1 DEF R!CallsOf
  <1> QED BY <1>2, CallsOfSame

\* The next service of the plan that can be used is called.
LEMMA CallNext ==
    ASSUME NEW n \in Nat, n < Len(R!Plan), R!CallsOf(n), R!Usable(R!Plan[n + 1]),
           chain \in Seq(Services), calls \in Seq(Services),
           calls' = Append(calls, R!Plan[n + 1]), UNCHANGED <<chain, info>>
    PROVE  R!CallsOf(n + 1)'
  <1> DEFINE plan == R!Plan
             s == plan[n + 1]
             m == Len(calls)
  <1>1. /\ plan \in Seq(Services) /\ DOMAIN plan = 1 .. Len(plan) /\ Len(plan) \in Nat
        /\ R!Plan' = plan /\ \A x : R!Usable(x)' = R!Usable(x)
    BY PlanFacts DEF R!Plan, R!Usable
  <1>2. n + 1 \in DOMAIN plan /\ s \in Services
    BY <1>1
  <1>3. /\ m \in Nat /\ DOMAIN calls = 1 .. m /\ DOMAIN calls' = 1 .. m + 1
        /\ calls'[m + 1] = s /\ \A i \in 1 .. m : calls'[i] = calls[i]
    BY <1>2
  <1>4. PICK pos \in [DOMAIN calls -> DOMAIN plan] :
          /\ \A i, j \in DOMAIN calls : i < j => pos[i] < pos[j]
          /\ \A i \in DOMAIN calls : calls[i] = plan[pos[i]]
          /\ {pos[i] : i \in DOMAIN calls} = {k \in 1 .. n : R!Usable(plan[k])}
    BY DEF R!CallsOf
  <1> DEFINE new == [i \in 1 .. m + 1 |-> IF i = m + 1 THEN n + 1 ELSE pos[i]]
  <1>5. /\ DOMAIN new = 1 .. m + 1 /\ new[m + 1] = n + 1 /\ \A i \in 1 .. m : new[i] = pos[i]
    BY <1>3
  <1>6. \A i \in 1 .. m : pos[i] \in 1 .. n /\ pos[i] \in DOMAIN plan
    <2>1. \A i \in 1 .. m : pos[i] \in {pos[k] : k \in DOMAIN calls}
      BY <1>3
    <2> QED BY <1>3, <1>4, <2>1
  <1> HIDE DEF new, s, m, plan
  <1>7. new \in [DOMAIN calls' -> DOMAIN plan]
    <2>1. \A i \in 1 .. m + 1 : new[i] \in DOMAIN plan
      BY <1>2, <1>3, <1>5, <1>6
    <2> QED BY <1>3, <1>5, <2>1 DEF new
  <1>8. \A i, j \in 1 .. m + 1 : i < j => new[i] < new[j]
    <2> TAKE i, j \in 1 .. m + 1
    <2> HAVE i < j
    <2>1. i \in 1 .. m /\ new[i] = pos[i] /\ pos[i] \in 1 .. n
      BY <1>3, <1>5, <1>6
    <2>2. CASE j = m + 1
      BY <1>3, <1>5, <2>1, <2>2
    <2>3. CASE j \in 1 .. m
      <3>1. new[j] = pos[j] /\ pos[i] < pos[j]
        BY <1>3, <1>4, <1>5, <2>1, <2>3
      <3> QED BY <2>1, <3>1
    <2> QED BY <1>3, <2>2, <2>3
  <1>9. \A i \in 1 .. m + 1 : calls'[i] = plan[new[i]]
    <2> TAKE i \in 1 .. m + 1
    <2>1. CASE i = m + 1
      BY <1>3, <1>5, <2>1 DEF s
    <2>2. CASE i \in 1 .. m
      BY <1>3, <1>4, <1>5, <2>2
    <2> QED BY <1>3, <2>1, <2>2
  <1>10. {new[i] : i \in 1 .. m + 1} = {k \in 1 .. n + 1 : R!Usable(plan[k])}
    <2>1. ASSUME NEW i \in 1 .. m + 1 PROVE new[i] \in {k \in 1 .. n + 1 : R!Usable(plan[k])}
      <3>1. CASE i = m + 1
        BY <1>5, <3>1 DEF plan
      <3>2. CASE i \in 1 .. m
        <4>1. pos[i] \in {k \in 1 .. n : R!Usable(plan[k])}
          BY <1>3, <1>4, <3>2
        <4> QED BY <1>5, <3>2, <4>1
      <3> QED BY <1>3, <3>1, <3>2
    <2>2. ASSUME NEW k \in 1 .. n + 1, R!Usable(plan[k]) PROVE k \in {new[i] : i \in 1 .. m + 1}
      <3>1. CASE k = n + 1
        BY <1>3, <1>5, <3>1
      <3>2. CASE k \in 1 .. n
        <4>1. k \in {pos[i] : i \in DOMAIN calls}
          BY <1>4, <2>2, <3>2
        <4>2. PICK i \in 1 .. m : k = pos[i]
          BY <1>3, <4>1
        <4> QED BY <1>3, <1>5, <4>2
      <3> QED BY <3>1, <3>2
    <2> QED BY <2>1, <2>2
  <1>11. plan = R!Plan'
    BY <1>1
  <1>12. /\ new \in [DOMAIN calls' -> DOMAIN R!Plan']
         /\ \A i, j \in DOMAIN calls' : i < j => new[i] < new[j]
         /\ \A i \in DOMAIN calls' : calls'[i] = R!Plan'[new[i]]
    BY <1>3, <1>7, <1>8, <1>9, <1>11
  <1>13. {new[i] : i \in DOMAIN calls'} = {k \in 1 .. n + 1 : R!Usable(R!Plan[k])'}
    <2>1. {k \in 1 .. n + 1 : R!Usable(R!Plan[k])'} = {k \in 1 .. n + 1 : R!Usable(plan[k])}
      BY <1>1 DEF R!Usable
    <2> QED BY <1>3, <1>10, <2>1
  <1>14. \E q \in [DOMAIN calls' -> DOMAIN R!Plan'] :
             /\ \A i, j \in DOMAIN calls' : i < j => q[i] < q[j]
             /\ \A i \in DOMAIN calls' : calls'[i] = R!Plan'[q[i]]
             /\ {q[i] : i \in DOMAIN calls'} = {k \in 1 .. n + 1 : R!Usable(R!Plan[k])'}
    BY <1>12, <1>13
  <1> QED BY <1>14, Zenon DEF R!CallsOf

\* A step that calls nobody and gives no 503 after a call: the order stays.
LEMMA RespectedStays ==
    ASSUME R!ChainRespected, UNCHANGED <<calls, chain, info>>, status' # 503 \/ calls = <<>>
    PROVE  R!ChainRespected'
  <1>1. PICK n \in 0 .. Len(R!Plan) : R!CallsOf(n)
    BY DEF R!ChainRespected
  <1>2. R!CallsOf(n)' /\ R!Plan' = R!Plan
    BY <1>1, CallsOfSame DEF R!Plan
  <1>3. (status = 503 /\ calls # <<>> /\ spans = <<>> => n = Len(R!Plan))'
    OBVIOUS
  <1> QED BY <1>2, <1>3 DEF R!ChainRespected

\* A request is answered, or its stream goes on.
LEMMA ChainEnds ==
    ASSUME ChainInv, RoutesInv', UNCHANGED <<calls, chain, info>>,
           status' # 503 \/ (calls = <<>> /\ at' = "done"), at' \in {"done", "streaming"}
    PROVE  ChainInv'
  <1>1. R!ChainRespected'
    BY RespectedStays DEF ChainInv
  <1>2. Placed'
    BY DEF Placed
  <1> QED BY <1>1, <1>2 DEF ChainInv

\* A failure before anything is called, or other than a 503.
LEMMA ChainFails ==
    ASSUME ChainInv, RoutesInv', NEW code \in Nat, R!Fail(code), code # 503 \/ calls = <<>>,
           UNCHANGED calls
    PROVE  ChainInv'
  <1>1. at' = "done" /\ status' = code /\ UNCHANGED <<chain, info>>
    BY DEF R!Fail, R!Report, R!request, R!run, R!billed
  <1> QED BY <1>1, ChainEnds

\* The requested service is called.
LEMMA ChainSend ==
    ASSUME ChainInv, RoutesInv', R!Send
    PROVE  ChainInv'
  <1>1. /\ at = "start" /\ calls = <<>> /\ calls' = Append(calls, Requested) /\ at' = "call"
        /\ UNCHANGED <<chain, info, status>> /\ status # 503 /\ info[Requested] = "open"
        /\ chain \in Seq(Services) /\ calls \in Seq(Services)
    BY DEF R!Send, R!Call, R!request, R!run, R!billed, ChainInv, RoutesInv, Routes
  <1>2. R!Plan[1] = Requested /\ Len(R!Plan) \in Nat /\ 0 < Len(R!Plan) /\ R!Plan' = R!Plan
    BY <1>1, PlanFacts DEF R!Plan
  <1>3. R!CallsOf(1)'
    <2>1. R!CallsOf(0) /\ R!Usable(R!Plan[0 + 1]) /\ calls' = Append(calls, R!Plan[0 + 1])
      BY <1>1, <1>2, NothingCalled DEF R!Usable
    <2>2. R!CallsOf(0 + 1)'
      BY <1>1, <1>2, <2>1, CallNext
    <2> QED BY <2>2
  <1>4. ~R!OnFallback'
    BY <1>1 DEF R!OnFallback, R!Current, R!Last, Services
  <1>5. Placed' /\ R!ChainRespected'
    BY <1>1, <1>2, <1>3, <1>4 DEF Placed, R!ChainRespected
  <1> QED BY <1>1, <1>5 DEF ChainInv

\* A fallback is called: the plan goes on behind it.
LEMMA ChainTryNext ==
    ASSUME ChainInv, RoutesInv', R!TryNext
    PROVE  ChainInv'
  <1>1. /\ at = "next" /\ todo # <<>> /\ calls' = Append(calls, Head(todo)) /\ at' = "call"
        /\ todo' = Tail(todo) /\ UNCHANGED <<chain, info, status>> /\ info[Head(todo)] = "open"
        /\ status # 503 /\ answered = 0 /\ answered' = 0
        /\ chain \in Seq(Services) /\ calls \in Seq(Services) /\ todo \in Seq(Services)
    BY DEF R!TryNext, R!Call, R!request, R!run, R!billed, ChainInv, RoutesInv, Routes, Underway
  <1>2. PICK n \in 1 .. Len(R!Plan) : R!CallsOf(n) /\ Rest(n)
    BY <1>1 DEF ChainInv, Placed
  <1>3. /\ Len(R!Plan) = Len(chain) + 1 /\ Len(chain) \in Nat /\ R!Plan' = R!Plan
        /\ \A k \in 1 .. Len(chain) : R!Plan[k + 1] = chain[k]
    BY <1>1, PlanFacts DEF R!Plan
  <1>4. Head(todo) = R!Plan[n + 1] /\ n < Len(R!Plan) /\ n \in Nat
    <2>1. Head(todo) = todo[1] /\ Len(todo) \in Nat /\ 1 \in 1 .. Len(todo)
      BY <1>1
    <2> QED BY <1>2, <1>3, <2>1 DEF Rest
  <1>5. R!CallsOf(n + 1)'
    BY <1>1, <1>2, <1>4, CallNext DEF R!Usable
  <1>6. Rest(n + 1)'
    <2>1. Len(todo') = Len(todo) - 1 /\ \A k \in 1 .. Len(todo') : todo'[k] = todo[k + 1]
      BY <1>1
    <2>2. ASSUME NEW k \in 1 .. Len(todo') PROVE todo'[k] = R!Plan'[(n + 1) + k]
      <3>1. k + 1 \in 1 .. Len(todo) /\ n + (k + 1) = (n + 1) + k
        BY <1>1, <1>4, <2>1
      <3> QED BY <1>2, <1>3, <2>1, <3>1 DEF Rest
    <2>3. Len(todo') = Len(R!Plan') - (n + 1)
      BY <1>1, <1>2, <1>3, <1>4, <2>1 DEF Rest
    <2> QED BY <2>2, <2>3 DEF Rest
  <1>7. R!OnFallback'
    <2>1. calls'[Len(calls')] = Head(todo)
      BY <1>1
    <2>2. Head(todo) # Requested
      BY <1>3, <1>4 DEF ChainInv
    <2> QED BY <2>1, <2>2 DEF R!OnFallback, R!Current, R!Last
  <1>8. n + 1 \in 1 .. Len(R!Plan') /\ n + 1 \in 0 .. Len(R!Plan')
    BY <1>3, <1>4
  <1>9. Placed'
    BY <1>5, <1>6, <1>7, <1>8 DEF Placed
  <1>10. R!ChainRespected'
    BY <1>1, <1>5, <1>8 DEF R!ChainRespected
  <1> QED BY <1>1, <1>9, <1>10 DEF ChainInv

\* A fallback that cannot be used is skipped.
LEMMA ChainSkip ==
    ASSUME ChainInv, RoutesInv', R!Skip
    PROVE  ChainInv'
  <1>1. /\ at = "next" /\ todo # <<>> /\ at' = "next" /\ todo' = Tail(todo)
        /\ UNCHANGED <<calls, chain, info, status, answered>> /\ info[Head(todo)] # "open"
        /\ status # 503 /\ answered = 0 /\ answered' = 0
        /\ chain \in Seq(Services) /\ calls \in Seq(Services) /\ todo \in Seq(Services)
    BY DEF R!Skip, R!SkipOne, R!request, R!run, R!billed, ChainInv, RoutesInv, Routes, Underway
  <1>2. PICK n \in 1 .. Len(R!Plan) : R!CallsOf(n) /\ Rest(n)
    BY <1>1 DEF ChainInv, Placed
  <1>3. Len(R!Plan) = Len(chain) + 1 /\ Len(chain) \in Nat /\ R!Plan' = R!Plan
    BY <1>1, PlanFacts DEF R!Plan
  <1>4. Head(todo) = R!Plan[n + 1] /\ n < Len(R!Plan) /\ n \in Nat
    <2>1. Head(todo) = todo[1] /\ Len(todo) \in Nat /\ 1 \in 1 .. Len(todo)
      BY <1>1
    <2> QED BY <1>2, <1>3, <2>1 DEF Rest
  <1>5. R!CallsOf(n + 1)'
    BY <1>1, <1>2, <1>4, PassOver DEF R!Usable
  <1>6. Rest(n + 1)'
    <2>1. Len(todo') = Len(todo) - 1 /\ \A k \in 1 .. Len(todo') : todo'[k] = todo[k + 1]
      BY <1>1
    <2>2. ASSUME NEW k \in 1 .. Len(todo') PROVE todo'[k] = R!Plan'[(n + 1) + k]
      <3>1. k + 1 \in 1 .. Len(todo) /\ n + (k + 1) = (n + 1) + k
        BY <1>1, <1>4, <2>1
      <3> QED BY <1>2, <1>3, <2>1, <3>1 DEF Rest
    <2>3. Len(todo') = Len(R!Plan') - (n + 1)
      BY <1>1, <1>2, <1>3, <1>4, <2>1 DEF Rest
    <2> QED BY <2>2, <2>3 DEF Rest
  <1>8. n + 1 \in 1 .. Len(R!Plan')
    BY <1>3, <1>4
  <1>9. Placed'
    BY <1>1, <1>5, <1>6, <1>8 DEF Placed
  <1>10. R!ChainRespected'
    BY <1>1, RespectedStays DEF ChainInv
  <1> QED BY <1>1, <1>9, <1>10 DEF ChainInv

\* A 503 for everybody: the plan is done, or its payload was answered in part.
LEMMA ChainAllUnavailable ==
    ASSUME ChainInv, RoutesInv', R!AllUnavailable
    PROVE  ChainInv'
  <1>1. /\ at = "next" /\ todo = <<>> /\ at' = "done" /\ UNCHANGED <<calls, chain, info, spans>>
        /\ chain \in Seq(Services) /\ Len(spans) = answered
    BY DEF R!AllUnavailable, R!Fail, R!Report, R!request, R!run, R!billed, ChainInv, RoutesInv, Routes, Underway
  <1>2. R!ChainRespected'
    <2>1. CASE answered = 0
      <3>1. PICK n \in 1 .. Len(R!Plan) : R!CallsOf(n) /\ Rest(n)
        BY <1>1, <2>1 DEF ChainInv, Placed
      <3>2. n = Len(R!Plan) /\ n \in 0 .. Len(R!Plan) /\ R!Plan' = R!Plan
        BY <1>1, <3>1, PlanFacts DEF Rest, R!Plan
      <3>3. R!CallsOf(n)'
        BY <1>1, <3>1, CallsOfSame
      <3> QED BY <3>2, <3>3 DEF R!ChainRespected
    <2>2. CASE answered # 0
      <3>1. PICK n \in 0 .. Len(R!Plan) : R!CallsOf(n)
        BY DEF ChainInv, R!ChainRespected
      <3>2. R!CallsOf(n)' /\ R!Plan' = R!Plan /\ spans' # <<>>
        BY <1>1, <2>2, <3>1, CallsOfSame DEF R!Plan
      <3> QED BY <3>1, <3>2 DEF R!ChainRespected
    <2> QED BY <2>1, <2>2
  <1>3. Placed'
    BY <1>1 DEF Placed
  <1> QED BY <1>1, <1>2, <1>3 DEF ChainInv

\* A service cannot be reached: the plan goes on behind it.
LEMMA ChainUnavailable ==
    ASSUME ChainInv, RoutesInv', R!Unavailable
    PROVE  ChainInv'
  <1>1. PICK found \in BOOLEAN :
          /\ R!GoOn(found)
          /\ IF ~R!OnFallback /\ todo' = <<>>
             THEN R!Fail(502)
             ELSE at' = "next" /\ UNCHANGED <<R!request, named, report, status>>
    BY DEF R!Unavailable
  <1>2. /\ at = "call" /\ UNCHANGED <<calls, answered, spans>> /\ answered \in Nat /\ status # 503
        /\ chain \in Seq(Services) /\ todo \in Seq(Services)
    BY DEF R!Unavailable, R!run, R!billed, ChainInv, RoutesInv, Routes
  <1>3. CASE R!Fail(502)
    BY <1>2, <1>3, ChainFails
  <1>4. CASE /\ at' = "next" /\ UNCHANGED <<R!request, named, report, status>>
             /\ ~(~R!OnFallback /\ todo' = <<>>)
    <2>1. UNCHANGED <<chain, info, status>> /\ R!Plan' = R!Plan
      BY <1>4 DEF R!request, R!run, R!billed, R!Plan
    <2>2. R!ChainRespected'
      BY <1>2, <2>1, RespectedStays DEF ChainInv
    <2>3. ASSUME answered = 0 PROVE \E n \in 1 .. Len(R!Plan) : R!CallsOf(n)' /\ Rest(n)'
      <3>1. PICK n \in 1 .. Len(R!Plan) :
              R!CallsOf(n) /\ IF ~R!OnFallback THEN n = 1 ELSE Rest(n)
        BY <1>2, <2>3 DEF ChainInv, Placed
      <3>2. R!CallsOf(n)'
        BY <1>2, <2>1, <3>1, CallsOfSame
      <3>3. CASE R!OnFallback
        <4>1. todo' = todo /\ Rest(n)
          BY <1>1, <2>3, <3>1, <3>3 DEF R!GoOn
        <4>2. Rest(n)'
          BY <2>1, <4>1 DEF Rest
        <4> QED BY <3>2, <4>2
      <3>4. CASE ~R!OnFallback
        <4>1. todo' = chain /\ n = 1
          BY <1>1, <1>4, <2>3, <3>1, <3>4 DEF R!GoOn, R!Fallbacks
        <4>2. Rest(1)'
          <5>1. /\ Len(R!Plan) = Len(chain) + 1 /\ Len(chain) \in Nat
                /\ \A k \in 1 .. Len(chain) : R!Plan[k + 1] = chain[k]
            BY <1>2, PlanFacts
          <5>2. \A k \in 1 .. Len(chain) : 1 + k = k + 1
            BY <5>1
          <5> QED BY <2>1, <4>1, <5>1, <5>2 DEF Rest
        <4> QED BY <3>2, <4>1, <4>2
      <3> QED BY <3>3, <3>4
    <2>4. Placed'
      BY <1>2, <1>4, <2>1, <2>3 DEF Placed
    <2> QED BY <1>2, <1>4, <2>1, <2>2, <2>4 DEF ChainInv
  <1> QED BY <1>1, <1>3, <1>4

\* A group of a task is answered; once one is, no fallback is tried.
LEMMA ChainAnswerGroup ==
    ASSUME ChainInv, RoutesInv', R!AnswerGroup
    PROVE  ChainInv'
  <1>1. /\ at = "call" /\ answered' = answered + 1 /\ answered \in Nat
        /\ UNCHANGED <<calls, chain, info, todo>> /\ status # 503
    BY DEF R!AnswerGroup, R!request, R!run, R!billed, ChainInv, RoutesInv, Routes
  <1>2. CASE UNCHANGED <<at, named, report, status>>
    <2>1. Placed'
      BY <1>1 DEF Placed
    <2>2. R!ChainRespected'
      BY <1>1, <1>2, RespectedStays DEF ChainInv
    <2> QED BY <1>1, <1>2, <2>1, <2>2 DEF ChainInv
  <1>3. CASE R!Report(200, named', 200) \/ R!Report(500, named, 500)
    <2>1. at' = "done" /\ status' # 503
      BY <1>3 DEF R!Report
    <2> QED BY <1>1, <2>1, ChainEnds
  <1> QED BY <1>2, <1>3 DEF R!AnswerGroup

\* The order holds before the request is looked at.
LEMMA ChainInit == R!Init => ChainInv
  <1> SUFFICES ASSUME R!Init PROVE ChainInv
    OBVIOUS
  <1>1. RoutesInv /\ calls = <<>> /\ at = "start" /\ status = 0
    BY RoutesInit DEF R!Init, R!Fresh
  <1>2. \A k \in 1 .. Len(chain) : chain[k] # Requested
    <2>1. chain \in R!Chains
      BY DEF R!Init
    <2>2. PICK m \in 0 .. MaxFallbacks : chain \in [1 .. m -> Service \ {Requested}]
      BY <2>1 DEF R!Chains, R!SeqOf
    <2>3. chain \in Seq(Service \ {Requested})
      BY <2>2
    <2> QED BY <2>3
  <1>3. R!ChainRespected
    <2>1. R!CallsOf(0) /\ 0 \in 0 .. Len(R!Plan)
      BY <1>1, NothingCalled, PlanFacts DEF RoutesInv, Routes
    <2> QED BY <1>1, <2>1 DEF R!ChainRespected
  <1>4. Placed
    BY <1>1 DEF Placed
  <1> QED BY <1>1, <1>2, <1>3, <1>4 DEF ChainInv

\* Every step of the request keeps it.
LEMMA ChainStep == ChainInv /\ [R!Next]_R!vars => ChainInv'
  <1> SUFFICES ASSUME ChainInv, [R!Next]_R!vars PROVE ChainInv'
    OBVIOUS
  <1>1. RoutesInv'
    BY RoutesStep DEF ChainInv
  <1>2. CASE R!Refuse \/ R!Reject \/ R!Block
    <2>1. at = "start" /\ calls = <<>> /\ UNCHANGED calls
      BY <1>2 DEF R!Refuse, R!Reject, R!Block, R!run, ChainInv
    <2>2. R!ResolveError(Requested) \in Nat
      BY DEF R!ResolveError
    <2>3. PICK code \in Nat : R!Fail(code)
      BY <1>2, <2>2 DEF R!Refuse, R!Reject, R!Block
    <2> QED BY <1>1, <2>1, <2>3, ChainFails
  <1>3. CASE R!Misconfigured
    BY <1>1, <1>3, ChainFails DEF R!Misconfigured, R!run
  <1>4. CASE R!Answer \/ R!StreamStarts \/ R!Refused
    <2>1. UNCHANGED <<calls, chain, info>> /\ at' \in {"done", "streaming"} /\ status' # 503
      BY <1>4 DEF R!Answer, R!StreamStarts, R!Refused, R!Report, R!request, R!run, R!billed
    <2> QED BY <1>1, <2>1, ChainEnds
  <1>5. CASE R!StreamEnds \/ R!StreamBreaks \/ R!ClientLeaves
    <2>1. UNCHANGED <<calls, chain, info>> /\ at' = "done" /\ status' \in {status, 200} /\ status # 503
      BY <1>5 DEF R!StreamEnds, R!StreamBreaks, R!ClientLeaves, R!Report, R!request, R!run, R!billed, ChainInv
    <2> QED BY <1>1, <2>1, ChainEnds
  <1>6. CASE UNCHANGED R!vars
    <2>1. UNCHANGED <<chain, info, at, calls, answered, todo, spans, status>>
      BY <1>6 DEF R!vars, R!request, R!run, R!billed
    <2>2. \A n : R!CallsOf(n) => R!CallsOf(n)'
      BY <2>1, CallsOfSame
    <2>3. R!Plan' = R!Plan /\ (R!OnFallback' <=> R!OnFallback) /\ \A n : Rest(n)' <=> Rest(n)
      BY <2>1 DEF R!Plan, R!OnFallback, R!Current, R!Last, Rest
    <2>4. Placed'
      BY <2>1, <2>2, <2>3 DEF ChainInv, Placed
    <2>5. R!ChainRespected'
      BY <2>1, <2>2, <2>3 DEF ChainInv, R!ChainRespected
    <2> QED BY <1>1, <2>1, <2>4, <2>5 DEF ChainInv
  <1> QED BY <1>1, <1>2, <1>3, <1>4, <1>5, <1>6, ChainSend, ChainTryNext, ChainSkip, ChainAllUnavailable,
             ChainUnavailable, ChainAnswerGroup DEF R!Next

\* The payload goes to the usable services of the plan, in its order and leaving none
\* out, and a 503 after a call that answered nothing means that all were tried - for any
\* services and fallback lists of any length.
THEOREM ChainRespectedAlways == R!Spec => []ChainRespected
  <1>1. ChainInv => ChainRespected
    BY DEF ChainInv, ChainRespected
  <1> QED BY <1>1, ChainInit, ChainStep, PTL DEF R!Spec
-----------------------------------------------------------------------------
(* Prices: a request that grows token by token under any row of prices.     *)

PricesInit == p \in Pricings(STRING) /\ input = 0 /\ cached = 0 /\ output = 0
PricesSpec == PricesInit /\ [][PricesNext]_pvars

PriceTypes == p \in Pricings(STRING) /\ input \in Nat /\ cached \in Nat /\ output \in Nat

\* What a token costs in each category.
CachedRate(row) == OrInputRate(PerUnitRate(row.cached_input_cost_per_unit, row), row)
OutputRate(row) == OrInputRate(PerUnitRate(row.output_cost_per_unit, row), row)

\* More tokens at a rate cost no less.
LEMMA MoreCosts ==
    ASSUME NEW a \in Nat, NEW b \in Nat, a <= b, NEW rate \in Nat
    PROVE  a * rate \in Nat /\ b * rate \in Nat /\ a * rate <= b * rate
  <1>1. (b - a) * rate >= 0 /\ (b - a) * rate = b * rate - a * rate
    BY (b - a) \in Nat
  <1> QED BY <1>1

\* No rate is negative, a missing one included; cached input that is priced at most as
\* input has at most its rate.
LEMMA RatesAreNat ==
    ASSUME NEW row \in Pricings(STRING)
    PROVE  /\ InputRate(row) \in Nat /\ CachedRate(row) \in Nat /\ OutputRate(row) \in Nat
           /\ row.cached_input_cost_per_unit <= InputRate(row) => CachedRate(row) <= InputRate(row)
  <1>1. /\ row.unit_rate \in Prices /\ row.cost_per_unit \in Prices /\ row.unit_size \in Nat
        /\ row.cached_input_cost_per_unit \in Prices /\ row.output_cost_per_unit \in Prices
    BY DEF Pricings
  <1>2. UnitScale(row) \in Nat
    BY <1>1 DEF UnitScale
  <1>3. InputRate(row) \in Nat
    <2>1. CASE row.unit_rate > 0
      <3>1. row.unit_rate \in Nat
        BY <1>1, <2>1 DEF Prices, NoPrice
      <3> QED BY <1>2, <2>1, <3>1 DEF InputRate
    <2>2. CASE ~(row.unit_rate > 0)
      BY <1>1, <2>2 DEF InputRate, PerUnitRate, Prices, NoPrice
    <2> QED BY <2>1, <2>2
  <1> QED BY <1>1, <1>3 DEF CachedRate, OutputRate, OrInputRate, PerUnitRate, Prices, NoPrice

\* The cached count a span is billed with is part of its input; it grows with the input,
\* and so does what is left of the input, while a larger report only moves tokens over.
LEMMA Clamped ==
    ASSUME NEW i \in Nat, NEW j \in Nat, i <= j, NEW c \in Nat, NEW d \in Nat, c <= d
    PROVE  /\ ClampCached(c, i) \in Nat /\ i - ClampCached(c, i) \in Nat
           /\ ClampCached(c, j) \in Nat /\ j - ClampCached(c, j) \in Nat
           /\ ClampCached(d, i) \in Nat /\ i - ClampCached(d, i) \in Nat
           /\ ClampCached(c, i) <= ClampCached(c, j)
           /\ i - ClampCached(c, i) <= j - ClampCached(c, j)
           /\ ClampCached(c, i) <= ClampCached(d, i)
  BY DEF ClampCached

\* The cost of a span is its tokens at their rates.
LEMMA LlmTotalIs ==
    ASSUME NEW i, NEW c, NEW o, NEW row
    PROVE  LlmTotal(i, c, o, row) = (i - ClampCached(c, i)) * InputRate(row)
             + ClampCached(c, i) * CachedRate(row) + o * OutputRate(row)
  BY DEF LlmTotal, LlmCost, CachedRate, OutputRate

\* Every task type but llm: the units at the rate of the input.
LEMMA CalculateCostIs ==
    ASSUME NEW units \in Nat, NEW row \in Pricings(STRING)
    PROVE  CalculateCost(units, row) = units * InputRate(row)
  <1>1. row.unit_rate \in Prices /\ row.cost_per_unit \in Prices /\ row.unit_size \in Nat
    BY DEF Pricings
  <1>2. UnitScale(row) \in Nat
    BY <1>1 DEF UnitScale
  <1>3. CASE row.unit_rate > 0
    <2>1. row.unit_rate \in Nat
      BY <1>1, <1>3 DEF Prices, NoPrice
    <2>2. units * row.unit_rate * UnitScale(row) = units * (row.unit_rate * UnitScale(row))
      BY <1>2, <2>1
    <2> QED BY <1>3, <2>2 DEF CalculateCost, InputRate
  <1>4. CASE ~(row.unit_rate > 0)
    <2>1. units * 0 = 0
      OBVIOUS
    <2> QED BY <1>1, <1>4, <2>1 DEF CalculateCost, InputRate, PerUnitRate, Prices, NoPrice
  <1> QED BY <1>3, <1>4

\* A request that is larger by any number of input and output tokens is no cheaper.
LEMMA UseNeverCheaper ==
    ASSUME NEW row \in Pricings(STRING), NEW c \in Nat,
           NEW i \in Nat, NEW j \in Nat, i <= j, NEW o \in Nat, NEW q \in Nat, o <= q
    PROVE  SpanCost(j, c, q, row) >= SpanCost(i, c, o, row)
  <1>1. CASE IsLlm(row)
    <2> DEFINE h == ClampCached(c, i)
               k == ClampCached(c, j)
    <2>1. /\ h \in Nat /\ k \in Nat /\ i - h \in Nat /\ j - k \in Nat
          /\ h <= k /\ i - h <= j - k
      BY Clamped
    <2>2. InputRate(row) \in Nat /\ CachedRate(row) \in Nat /\ OutputRate(row) \in Nat
      BY RatesAreNat
    <2> HIDE DEF h, k
    <2>3. /\ (i - h) * InputRate(row) \in Nat /\ (j - k) * InputRate(row) \in Nat
          /\ (i - h) * InputRate(row) <= (j - k) * InputRate(row)
      BY <2>1, <2>2, MoreCosts
    <2>4. /\ h * CachedRate(row) \in Nat /\ k * CachedRate(row) \in Nat
          /\ h * CachedRate(row) <= k * CachedRate(row)
      BY <2>1, <2>2, MoreCosts
    <2>5. /\ o * OutputRate(row) \in Nat /\ q * OutputRate(row) \in Nat
          /\ o * OutputRate(row) <= q * OutputRate(row)
      BY <2>2, MoreCosts
    <2>6. SpanCost(i, c, o, row) = (i - h) * InputRate(row) + h * CachedRate(row) + o * OutputRate(row)
      BY <1>1, LlmTotalIs DEF SpanCost, h
    <2>7. SpanCost(j, c, q, row) = (j - k) * InputRate(row) + k * CachedRate(row) + q * OutputRate(row)
      BY <1>1, LlmTotalIs DEF SpanCost, k
    <2> QED BY <2>3, <2>4, <2>5, <2>6, <2>7
  <1>2. CASE ~IsLlm(row)
    <2>1. SpanCost(i, c, o, row) = i * InputRate(row) /\ SpanCost(j, c, q, row) = j * InputRate(row)
      BY <1>2, CalculateCostIs DEF SpanCost, BilledUnits
    <2> QED BY <2>1, RatesAreNat, MoreCosts
  <1> QED BY <1>1, <1>2

\* A larger cache hit is no dearer, where cached input costs at most what input does.
LEMMA HitNeverDearer ==
    ASSUME NEW row \in Pricings(STRING), row.cached_input_cost_per_unit <= InputRate(row),
           NEW i \in Nat, NEW o \in Nat, NEW c \in Nat, NEW d \in Nat, c <= d
    PROVE  SpanCost(i, d, o, row) <= SpanCost(i, c, o, row)
  <1>1. CASE IsLlm(row)
    <2> DEFINE h == ClampCached(c, i)
               k == ClampCached(d, i)
               dear == InputRate(row)
               cheap == CachedRate(row)
    <2>1. h \in Nat /\ k \in Nat /\ i - h \in Nat /\ i - k \in Nat /\ h <= k
      BY Clamped
    <2>2. dear \in Nat /\ cheap \in Nat /\ OutputRate(row) \in Nat /\ cheap <= dear
      BY RatesAreNat
    <2>3. SpanCost(i, c, o, row) = (i - h) * dear + h * cheap + o * OutputRate(row)
      BY <1>1, LlmTotalIs DEF SpanCost
    <2>4. SpanCost(i, d, o, row) = (i - k) * dear + k * cheap + o * OutputRate(row)
      BY <1>1, LlmTotalIs DEF SpanCost
    <2> HIDE DEF h, k, dear, cheap
    <2>5. (k - h) * cheap <= (k - h) * dear
      <3>1. k - h \in Nat
        BY <2>1
      <3>2. cheap * (k - h) <= dear * (k - h)
        BY <2>2, <3>1, MoreCosts
      <3> QED BY <2>2, <3>1, <3>2
    <2>6. (k - h) * cheap = k * cheap - h * cheap /\ (k - h) * dear = (i - h) * dear - (i - k) * dear
      BY <2>1, <2>2
    <2>7. /\ (i - h) * dear \in Int /\ (i - k) * dear \in Int /\ h * cheap \in Int /\ k * cheap \in Int
          /\ o * OutputRate(row) \in Int
      BY <2>1, <2>2
    <2> QED BY <2>3, <2>4, <2>5, <2>6, <2>7
  <1>2. CASE ~IsLlm(row)
    <2>1. SpanCost(i, d, o, row) = i * InputRate(row) /\ SpanCost(i, c, o, row) = i * InputRate(row)
      BY <1>2, CalculateCostIs DEF SpanCost, BilledUnits
    <2>2. InputRate(row) \in Nat
      BY RatesAreNat
    <2> QED BY <2>1, <2>2
  <1> QED BY <1>1, <1>2

\* The usage row accounts for the charge.
LEMMA RowAccountsNow == PriceTypes => RowAccounts
  <1> SUFFICES ASSUME PriceTypes PROVE RowAccounts
    OBVIOUS
  <1>1. p \in Pricings(STRING) /\ input \in Nat /\ cached \in Nat /\ output \in Nat
    BY DEF PriceTypes
  <1> DEFINE hit == ClampCached(cached, input)
             row == UsageRow(input, cached, output, p)
  <1>2. hit \in Nat /\ input - hit \in Nat
    BY <1>1, Clamped
  <1>3. CASE IsLlm(p)
    <2>1. row.cost[1] + row.cost[2] + row.cost[3] = Charge
      BY <1>3 DEF UsageRow, Charge, SpanCost, LlmTotal
    <2>2. row.cached = hit /\ row.output = output /\ row.total = input + output
      BY <1>3 DEF UsageRow, BilledUnits
    <2>3. row.cached + row.output <= row.total
      <3> HIDE DEF hit, row
      <3> QED BY <1>1, <1>2, <2>2
    <2> QED BY <2>1, <2>3 DEF RowAccounts
  <1>4. CASE ~IsLlm(p)
    <2>1. row.cost[1] = CalculateCost(input, p) /\ row.cost[2] = 0 /\ row.cost[3] = 0
      BY <1>4 DEF UsageRow
    <2>2. CalculateCost(input, p) \in Int
      BY <1>1, CalculateCostIs, RatesAreNat
    <2>3. Charge = CalculateCost(input, p)
      BY <1>4 DEF Charge, SpanCost, BilledUnits
    <2>4. row.cached = 0 /\ row.output = 0 /\ row.total = input
      BY <1>4 DEF UsageRow, BilledUnits
    <2>5. row.cost[1] + row.cost[2] + row.cost[3] = Charge /\ row.cached + row.output <= row.total
      <3> HIDE DEF row
      <3> QED BY <1>1, <2>1, <2>2, <2>3, <2>4
    <2> QED BY <2>5 DEF RowAccounts
  <1> QED BY <1>3, <1>4

\* One more token.
LEMMA PriceTypesStep == PriceTypes /\ [PricesNext]_pvars => PriceTypes'
  BY DEF PriceTypes, PricesNext, AddInput, AddOutput, AddCached, pvars

\* One more token keeps the row in account with the charge, is never cheaper outside the
\* cache and never dearer inside it, whatever prices are missing or zero and whatever the
\* provider reports as cached - for any prices, unit size and number of tokens.
THEOREM ChargeFollowsUsageAlways == PricesSpec => ChargeFollowsUsage
  <1> DEFINE Follows ==
        part = "prices" =>
          /\ RowAccounts'
          /\ cached' = cached => Charge' >= Charge
          /\ input' = input /\ output' = output /\ p.cached_input_cost_per_unit <= InputRate(p)
               => Charge' <= Charge
  <1>1. PricesInit => PriceTypes
    BY DEF PricesInit, PriceTypes
  <1>2. ASSUME PriceTypes, PriceTypes', PricesNext PROVE Follows
    <2>1. RowAccounts'
      <3>1. PriceTypes' => RowAccounts'
        BY RowAccountsNow, PTL
      <3> QED BY <1>2, <3>1
    <2>2. /\ p \in Pricings(STRING) /\ input \in Nat /\ cached \in Nat /\ output \in Nat
          /\ input' \in Nat /\ cached' \in Nat /\ output' \in Nat /\ p' = p
          /\ input <= input' /\ cached <= cached' /\ output <= output'
      BY <1>2 DEF PriceTypes, PricesNext, AddInput, AddOutput, AddCached
    <2>3. Charge = SpanCost(input, cached, output, p) /\ Charge' = SpanCost(input', cached', output', p)
      BY <2>2 DEF Charge
    <2>4. ASSUME cached' = cached PROVE Charge' >= Charge
      BY <2>2, <2>3, <2>4, UseNeverCheaper
    <2>5. ASSUME input' = input, output' = output, p.cached_input_cost_per_unit <= InputRate(p)
          PROVE  Charge' <= Charge
      BY <2>2, <2>3, <2>5, HitNeverDearer
    <2> QED BY <2>1, <2>4, <2>5
  <1>3. PriceTypes /\ PriceTypes' /\ [PricesNext]_pvars => [Follows]_pvars
    BY <1>2
  <1> QED BY <1>1, <1>3, PriceTypesStep, PTL DEF PricesSpec, ChargeFollowsUsage
============================================================================
