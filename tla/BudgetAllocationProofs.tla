----------------------- MODULE BudgetAllocationProofs -----------------------
(***************************************************************************)
(* Proofs about the allocations of a tenant's budget, the values of an API *)
(* key and the changes of a tier's quota, for any keys, applications,      *)
(* workers, tenants and limits, and any number of requests and faults:     *)
(*   LedgerFollowsAlways         the ledger's ceiling of a settled key is  *)
(*                               the one its row holds;                    *)
(*   ChildrenWithinParentAlways  the children of a budget fit their parent,*)
(*                               to the roundings of the checks;           *)
(*   PercentFollowsAmountAlways  a stored percentage is its amount's share;*)
(*   EntryBackedAlways           once the administrators' requests are     *)
(*                               over, Redis holds no payload the row does *)
(*                               not stand for;                            *)
(*   PreviousKeepsWorkingAlways  no race ends somebody else's window;      *)
(*   ScheduledIsToldAlways       a scheduled quota has been announced, or  *)
(*                               its failure recorded.                     *)
(* The three components are stated as MCBudgetAllocation sees them, K for  *)
(* the key's values and Q for the quotas; the three specifications are     *)
(* independent of each other and of the bounds of that module.             *)
(***************************************************************************)
EXTENDS MCBudgetAllocation, Sequences, FiniteSums

-----------------------------------------------------------------------------
(* Allocations: types                                                       *)

Amount == Nat \cup {Unset}

\* What the ledger needs of a row; PercentTypes says what the percentages are.
AppRow(r) == DOMAIN r = {"status", "budget", "pct"} /\ r.budget \in Amount

KeyRow(r) ==
    DOMAIN r = {"state", "amount", "pct"} /\ r = [f \in DOMAIN r |-> r[f]] /\ r.amount \in Nat

AllocationPlaces == {"ready", "zero", "deactivate", "single", "snapshot", "seed", "flags", "done",
                     "wallet", "exhaust", "clear"}

FormOf(r) ==
    /\ DOMAIN r = {"pc", "target", "row", "copy", "writes", "seen", "clean"}
    /\ r.pc \in AllocationPlaces
    /\ DOMAIN r.writes \subseteq Key
    /\ \A k \in DOMAIN r.writes : r.writes[k] \in Nat
    /\ r.clean \subseteq DOMAIN r.writes
    /\ r.pc \in {"ready", "zero", "single", "wallet", "exhaust"} => r.clean = {} /\ DOMAIN r.writes = {}
    /\ r.pc = "deactivate" => r.clean = {} /\ \A k \in DOMAIN r.writes : r.writes[k] = 0
    /\ r.pc = "single" => r.target \in Key

RowTypes ==
    /\ tenant \in Amount
    /\ app = [a \in App |-> app[a]] /\ \A a \in App : AppRow(app[a])
    /\ key = [k \in Key |-> key[k]] /\ \A k \in Key : KeyRow(key[k])

LedgerTypes == snap \in [Key -> Amount] /\ used \in [Key -> Nat] /\ settled \subseteq Key

RequestForms == req = [w \in Worker |-> req[w]] /\ \A w \in Worker : FormOf(req[w])

AllocationTypes == RowTypes /\ LedgerTypes /\ RequestForms

-----------------------------------------------------------------------------
(* Allocations: the invariant                                               *)

Known(k) == key[k].state # "none"

\* Only keys that were created are written through, are settled or have usage.
KnownKeys ==
    /\ \A w \in Worker : \A k \in DOMAIN req[w].writes : Known(k)
    /\ \A w \in Worker : req[w].pc = "single" => Known(req[w].target)
    /\ \A k \in settled : Known(k)
    /\ \A k \in Key : ~Known(k) => used[k] = 0

\* A write-through nothing has disturbed holds the key's ceiling and its usage, and has it
\* in the ledger once it is past that.  A key that a revision may unflag is below its
\* ceiling.
Clean(w, k) ==
    /\ req[w].pc # "clear" => req[w].writes[k] = key[k].amount
    /\ req[w].pc = "clear" => snap[k] = Unset \/ used[k] < snap[k]
    /\ req[w].pc \in {"snapshot", "flags"} => req[w].seen[k] = used[k]
    /\ req[w].pc \in {"seed", "done"} => used[k] = 0 /\ key[k].amount > 0
    /\ req[w].pc \in {"flags", "done"} => snap[k] = req[w].writes[k]

CleanInv == \A w \in Worker : \A k \in req[w].clean : Clean(w, k)

\* Nobody else is about to write through such a key, or one that is settled.
Alone ==
    /\ \A v, w \in Worker : v # w /\ Following(v) => req[w].clean \cap DOMAIN req[v].writes = {}
    /\ \A v \in Worker : Following(v) => settled \cap DOMAIN req[v].writes = {}

\* The ledger of a settled key, revoked or not.
SettledInv ==
    \A k \in settled : snap[k] = key[k].amount /\ (k \notin flag => used[k] < snap[k] \/ k \in owed)

LedgerInv == AllocationTypes /\ KnownKeys /\ CleanInv /\ Alone /\ SettledInv

-----------------------------------------------------------------------------
(* Allocations: amounts                                                     *)

\* A product of naturals is one.
LEMMA ProductIsNat ==
    ASSUME NEW x \in Nat, NEW y \in Nat
    PROVE  x * y \in Nat
  OBVIOUS

\* Rounding half up to a paisa gives a natural.
LEMMA HalfUpIsNat ==
    ASSUME NEW n \in Nat
    PROVE  HalfUp(n, Hundred) \in Nat
  BY DEF HalfUp, Hundred

\* So does rounding half to even.
LEMMA HalfEvenIsNat ==
    ASSUME NEW n \in Nat
    PROVE  HalfEven(n, Hundred) \in Nat
  BY DEF HalfEven, Hundred

\* A request for a child of a parent that has a budget comes to an amount.
LEMMA ConvertAmount ==
    ASSUME NEW input \in AppInputs \cup KeyInputs, NEW parent \in Nat
    PROVE  Convert(input, parent).amount \in Nat
  <1>1. input.value \in Nat /\ parent * input.value \in Nat
    BY AllocationAssumption, ProductIsNat
  <1>2. CASE input.type = "FIXED"
    BY <1>1, <1>2 DEF Convert
  <1>3. CASE input.type # "FIXED"
    <2>1. HalfUp(parent * input.value, Hundred) \in Nat
      BY <1>1, HalfUpIsNat
    <2> QED BY <1>3, <2>1 DEF Convert
  <1> QED BY <1>2, <1>3

\* So do the children as resolve_level resolves them.
LEMMA ResolvedAmount ==
    ASSUME NEW parent \in Nat, NEW children, NEW request,
           \A c \in DOMAIN request : request[c] \in AppInputs \cup KeyInputs,
           \A c \in DOMAIN children : children[c].amount \in Nat,
           NEW c \in DOMAIN children
    PROVE  Resolved(parent, children, request)[c].amount \in Nat
  <1>1. CASE c \in DOMAIN request /\ Convert(request[c], parent).amount # children[c].amount
    <2>1. Resolved(parent, children, request)[c] = Convert(request[c], parent)
      BY <1>1 DEF Resolved
    <2> QED BY <1>1, <2>1, ConvertAmount
  <1>2. CASE ~(c \in DOMAIN request /\ Convert(request[c], parent).amount # children[c].amount)
    <2>1. Resolved(parent, children, request)[c]
            = [amount |-> children[c].amount, pct |-> children[c].pct]
      BY <1>2 DEF Resolved
    <2> QED BY <2>1
  <1> QED BY <1>1, <1>2

\* And the keys that an application's new amount cascades into.
LEMMA CascadeAmount ==
    ASSUME NEW parent \in Nat, NEW children, NEW request, NEW resized \in BOOLEAN,
           \A c \in DOMAIN request : request[c] \in AppInputs \cup KeyInputs,
           \A c \in DOMAIN children : children[c].amount \in Nat,
           NEW c \in DOMAIN children
    PROVE  Cascade(children, parent, request, resized)[c].amount \in Nat
  <1> DEFINE resolved == Resolved(parent, children, request)
             others == [k \in DOMAIN children \ DOMAIN request |-> children[k]]
             pcts == Recompute(parent, others, Oldest(Funded(others)))
             r == IF c \in DOMAIN request \/ ~resized THEN resolved[c]
                  ELSE [amount |-> children[c].amount, pct |-> pcts[c]]
  <1>1. Cascade(children, parent, request, resized)[c] = r
    BY DEF Cascade
  <1>2. resolved[c].amount \in Nat
    BY ResolvedAmount
  <1> HIDE DEF resolved, pcts
  <1>3. r.amount \in Nat
    BY <1>2
  <1> QED BY <1>1, <1>3

-----------------------------------------------------------------------------
(* Allocations: a request that commits new ceilings                         *)

\* The commit of w: these keys get these ceilings, and nothing else of a key that the
\* ledger follows is changed.
Commits(w, writes, seen) ==
    /\ DOMAIN writes \subseteq Key
    /\ \A k \in DOMAIN writes : writes[k] = key'[k].amount /\ Known(k)
    /\ \A k \in Key : /\ key'[k].state = key[k].state
                      /\ k \notin DOMAIN writes => key'[k].amount = key[k].amount
    /\ RowTypes'
    /\ FollowUp(w, writes, seen)
    /\ UNCHANGED ledger

\* The request that follows up, and the others without the keys it has touched.
LEMMA FollowUpForms ==
    ASSUME AllocationTypes, NEW w \in Worker, NEW writes, NEW seen,
           DOMAIN writes \subseteq Key, \A k \in DOMAIN writes : writes[k] \in Nat,
           FollowUp(w, writes, seen)
    PROVE  /\ RequestForms'
           /\ \A u \in Worker \ {w} :
                 /\ req'[u].pc = req[u].pc /\ req'[u].target = req[u].target
                 /\ req'[u].writes = req[u].writes /\ req'[u].seen = req[u].seen
                 /\ req'[u].clean = req[u].clean \ DOMAIN writes
           /\ req'[w].pc \in {"ready", "snapshot"}
           /\ req'[w].pc = "ready" => DOMAIN req'[w].writes = {} /\ req'[w].clean = {}
           /\ req'[w].pc = "snapshot" =>
                 /\ req'[w].writes = writes
                 /\ req'[w].clean \subseteq DOMAIN writes
                 /\ \A k \in req'[w].clean :
                       /\ req'[w].seen[k] = used[k]
                       /\ \A u \in Worker \ {w} : Following(u) => k \notin DOMAIN req[u].writes
  <1> DEFINE keys == DOMAIN writes
             taken == UNION {DOMAIN req[u].writes : u \in {v \in Worker \ {w} : Following(v)}}
             left == [k \in keys |-> seen[k]]
             clean == {k \in keys \ taken : seen[k] = used[k]}
             mine == [Ready EXCEPT !.pc = "snapshot", !.writes = writes, !.seen = left,
                                   !.clean = clean]
             r == IF keys = {} THEN Ready ELSE mine
  <1>1. req' = [u \in Worker |-> IF u # w THEN Disturb(req[u], keys) ELSE r]
    BY Zenon DEF FollowUp
  <1>a. /\ clean \subseteq keys /\ \A k \in clean : left[k] = used[k]
        /\ \A k \in clean : \A u \in Worker \ {w} : Following(u) => k \notin DOMAIN req[u].writes
    OBVIOUS
  <1> HIDE DEF r, left, clean, keys, taken
  <1>2. \A u \in Worker \ {w} : req'[u] = Disturb(req[u], keys)
    BY <1>1
  <1>3. \A u \in Worker \ {w} :
           /\ FormOf(req'[u])
           /\ req'[u].pc = req[u].pc /\ req'[u].target = req[u].target
           /\ req'[u].writes = req[u].writes /\ req'[u].seen = req[u].seen
           /\ req'[u].clean = req[u].clean \ keys
    <2> SUFFICES ASSUME NEW u \in Worker \ {w}, NEW q, q = req[u]
                 PROVE  /\ FormOf(Disturb(q, keys))
                        /\ Disturb(q, keys).pc = q.pc /\ Disturb(q, keys).target = q.target
                        /\ Disturb(q, keys).writes = q.writes /\ Disturb(q, keys).seen = q.seen
                        /\ Disturb(q, keys).clean = q.clean \ keys
      BY <1>2
    <2>1. FormOf(q)
      BY DEF AllocationTypes, RequestForms
    <2>2. /\ DOMAIN Disturb(q, keys) = DOMAIN q
          /\ Disturb(q, keys).pc = q.pc /\ Disturb(q, keys).target = q.target
          /\ Disturb(q, keys).writes = q.writes /\ Disturb(q, keys).seen = q.seen
          /\ Disturb(q, keys).clean = q.clean \ keys
      BY <2>1 DEF Disturb, FormOf
    <2> QED BY <2>1, <2>2 DEF FormOf
  <1>4. req'[w] = r
    BY <1>1
  <1>5. CASE keys = {}
    <2>1. FormOf(Ready) /\ Ready.pc = "ready" /\ DOMAIN Ready.writes = {} /\ Ready.clean = {}
      BY DEF FormOf, Ready, AllocationPlaces
    <2>2. RequestForms'
      BY <1>1, <1>3, <1>4, <1>5, <2>1 DEF RequestForms, r
    <2> QED BY <1>3, <1>4, <1>5, <2>1, <2>2 DEF r, keys
  <1>6. CASE keys # {}
    <2>0. /\ mine.pc = "snapshot" /\ mine.writes = writes /\ mine.seen = left /\ mine.clean = clean
          /\ DOMAIN mine = {"pc", "target", "row", "copy", "writes", "seen", "clean"}
      BY DEF Ready
    <2> HIDE DEF mine
    <2>1. /\ FormOf(mine) /\ mine.pc = "snapshot" /\ mine.writes = writes
          /\ mine.seen = left /\ mine.clean = clean
      BY <1>a, <2>0 DEF FormOf, AllocationPlaces, keys
    <2>2. RequestForms'
      BY <1>1, <1>3, <1>4, <1>6, <2>1 DEF RequestForms, r
    <2> QED BY <1>a, <1>3, <1>4, <1>6, <2>1, <2>2 DEF r, keys
  <1> QED BY <1>5, <1>6

\* The invariant is kept by the commit of new ceilings.
LEMMA CommitKeeps ==
    ASSUME LedgerInv, NEW w \in Worker, NEW writes, NEW seen, Commits(w, writes, seen)
    PROVE  LedgerInv'
  <1> DEFINE keys == DOMAIN writes
  <1>0. AllocationTypes /\ RowTypes' /\ UNCHANGED <<snap, used, flag, owed>>
    BY DEF LedgerInv, Commits, ledger
  <1>1. \A k \in keys : writes[k] \in Nat /\ writes[k] = key'[k].amount /\ k \in Key
    BY DEF Commits, RowTypes, KeyRow
  <1>2. /\ RequestForms'
        /\ \A u \in Worker \ {w} :
              /\ req'[u].pc = req[u].pc /\ req'[u].target = req[u].target
              /\ req'[u].writes = req[u].writes /\ req'[u].seen = req[u].seen
              /\ req'[u].clean = req[u].clean \ keys
        /\ req'[w].pc \in {"ready", "snapshot"}
        /\ req'[w].pc = "ready" => DOMAIN req'[w].writes = {} /\ req'[w].clean = {}
        /\ req'[w].pc = "snapshot" =>
              /\ req'[w].writes = writes
              /\ req'[w].clean \subseteq keys
              /\ \A k \in req'[w].clean :
                    /\ req'[w].seen[k] = used[k]
                    /\ \A u \in Worker \ {w} : Following(u) => k \notin DOMAIN req[u].writes
    BY <1>0, <1>1, FollowUpForms DEF Commits
  <1>3. settled' = settled \ keys
    BY Zenon DEF Commits, FollowUp
  <1>4. \A k \in Key : key'[k].state = key[k].state /\ (k \notin keys => key'[k].amount = key[k].amount)
    BY DEF Commits
  <1>5. \A k \in keys : Known(k)
    BY DEF Commits
  <1> HIDE DEF keys
  <1>6. AllocationTypes'
    BY <1>0, <1>2, <1>3 DEF AllocationTypes, LedgerTypes
  <1>7. \A k \in Key : Known(k)' <=> Known(k)
    BY <1>4 DEF Known
  <1>8. \A v \in Worker : DOMAIN req[v].writes \subseteq Key /\ req[v].clean \subseteq DOMAIN req[v].writes
    BY <1>0 DEF AllocationTypes, RequestForms, FormOf
  <1>9. KnownKeys'
    <2>1. \A v \in Worker : \A k \in DOMAIN req'[v].writes : Known(k)'
      BY <1>1, <1>2, <1>5, <1>7, <1>8 DEF LedgerInv, KnownKeys, keys
    <2>2. \A v \in Worker : req'[v].pc = "single" => key'[req'[v].target].state # "none"
      <3>1. \A v \in Worker \ {w} : req[v].pc = "single" => Known(req[v].target) /\ req[v].target \in Key
        BY <1>0 DEF LedgerInv, KnownKeys, AllocationTypes, RequestForms, FormOf
      <3> QED BY <1>2, <1>4, <3>1 DEF Known
    <2>3. (\A k \in settled' : Known(k)') /\ \A k \in Key : ~Known(k)' => used'[k] = 0
      BY <1>0, <1>3, <1>7 DEF LedgerInv, KnownKeys, AllocationTypes, LedgerTypes
    <2> QED BY <2>1, <2>2, <2>3 DEF KnownKeys, Known
  <1>10. CleanInv'
    <2> SUFFICES ASSUME NEW v \in Worker, NEW k \in req'[v].clean
                 PROVE  Clean(v, k)'
      BY DEF CleanInv
    <2>1. CASE v = w
      <3>1. req'[w].pc = "snapshot" /\ k \in keys
        BY <1>2, <2>1
      <3> QED BY <1>0, <1>1, <1>2, <2>1, <3>1 DEF Clean
    <2>2. CASE v # w
      <3>1. k \in req[v].clean /\ k \notin keys /\ k \in Key
        BY <1>2, <1>8, <2>2
      <3>2. Clean(v, k)
        BY <3>1 DEF LedgerInv, CleanInv
      <3> QED BY <1>0, <1>2, <1>4, <2>2, <3>1, <3>2 DEF Clean
    <2> QED BY <2>1, <2>2
  <1>11. Alone'
    <2>1. ASSUME NEW u \in Worker, NEW v \in Worker, u # v, Following(u)'
          PROVE  req'[v].clean \cap DOMAIN req'[u].writes = {}
      <3>1. CASE v = w
        <4>1. DOMAIN req'[u].writes = DOMAIN req[u].writes
          BY <1>2, <2>1, <3>1
        <4>2. \A k \in req'[w].clean : k \notin DOMAIN req[u].writes
          <5>1. Following(u)
            BY <1>2, <2>1, <3>1 DEF Following
          <5> QED BY <1>2, <2>1, <3>1, <5>1
        <4> QED BY <3>1, <4>1, <4>2
      <3>2. CASE u = w
        <4>1. DOMAIN req'[w].writes \subseteq keys
          BY <1>2 DEF keys
        <4>2. req'[v].clean \cap keys = {}
          BY <1>2, <2>1, <3>2
        <4> QED BY <3>2, <4>1, <4>2
      <3>3. CASE u # w /\ v # w
        <4>1. Following(u)
          BY <1>2, <2>1, <3>3 DEF Following
        <4>2. req[v].clean \cap DOMAIN req[u].writes = {}
          BY <2>1, <4>1 DEF LedgerInv, Alone
        <4> QED BY <1>2, <3>3, <4>2
      <3> QED BY <3>1, <3>2, <3>3
    <2>2. ASSUME NEW u \in Worker, Following(u)'
          PROVE  settled' \cap DOMAIN req'[u].writes = {}
      <3>1. CASE u = w
        BY <1>2, <1>3, <3>1 DEF keys
      <3>2. CASE u # w
        BY <1>2, <1>3, <2>2, <3>2 DEF Following, LedgerInv, Alone
      <3> QED BY <3>1, <3>2
    <2> QED BY <2>1, <2>2 DEF Alone
  <1>12. SettledInv'
    <2>1. settled \subseteq Key
      BY <1>0 DEF AllocationTypes, LedgerTypes
    <2> QED BY <1>0, <1>3, <1>4, <2>1 DEF LedgerInv, SettledInv
  <1> QED BY <1>6, <1>9, <1>10, <1>11, <1>12 DEF LedgerInv

-----------------------------------------------------------------------------
(* Allocations: the other steps of a request                                *)

\* A request that is replaced by one of the right form leaves all of them so.
LEMMA FormsStep ==
    ASSUME RequestForms, NEW w \in Worker, NEW r, FormOf(r), req' = [req EXCEPT ![w] = r]
    PROVE  RequestForms' /\ req'[w] = r /\ \A v \in Worker \ {w} : req'[v] = req[v]
  BY DEF RequestForms

\* A request that has not begun has the form of one.
LEMMA ReadyForm ==
    /\ FormOf(Ready) /\ Ready.pc = "ready" /\ DOMAIN Ready.writes = {} /\ Ready.clean = {}
    /\ DOMAIN Ready = {"pc", "target", "row", "copy", "writes", "seen", "clean"}
  BY DEF Ready, FormOf, AllocationPlaces

\* What a revision read of a key is still so.
StillBelow(w, r) ==
    \A k \in r.clean :
        /\ r.pc = "clear" /\ (snap[k] = Unset \/ used[k] < snap[k])
        /\ \A v \in Worker \ {w} : Following(v) => k \notin DOMAIN req[v].writes

\* A request that has nothing to write through, before its commit or after the last step.
LEMMA QuietMove ==
    ASSUME LedgerInv, NEW w \in Worker, NEW r, FormOf(r), StillBelow(w, r),
           r.pc \notin {"snapshot", "seed", "flags", "done"},
           req' = [req EXCEPT ![w] = r], RowTypes', key' = key, UNCHANGED <<snap, used>>,
           settled' \subseteq settled,
           \A k \in DOMAIN r.writes : Known(k), r.pc = "single" => Known(r.target),
           \A k \in settled' : k \notin flag' => used[k] < snap[k] \/ k \in owed'
    PROVE  LedgerInv'
  <1>0. AllocationTypes
    BY DEF LedgerInv
  <1>1. RequestForms' /\ req'[w] = r /\ \A v \in Worker \ {w} : req'[v] = req[v]
    BY <1>0, FormsStep DEF AllocationTypes
  <1>2. AllocationTypes'
    BY <1>0, <1>1 DEF AllocationTypes, LedgerTypes
  <1>3. KnownKeys'
    BY <1>1 DEF LedgerInv, KnownKeys, Known
  <1>4. CleanInv'
    BY <1>1 DEF LedgerInv, CleanInv, Clean, StillBelow
  <1>5. Alone'
    <2>1. ASSUME NEW u \in Worker, NEW v \in Worker, u # v, Following(u)'
          PROVE  req'[v].clean \cap DOMAIN req'[u].writes = {}
      <3>1. u # w /\ req'[u] = req[u] /\ Following(u)
        BY <1>1, <2>1 DEF Following
      <3>2. CASE v = w
        BY <1>1, <2>1, <3>1, <3>2 DEF StillBelow
      <3>3. CASE v # w
        BY <1>1, <2>1, <3>1, <3>3 DEF LedgerInv, Alone
      <3> QED BY <3>2, <3>3
    <2>2. ASSUME NEW u \in Worker, Following(u)'
          PROVE  settled' \cap DOMAIN req'[u].writes = {}
      BY <1>1, <2>2 DEF LedgerInv, Alone, Following
    <2> QED BY <2>1, <2>2 DEF Alone
  <1>6. SettledInv'
    BY DEF LedgerInv, SettledInv
  <1> QED BY <1>2, <1>3, <1>4, <1>5, <1>6 DEF LedgerInv

\* Rows that change without a change of a ceiling, while the requests stay.
LEMMA RowsMove ==
    ASSUME LedgerInv, UNCHANGED <<req, snap, used, flag, owed, settled>>, RowTypes',
           \A k \in Key : key'[k].amount = key[k].amount /\ (Known(k) <=> Known(k)')
    PROVE  LedgerInv'
  <1>0. AllocationTypes
    BY DEF LedgerInv
  <1>1. AllocationTypes'
    BY <1>0 DEF AllocationTypes, LedgerTypes, RequestForms
  <1>2. \A w \in Worker : /\ DOMAIN req[w].writes \subseteq Key /\ req[w].clean \subseteq Key
                          /\ req[w].pc = "single" => req[w].target \in Key
    BY <1>0 DEF AllocationTypes, RequestForms, FormOf
  <1>3. settled \subseteq Key
    BY <1>0 DEF AllocationTypes, LedgerTypes
  <1>4. KnownKeys'
    <2>1. \A w \in Worker : \A k \in DOMAIN req'[w].writes : Known(k)'
      BY <1>2 DEF LedgerInv, KnownKeys
    <2>2. \A w \in Worker : req'[w].pc = "single" => key'[req'[w].target].state # "none"
      BY <1>2 DEF LedgerInv, KnownKeys, Known
    <2>3. (\A k \in settled' : Known(k)') /\ \A k \in Key : ~Known(k)' => used'[k] = 0
      BY <1>3 DEF LedgerInv, KnownKeys
    <2> QED BY <2>1, <2>2, <2>3 DEF KnownKeys, Known
  <1>5. CleanInv'
    BY <1>2 DEF LedgerInv, CleanInv, Clean
  <1>6. Alone'
    BY DEF LedgerInv, Alone, Following
  <1>7. SettledInv'
    BY <1>3 DEF LedgerInv, SettledInv
  <1> QED BY <1>1, <1>4, <1>5, <1>6, <1>7 DEF LedgerInv

\* The steps of applications, and a revocation.
LEMMA ApplicationSteps ==
    ASSUME LedgerInv, NEW w \in Worker, NEW a \in App,
           \/ \E pct \in Shares \cup {Unset} : CreateApplication(w, a, pct)
           \/ Activate(w, a)
    PROVE  LedgerInv'
  <1>0. RowTypes
    BY DEF LedgerInv, AllocationTypes
  <1>1. UNCHANGED <<tenant, key, req, snap, used, flag, owed, settled>>
    BY DEF CreateApplication, Activate, ledger, history
  <1>2. app' = [b \in App |-> app'[b]] /\ \A b \in App : AppRow(app'[b])
    <2>1. ASSUME NEW pct \in Shares \cup {Unset}, CreateApplication(w, a, pct)
          PROVE  app' = [b \in App |-> app'[b]] /\ \A b \in App : AppRow(app'[b])
      <3> DEFINE budget == IF pct = Unset \/ tenant = Unset THEN Unset
                           ELSE HalfEven(tenant * pct, Hundred)
                 r == [status |-> "ACTIVE", pct |-> pct, budget |-> budget]
      <3>1. ASSUME pct # Unset, tenant # Unset
            PROVE  HalfEven(tenant * pct, Hundred) \in Nat
        <4>1. pct \in Nat /\ tenant \in Nat
          BY <1>0, <3>1, AllocationAssumption DEF RowTypes, Amount
        <4> QED BY <4>1, ProductIsNat, HalfEvenIsNat
      <3>2. budget \in Amount
        BY <3>1 DEF Amount
      <3>3. app' = [app EXCEPT ![a] = r]
        BY <2>1 DEF CreateApplication
      <3> HIDE DEF budget
      <3>4. AppRow(r)
        BY <3>2 DEF AppRow
      <3> HIDE DEF r
      <3> QED BY <1>0, <3>3, <3>4 DEF RowTypes
    <2>2. CASE Activate(w, a)
      BY <1>0, <2>2 DEF Activate, RowTypes, AppRow
    <2> QED BY <2>1, <2>2
  <1>3. RowTypes'
    BY <1>0, <1>1, <1>2 DEF RowTypes
  <1> QED BY <1>1, <1>3, RowsMove DEF Known

\* Revoking a key leaves its ceiling and its ledger alone.
LEMMA RevokeStep ==
    ASSUME LedgerInv, NEW w \in Worker, NEW k \in Key, RevokeKey(w, k)
    PROVE  LedgerInv'
  <1>0. RowTypes
    BY DEF LedgerInv, AllocationTypes
  <1>1. UNCHANGED <<tenant, app, req, snap, used, flag, owed, settled>>
    BY DEF RevokeKey, ledger, history
  <1>2. key' = [key EXCEPT ![k].state = "revoked"] /\ key[k].state = "active"
    BY DEF RevokeKey, WriteKeys
  <1>3. RowTypes'
    BY <1>0, <1>1, <1>2 DEF RowTypes, KeyRow
  <1>4. \A l \in Key : key'[l].amount = key[l].amount /\ (Known(l) <=> Known(l)')
    BY <1>0, <1>2 DEF RowTypes, KeyRow, Known
  <1> QED BY <1>1, <1>3, <1>4, RowsMove

\* The steps of a request before its commit, and after a revision's.
LEMMA ReadSteps ==
    ASSUME LedgerInv, NEW w \in Worker,
           \/ \E a \in App : DeactivateRead(w, a)
           \/ \E k \in Key : SingleRead(w, k)
           \/ DeactivateZero(w) \/ GiveUp(w)
           \/ WalletRead(w) \/ WalletExhaust(w) \/ WalletClear(w) \/ WalletFails(w)
    PROVE  LedgerInv'
  <1>0. RowTypes /\ LedgerTypes /\ FormOf(req[w]) /\ key = [k \in Key |-> key[k]]
        /\ req = [v \in Worker |-> req[v]]
    BY DEF LedgerInv, AllocationTypes, RequestForms, RowTypes
  <1>1. UNCHANGED <<tenant, app, key, snap, used, owed>>
    BY Zenon DEF DeactivateRead, SingleRead, DeactivateZero, GiveUp, WalletRead, WalletExhaust,
                 WalletClear, WalletFails, rows, ledger
  <1>a. WalletClear(w) \/ settled' = settled
    BY Zenon DEF DeactivateRead, SingleRead, DeactivateZero, GiveUp, WalletRead, WalletExhaust,
                 WalletFails, history
  <1>2. RowTypes'
    BY <1>0, <1>1 DEF RowTypes
  <1>3. \A k \in settled : k \in Key /\ Known(k) /\ snap[k] \in Nat
                         /\ (k \notin flag => used[k] < snap[k] \/ k \in owed)
    BY <1>0 DEF LedgerInv, SettledInv, KnownKeys, LedgerTypes, RowTypes, KeyRow
  <1>4. ASSUME NEW r, FormOf(r), r.clean = {}, r.pc \notin {"snapshot", "seed", "flags", "done"},
               req' = [req EXCEPT ![w] = r], \A k \in DOMAIN r.writes : Known(k),
               r.pc = "single" => Known(r.target), settled' \subseteq settled,
               \A k \in settled' : k \notin flag' => used[k] < snap[k] \/ k \in owed'
        PROVE  LedgerInv'
    BY <1>1, <1>2, <1>4, QuietMove DEF StillBelow
  <1>5. ASSUME NEW a \in App, DeactivateRead(w, a)
        PROVE  LedgerInv'
    <2> DEFINE r == [Ready EXCEPT !.pc = "zero", !.target = a, !.copy = app[a]]
    <2>1. /\ FormOf(r) /\ r.pc = "zero" /\ DOMAIN r.writes = {} /\ r.clean = {}
      BY ReadyForm DEF FormOf, AllocationPlaces
    <2>2. req' = [req EXCEPT ![w] = r] /\ flag' = flag /\ settled' = settled
      BY <1>5, Zenon DEF DeactivateRead, ledger, history
    <2> HIDE DEF r
    <2> QED BY <1>1, <1>3, <1>4, <2>1, <2>2
  <1>6. ASSUME NEW k \in Key, SingleRead(w, k)
        PROVE  LedgerInv'
    <2> DEFINE r == [Ready EXCEPT !.pc = "single", !.target = k, !.row = key[k]]
    <2>1. /\ FormOf(r) /\ r.pc = "single" /\ DOMAIN r.writes = {} /\ r.clean = {} /\ r.target = k
      BY ReadyForm DEF FormOf, AllocationPlaces
    <2>2. req' = [req EXCEPT ![w] = r] /\ flag' = flag /\ key[k].state = "active" /\ settled' = settled
      BY <1>6, Zenon DEF SingleRead, ledger, history
    <2>3. Known(k)
      BY <2>2 DEF Known
    <2> HIDE DEF r
    <2> QED BY <1>1, <1>3, <1>4, <2>1, <2>2, <2>3
  <1>7. CASE DeactivateZero(w)
    <2> DEFINE zero == [k \in ActiveKeys(req[w].target) |-> 0]
               r == [req[w] EXCEPT !.pc = "deactivate", !.writes = zero]
    <2>1. DOMAIN zero \subseteq Key /\ \A k \in DOMAIN zero : zero[k] = 0 /\ Known(k)
      BY DEF ActiveKeys, KeysOf, Known
    <2>2. req[w].clean = {}
      BY <1>0, <1>7 DEF DeactivateZero, FormOf
    <2>3. req' = [req EXCEPT ![w] = r] /\ flag' = flag /\ settled' = settled
      BY <1>7 DEF DeactivateZero, ledger, history
    <2> HIDE DEF zero
    <2>4. r.pc = "deactivate" /\ r.writes = zero /\ r.clean = {} /\ DOMAIN r = DOMAIN req[w]
      BY <1>0, <2>2 DEF FormOf
    <2> HIDE DEF r
    <2>5. FormOf(r)
      BY <1>0, <2>1, <2>4 DEF FormOf, AllocationPlaces
    <2> QED BY <1>1, <1>3, <1>4, <2>1, <2>3, <2>4, <2>5
  <1>8. CASE GiveUp(w) \/ WalletFails(w)
    <2>1. req' = [req EXCEPT ![w] = Ready] /\ flag' = flag /\ settled' = settled
      BY <1>8 DEF GiveUp, WalletFails, ledger, history
    <2> QED BY <1>1, <1>3, <1>4, <2>1, ReadyForm
  <1>9. CASE WalletRead(w)
    <2> DEFINE busy == UNION {DOMAIN req[u].writes : u \in {v \in Worker : Following(v)}}
               list == [k \in Below |-> 0]
               out == [Ready EXCEPT !.pc = "exhaust"]
               room == [Ready EXCEPT !.pc = "clear", !.writes = list, !.clean = Below \ busy]
    <2>1. (req' = [req EXCEPT ![w] = out] \/ req' = [req EXCEPT ![w] = room])
          /\ flag' = flag /\ settled' = settled
      BY <1>9 DEF WalletRead, ledger, history
    <2>2. /\ DOMAIN list = Below /\ \A k \in Below : list[k] = 0
          /\ Below \subseteq Key /\ \A k \in Below : Known(k) /\ (snap[k] = Unset \/ used[k] < snap[k])
      BY DEF Below, IssuedKeys, Known
    <2>3. \A k \in Below \ busy : \A v \in Worker : Following(v) => k \notin DOMAIN req[v].writes
      OBVIOUS
    <2> HIDE DEF busy, list
    <2>4. out.pc = "exhaust" /\ out.clean = {} /\ DOMAIN out.writes = {} /\ FormOf(out)
      BY ReadyForm DEF FormOf, AllocationPlaces
    <2>5. /\ room.pc = "clear" /\ room.writes = list /\ room.clean = Below \ busy
          /\ DOMAIN room = DOMAIN Ready
      BY ReadyForm
    <2> HIDE DEF out, room
    <2>6. FormOf(room)
      BY <2>2, <2>5, ReadyForm DEF FormOf, AllocationPlaces
    <2>7. StillBelow(w, room)
      BY <2>2, <2>3, <2>5 DEF StillBelow
    <2>8. CASE req' = [req EXCEPT ![w] = out]
      BY <1>1, <1>3, <1>4, <2>1, <2>4, <2>8
    <2>9. CASE req' = [req EXCEPT ![w] = room]
      BY <1>1, <1>2, <1>3, <2>1, <2>2, <2>5, <2>6, <2>7, <2>9, QuietMove
    <2> QED BY <2>1, <2>8, <2>9
  <1>10. CASE WalletExhaust(w)
    <2>1. req' = [req EXCEPT ![w] = Ready] /\ flag' = flag \cup IssuedKeys /\ settled' = settled
      BY <1>10 DEF WalletExhaust, history
    <2> QED BY <1>1, <1>3, <1>4, <2>1, ReadyForm
  <1>11. CASE WalletClear(w)
    <2> DEFINE lifted == flag \cap DOMAIN req[w].writes
    <2>1. /\ req[w].pc = "clear" /\ req' = [req EXCEPT ![w] = Ready] /\ flag' = flag \ lifted
          /\ settled' = settled \ (lifted \ req[w].clean)
      BY <1>11 DEF WalletClear
    <2>2. \A k \in req[w].clean : snap[k] = Unset \/ used[k] < snap[k]
      BY <2>1 DEF LedgerInv, CleanInv, Clean
    <2>3. \A k \in settled' : k \notin flag' => used[k] < snap[k] \/ k \in owed'
      <3> SUFFICES ASSUME NEW k \in settled', k \notin flag'
                   PROVE  used[k] < snap[k] \/ k \in owed'
        OBVIOUS
      <3>1. CASE k \in flag
        BY <1>3, <2>1, <2>2, <3>1 DEF Unset
      <3>2. CASE k \notin flag
        BY <1>1, <1>3, <2>1, <3>2
      <3> QED BY <3>1, <3>2
    <2> QED BY <1>4, <2>1, <2>3, ReadyForm
  <1> QED BY <1>5, <1>6, <1>7, <1>8, <1>9, <1>10, <1>11

\* A revision: the tenant's budget and the applications' percentages.
LEMMA ReviseStep ==
    ASSUME LedgerInv, NEW w \in Worker, NEW amount \in {0, TopUp}, ReviseBudget(w, amount)
    PROVE  LedgerInv'
  <1> DEFINE Pct(seen) == Recompute(RevisedBudget(amount), AppChildren(seen),
                                    Newest(Funded(AppChildren(seen))))
             r == [req[w] EXCEPT !.pc = "wallet", !.target = RevisedBudget(amount)]
  <1>0. RowTypes /\ FormOf(req[w]) /\ req = [v \in Worker |-> req[v]]
    BY DEF LedgerInv, AllocationTypes, RequestForms
  <1>1. PICK seen \in {used, [k \in Key |-> 0]} :
           /\ Starts(w) /\ tenant' = RevisedBudget(amount)
           /\ app' = [a \in App |-> IF a \in ActiveApps /\ AppChildren(seen)[a].amount > 0
                                    THEN [app[a] EXCEPT !.pct = Pct(seen)[a]] ELSE app[a]]
           /\ req' = [req EXCEPT ![w].pc = "wallet", ![w].target = RevisedBudget(amount)]
           /\ UNCHANGED <<key, ledger, history, charges>>
    BY Zenon DEF ReviseBudget
  <1> HIDE DEF Pct
  <1>2. UNCHANGED <<key, snap, used, flag, owed, settled>> /\ req[w] = Ready
    BY <1>1 DEF ledger, history, Starts
  <1>3. tenant' \in Nat
    BY <1>0, <1>1, AllocationAssumption DEF RevisedBudget, OrZero, RowTypes, Amount
  <1>4. \A a \in App : AppRow([app[a] EXCEPT !.pct = Pct(seen)[a]])
    BY <1>0 DEF RowTypes, AppRow
  <1>5. app' = [a \in App |-> app'[a]] /\ \A a \in App : AppRow(app'[a])
    BY <1>0, <1>1, <1>4 DEF RowTypes
  <1>6. RowTypes'
    BY <1>0, <1>2, <1>3, <1>5 DEF RowTypes, Amount
  <1>7. req' = [req EXCEPT ![w] = r]
    BY <1>1
  <1>8. FormOf(r) /\ r.pc = "wallet" /\ r.clean = {} /\ DOMAIN r.writes = {}
    BY <1>2, ReadyForm DEF FormOf, AllocationPlaces
  <1> HIDE DEF r
  <1>9. \A k \in settled' : k \notin flag' => used[k] < snap[k] \/ k \in owed'
    BY <1>2 DEF LedgerInv, SettledInv
  <1> QED BY <1>2, <1>6, <1>7, <1>8, <1>9, QuietMove DEF StillBelow

\* The ledger is written, or could not be.
LEMMA SnapshotStep ==
    ASSUME LedgerInv, NEW w \in Worker, WriteSnapshot(w) \/ SnapshotFails(w)
    PROVE  LedgerInv'
  <1> DEFINE next == IF req[w].pc = "seed" THEN "done" ELSE "flags"
             mine == req'[w]
  <1>0. /\ AllocationTypes /\ RowTypes /\ LedgerTypes /\ RequestForms
        /\ FormOf(req[w]) /\ req = [v \in Worker |-> req[v]]
    BY DEF LedgerInv, AllocationTypes, RequestForms
  <1>1. UNCHANGED <<tenant, app, key, used, flag, owed, settled>> /\ req[w].pc \in {"snapshot", "seed"}
    BY DEF WriteSnapshot, SnapshotFails, rows, ledger, history
  <1>2. /\ \A v \in Worker \ {w} : req'[v] = req[v]
        /\ req' = [v \in Worker |-> req'[v]]
        /\ mine.pc = next /\ mine.writes = req[w].writes /\ mine.seen = req[w].seen
        /\ DOMAIN mine = DOMAIN req[w] /\ mine.target = req[w].target
        /\ mine.clean \subseteq req[w].clean
    BY <1>0 DEF WriteSnapshot, SnapshotFails, FormOf
  <1>3. FormOf(mine) /\ RequestForms'
    BY <1>0, <1>1, <1>2 DEF FormOf, AllocationPlaces, RequestForms
  <1>4. /\ snap' \in [Key -> Amount]
        /\ \A k \in Key \ DOMAIN req[w].writes : snap'[k] = snap[k]
        /\ \A k \in mine.clean : snap'[k] = req[w].writes[k]
    <2>1. CASE WriteSnapshot(w)
      BY <1>0, <1>2, <2>1 DEF WriteSnapshot, LedgerTypes, FormOf, Amount
    <2>2. CASE SnapshotFails(w)
      <3>1. mine.clean = {} /\ snap' = snap
        BY <1>0, <2>2 DEF SnapshotFails, ledger, FormOf
      <3> QED BY <1>0, <3>1 DEF LedgerTypes
    <2> QED BY <2>1, <2>2
  <1> HIDE DEF mine
  <1>5. AllocationTypes'
    BY <1>0, <1>1, <1>3, <1>4 DEF AllocationTypes, RowTypes, LedgerTypes
  <1>6. \A v \in Worker : /\ req[v].clean \subseteq Key
                          /\ req'[v].clean \subseteq req[v].clean /\ req'[v].writes = req[v].writes
                          /\ Following(v)' <=> Following(v)
    BY <1>0, <1>1, <1>2 DEF Following, RequestForms, FormOf, mine
  <1>7. KnownKeys'
    BY <1>1, <1>2, <1>6 DEF LedgerInv, KnownKeys, Known, mine
  <1>8. CleanInv'
    <2> SUFFICES ASSUME NEW v \in Worker, NEW k \in req'[v].clean
                 PROVE  Clean(v, k)'
      BY DEF CleanInv
    <2>1. Clean(v, k) /\ k \in Key /\ k \in req[v].clean
      BY <1>6 DEF LedgerInv, CleanInv
    <2>2. CASE v = w
      BY <1>1, <1>2, <1>4, <2>1, <2>2 DEF Clean, mine
    <2>3. CASE v # w
      <3>1. k \notin DOMAIN req[w].writes
        BY <1>1, <2>1, <2>3 DEF LedgerInv, Alone, Following
      <3> QED BY <1>1, <1>2, <1>4, <2>1, <2>3, <3>1 DEF Clean
    <2> QED BY <2>2, <2>3
  <1>9. Alone'
    BY <1>1, <1>6 DEF LedgerInv, Alone
  <1>10. SettledInv'
    <2>1. settled \cap DOMAIN req[w].writes = {} /\ settled \subseteq Key
      BY <1>0, <1>1 DEF LedgerInv, Alone, Following, LedgerTypes
    <2> QED BY <1>1, <1>4, <2>1 DEF LedgerInv, SettledInv
  <1> QED BY <1>5, <1>7, <1>8, <1>9, <1>10 DEF LedgerInv

\* The last step of a write-through.
LEMMA SettleStep ==
    ASSUME LedgerInv, NEW w \in Worker, SyncFlags(w) \/ SeedDone(w)
    PROVE  LedgerInv'
  <1> DEFINE done == req[w].writes
  <1>0. /\ AllocationTypes /\ RowTypes /\ LedgerTypes /\ RequestForms
        /\ FormOf(req[w]) /\ req = [v \in Worker |-> req[v]]
    BY DEF LedgerInv, AllocationTypes, RequestForms
  <1>1. /\ UNCHANGED <<tenant, app, key, used, snap, owed>> /\ Following(w)
        /\ settled' = settled \cup req[w].clean
        /\ req' = [req EXCEPT ![w] = Ready]
    BY Zenon DEF SyncFlags, SeedDone, Settle, Following, rows, ledger
  <1>2. RequestForms' /\ req'[w] = Ready /\ \A v \in Worker \ {w} : req'[v] = req[v]
    BY <1>0, <1>1, FormsStep, ReadyForm
  <1>3. req[w].clean \subseteq DOMAIN done /\ DOMAIN done \subseteq Key
    BY <1>0 DEF FormOf
  <1>4. AllocationTypes'
    BY <1>0, <1>1, <1>2, <1>3 DEF AllocationTypes, RowTypes, LedgerTypes
  <1>5. KnownKeys'
    BY <1>1, <1>2, <1>3, ReadyForm DEF LedgerInv, KnownKeys, Known
  <1>6. CleanInv'
    BY <1>1, <1>2, ReadyForm DEF LedgerInv, CleanInv, Clean
  <1>7. Alone'
    BY <1>1, <1>2, ReadyForm DEF LedgerInv, Alone, Following
  <1>8. SettledInv'
    <2>1. settled \cap DOMAIN done = {}
      BY <1>1 DEF LedgerInv, Alone
    <2>2. \A k \in req[w].clean : Clean(w, k) /\ key[k].amount \in Nat /\ used[k] \in Nat
      BY <1>0, <1>3 DEF LedgerInv, CleanInv, RowTypes, KeyRow, LedgerTypes
    <2>3. CASE SyncFlags(w)
      <3> DEFINE exhausted == {k \in DOMAIN done : req[w].seen[k] >= done[k]}
      <3>1. flag' = (flag \ DOMAIN done) \cup exhausted /\ req[w].pc = "flags"
        BY <2>3 DEF SyncFlags
      <3>2. \A k \in settled : k \notin flag' => k \notin flag
        BY <2>1, <3>1
      <3>3. \A k \in req[w].clean : k \notin flag' => used[k] < snap[k]
        BY <1>3, <2>2, <3>1 DEF Clean
      <3>4. \A k \in req[w].clean : snap[k] = key[k].amount
        BY <2>2, <3>1 DEF Clean
      <3> HIDE DEF exhausted
      <3> QED BY <1>1, <3>2, <3>3, <3>4 DEF LedgerInv, SettledInv
    <2>4. CASE SeedDone(w)
      <3>1. flag' = flag /\ req[w].pc = "done"
        BY <2>4 DEF SeedDone, ledger
      <3>2. \A k \in req[w].clean : snap[k] = key[k].amount /\ used[k] < snap[k]
        BY <2>2, <3>1 DEF Clean
      <3> QED BY <1>1, <3>1, <3>2 DEF LedgerInv, SettledInv
    <2> QED BY <2>3, <2>4
  <1> QED BY <1>4, <1>5, <1>6, <1>7, <1>8 DEF LedgerInv

\* A billed request of a key.
LEMMA BillStep ==
    ASSUME LedgerInv, NEW k \in Key, Bill(k)
    PROVE  LedgerInv'
  <1>0. /\ AllocationTypes /\ RowTypes /\ LedgerTypes /\ RequestForms
    BY DEF LedgerInv, AllocationTypes
  <1>1. /\ UNCHANGED <<tenant, app, key, snap, flag, settled>> /\ Known(k)
        /\ used' = [used EXCEPT ![k] = @ + Charge]
        /\ owed' = IF snap[k] # Unset /\ used'[k] >= snap[k] THEN owed \cup {k} ELSE owed
    BY DEF Bill, rows, history, Known, IssuedKeys
  <1>2. \A v \in Worker : req'[v] = Disturb(req[v], {k})
    BY DEF Bill
  <1>3. \A v \in Worker :
           /\ DOMAIN req'[v] = DOMAIN req[v]
           /\ req'[v].pc = req[v].pc /\ req'[v].target = req[v].target
           /\ req'[v].writes = req[v].writes /\ req'[v].seen = req[v].seen
           /\ req'[v].clean = req[v].clean \ {k}
    BY <1>0, <1>2 DEF Disturb, RequestForms, FormOf
  <1>4. RequestForms'
    <2>1. req' = [v \in Worker |-> req'[v]]
      BY DEF Bill
    <2>2. ASSUME NEW v \in Worker
          PROVE  FormOf(req'[v])
      BY <1>0, <1>3 DEF RequestForms, FormOf
    <2> QED BY <2>1, <2>2 DEF RequestForms
  <1>5. used' \in [Key -> Nat] /\ \A l \in Key \ {k} : used'[l] = used[l]
    BY <1>0, <1>1, AllocationAssumption DEF LedgerTypes
  <1>6. AllocationTypes'
    BY <1>0, <1>1, <1>4, <1>5 DEF AllocationTypes, RowTypes, LedgerTypes
  <1>7. KnownKeys'
    BY <1>1, <1>3, <1>5 DEF LedgerInv, KnownKeys, Known
  <1>8. CleanInv'
    <2> SUFFICES ASSUME NEW v \in Worker, NEW l \in req'[v].clean
                 PROVE  Clean(v, l)'
      BY DEF CleanInv
    <2>1. l \in req[v].clean /\ l # k /\ l \in Key
      BY <1>0, <1>3 DEF RequestForms, FormOf
    <2>2. Clean(v, l)
      BY <2>1 DEF LedgerInv, CleanInv
    <2> QED BY <1>1, <1>3, <1>5, <2>1, <2>2 DEF Clean
  <1>9. Alone'
    BY <1>1, <1>3 DEF LedgerInv, Alone, Following
  <1>10. SettledInv'
    <2>1. \A l \in settled : l \in Key /\ snap[l] \in Nat /\ snap[l] = key[l].amount
      BY <1>0 DEF LedgerInv, SettledInv, LedgerTypes, RowTypes, KeyRow
    <2>2. k \in settled /\ k \notin flag' => used'[k] < snap[k] \/ k \in owed'
      BY <1>1, <1>5, <2>1 DEF Unset
    <2>3. \A l \in settled \ {k} : l \notin flag' => used'[l] < snap[l] \/ l \in owed'
      BY <1>1, <1>5, <2>1 DEF LedgerInv, SettledInv
    <2> QED BY <1>1, <2>1, <2>2, <2>3 DEF SettledInv
  <1> QED BY <1>6, <1>7, <1>8, <1>9, <1>10 DEF LedgerInv

\* The consumer pushes the flag of a key, or fails to.
LEMMA PushStep ==
    ASSUME LedgerInv, NEW k \in Key, PushFlag(k) \/ PushFails(k)
    PROVE  LedgerInv'
  <1>1. UNCHANGED <<tenant, app, key, snap, used, req>> /\ settled' \subseteq settled
    BY DEF PushFlag, PushFails, rows, history
  <1>2. AllocationTypes'
    BY <1>1 DEF LedgerInv, AllocationTypes, RowTypes, LedgerTypes, RequestForms
  <1>3. KnownKeys' /\ CleanInv' /\ Alone'
    BY <1>1 DEF LedgerInv, KnownKeys, Known, CleanInv, Clean, Alone, Following
  <1>4. ASSUME NEW l \in settled', l \notin flag'
        PROVE  used[l] < snap[l] \/ l \in owed'
    BY <1>1, <1>4 DEF PushFlag, PushFails, LedgerInv, SettledInv
  <1>5. SettledInv'
    BY <1>1, <1>4 DEF LedgerInv, SettledInv
  <1> QED BY <1>2, <1>3, <1>5 DEF LedgerInv

\* A new key, whose ceiling is seeded in the ledger next.
LEMMA CreateStep ==
    ASSUME LedgerInv, NEW w \in Worker, NEW k \in Key, NEW input \in KeyInputs,
           CreateKey(w, k, input)
    PROVE  LedgerInv'
  <1> DEFINE amount == Convert(input, app[Owner[k]].budget).amount
             pct == Convert(input, app[Owner[k]].budget).pct
             keyRow == [state |-> "active", amount |-> amount, pct |-> pct]
             seed == [l \in {k} |-> amount]
             r == [Ready EXCEPT !.pc = "seed", !.writes = seed, !.clean = {k}]
  <1>0. /\ AllocationTypes /\ RowTypes /\ LedgerTypes /\ RequestForms
    BY DEF LedgerInv, AllocationTypes
  <1>1. /\ UNCHANGED <<tenant, app, snap, used, flag, owed, settled>>
        /\ key[k].state = "none" /\ app[Owner[k]].budget > 0 /\ amount > 0
        /\ key' = [key EXCEPT ![k] = keyRow]
        /\ req' = [req EXCEPT ![w] = r]
    BY Zenon DEF CreateKey, ledger, history
  <1>2. amount \in Nat
    <2>1. app[Owner[k]].budget \in Nat
      BY <1>0, <1>1, AllocationAssumption DEF RowTypes, AppRow, Amount, Unset
    <2> QED BY <2>1, ConvertAmount
  <1> HIDE DEF amount, pct
  <1>3. KeyRow(keyRow) /\ keyRow.state = "active" /\ keyRow.amount = amount
    BY <1>2 DEF KeyRow
  <1>4. DOMAIN seed = {k} /\ seed[k] = amount
    OBVIOUS
  <1> HIDE DEF keyRow, seed
  <1>5. /\ r.pc = "seed" /\ r.writes = seed /\ r.clean = {k}
        /\ DOMAIN r = {"pc", "target", "row", "copy", "writes", "seen", "clean"}
    BY ReadyForm
  <1> HIDE DEF r
  <1>6. FormOf(r)
    BY <1>2, <1>4, <1>5 DEF FormOf, AllocationPlaces
  <1>7. RequestForms' /\ req'[w] = r /\ \A v \in Worker \ {w} : req'[v] = req[v]
    BY <1>0, <1>1, <1>6, FormsStep
  <1>8. /\ key' = [l \in Key |-> key'[l]] /\ key'[k] = keyRow
        /\ \A l \in Key \ {k} : key'[l] = key[l]
    BY <1>0, <1>1 DEF RowTypes
  <1>9. AllocationTypes'
    <2>1. RowTypes'
      BY <1>0, <1>1, <1>3, <1>8 DEF RowTypes
    <2> QED BY <1>0, <1>1, <1>7, <2>1 DEF AllocationTypes, LedgerTypes
  <1>10. /\ ~Known(k) /\ Known(k)' /\ used[k] = 0 /\ k \notin settled
         /\ \A v \in Worker : k \notin DOMAIN req[v].writes /\ k \notin req[v].clean
                              /\ DOMAIN req[v].writes \subseteq Key
    BY <1>0, <1>1, <1>3, <1>8 DEF LedgerInv, KnownKeys, Known, RequestForms, FormOf
  <1>11. KnownKeys'
    <2>1. \A v \in Worker : \A l \in DOMAIN req'[v].writes : Known(l)'
      <3>1. \A v \in Worker \ {w} : \A l \in DOMAIN req[v].writes : Known(l)'
        BY <1>8, <1>10 DEF LedgerInv, KnownKeys, Known
      <3> QED BY <1>4, <1>5, <1>7, <1>10, <3>1
    <2>2. \A v \in Worker : req'[v].pc = "single" => key'[req'[v].target].state # "none"
      <3>1. \A v \in Worker : req[v].pc = "single" => Known(req[v].target) /\ req[v].target \in Key
        BY <1>0 DEF LedgerInv, KnownKeys, RequestForms, FormOf
      <3> QED BY <1>5, <1>7, <1>8, <1>10, <3>1 DEF Known
    <2>3. (\A l \in settled' : Known(l)') /\ \A l \in Key : ~Known(l)' => used'[l] = 0
      BY <1>0, <1>1, <1>8, <1>10 DEF LedgerInv, KnownKeys, Known, LedgerTypes
    <2> QED BY <2>1, <2>2, <2>3 DEF KnownKeys, Known
  <1>12. CleanInv'
    <2> SUFFICES ASSUME NEW v \in Worker, NEW l \in req'[v].clean
                 PROVE  Clean(v, l)'
      BY DEF CleanInv
    <2>1. CASE v = w
      BY <1>1, <1>3, <1>4, <1>5, <1>7, <1>8, <1>10, <2>1 DEF Clean
    <2>2. CASE v # w
      <3>1. l \in req[v].clean /\ l # k /\ l \in Key /\ Clean(v, l)
        BY <1>0, <1>7, <1>10, <2>2 DEF RequestForms, FormOf, LedgerInv, CleanInv
      <3> QED BY <1>1, <1>7, <1>8, <2>2, <3>1 DEF Clean
    <2> QED BY <2>1, <2>2
  <1>13. Alone'
    BY <1>1, <1>4, <1>5, <1>7, <1>10 DEF LedgerInv, Alone, Following
  <1>14. SettledInv'
    BY <1>0, <1>1, <1>8, <1>10 DEF LedgerInv, SettledInv, LedgerTypes
  <1> QED BY <1>9, <1>11, <1>12, <1>13, <1>14 DEF LedgerInv

\* The commit of a deactivation.
LEMMA ZeroKeysStep ==
    ASSUME LedgerInv, NEW w \in Worker, DeactivateCommit(w)
    PROVE  LedgerInv'
  <1> DEFINE a == req[w].target
             zeroed == DOMAIN req[w].writes
             left == [status |-> "INACTIVE",
                      budget |-> Released(req[w].copy.budget, app[a].budget),
                      pct |-> Released(req[w].copy.pct, app[a].pct)]
             Zero(k) == [key[k] EXCEPT !.amount = 0, !.pct = 0]
  <1>0. RowTypes /\ FormOf(req[w])
    BY DEF LedgerInv, AllocationTypes, RequestForms
  <1>1. /\ req[w].pc = "deactivate" /\ app' = [app EXCEPT ![a] = left]
        /\ key' = [k \in Key |-> IF k \in zeroed THEN Zero(k) ELSE key[k]]
        /\ tenant' = tenant
    BY Zenon DEF DeactivateCommit
  <1>a. FollowUp(w, req[w].writes, used) /\ UNCHANGED ledger
    BY Zenon DEF DeactivateCommit
  <1>2. a \in App => AppRow(left)
    BY <1>0 DEF AppRow, Released, RowTypes, Amount
  <1>b. \A k \in Key : Zero(k).state = key[k].state /\ Zero(k).amount = 0 /\ KeyRow(Zero(k))
    BY <1>0 DEF RowTypes, KeyRow
  <1> HIDE DEF Zero
  <1>3. \A k \in zeroed : req[w].writes[k] = 0 /\ Known(k) /\ k \in Key
    BY <1>0, <1>1 DEF FormOf, LedgerInv, KnownKeys
  <1> HIDE DEF zeroed, left
  <1>4. \A k \in Key : /\ key'[k].state = key[k].state /\ KeyRow(key'[k])
                       /\ k \notin zeroed => key'[k].amount = key[k].amount
                       /\ k \in zeroed => key'[k].amount = 0
    BY <1>0, <1>1, <1>b DEF RowTypes, KeyRow
  <1>5. RowTypes'
    <2>1. app' = [b \in App |-> app'[b]] /\ \A b \in App : AppRow(app'[b])
      BY <1>0, <1>1, <1>2 DEF RowTypes
    <2>2. key' = [k \in Key |-> key'[k]]
      BY <1>1
    <2> QED BY <1>0, <1>1, <1>4, <2>1, <2>2 DEF RowTypes
  <1>6. Commits(w, req[w].writes, used)
    BY <1>a, <1>3, <1>4, <1>5 DEF Commits, zeroed
  <1> QED BY <1>6, CommitKeeps

\* The rows of a request.
LEMMA RowsFacts ==
    ASSUME NEW S, NEW Inputs, NEW request \in Rows(S, Inputs) \cup AtMostOne(S, Inputs)
    PROVE  DOMAIN request \subseteq S /\ \A c \in DOMAIN request : request[c] \in Inputs
  <1>1. CASE request \in Rows(S, Inputs)
    <2>1. PICK T \in SUBSET S \ {{}} : request \in [T -> Inputs]
      BY <1>1 DEF Rows
    <2> QED BY <2>1
  <1>2. CASE request \in AtMostOne(S, Inputs)
    <2>1. PICK T \in {U \in SUBSET S : Cardinality(U) <= 1} : request \in [T -> Inputs]
      BY <1>2 DEF AtMostOne
    <2> QED BY <2>1
  <1> QED BY <1>1, <1>2

\* A key's row with another ceiling.
LEMMA ResizedRow ==
    ASSUME NEW keyRow, KeyRow(keyRow), NEW c, c.amount \in Nat
    PROVE  /\ KeyRow(Resized(keyRow, c)) /\ Resized(keyRow, c).amount = c.amount
           /\ Resized(keyRow, c).state = keyRow.state
  BY DEF Resized, KeyRow

\* An endpoint that commits these rows of keys, the tenant's and the applications' too.
LEMMA KeysCommit ==
    ASSUME LedgerInv, NEW w \in Worker, NEW seen, NEW keysNow, NEW writes,
           key' = keysNow, keysNow = [k \in Key |-> keysNow[k]],
           tenant' \in Amount,
           app' = [a \in App |-> app'[a]], \A a \in App : AppRow(app'[a]),
           \A k \in Key : /\ KeyRow(keysNow[k]) /\ keysNow[k].state = key[k].state
                          /\ k \notin writes => keysNow[k].amount = key[k].amount,
           writes \subseteq Key, \A k \in writes : Known(k),
           FollowUp(w, [k \in writes |-> keysNow[k].amount], seen), UNCHANGED ledger
    PROVE  LedgerInv'
  <1> DEFINE new == [k \in writes |-> keysNow[k].amount]
  <1>1. RowTypes'
    BY DEF RowTypes
  <1>2. DOMAIN new = writes /\ \A k \in writes : new[k] = keysNow[k].amount
    OBVIOUS
  <1>3. FollowUp(w, new, seen)
    OBVIOUS
  <1> HIDE DEF new
  <1>4. Commits(w, new, seen)
    BY <1>1, <1>2, <1>3 DEF Commits
  <1> QED BY <1>4, CommitKeeps

\* update_application_key_allocations
LEMMA ApplicationAllocateStep ==
    ASSUME LedgerInv, NEW w \in Worker, NEW a \in App,
           NEW request \in Rows(ActiveKeys(a), KeyInputs), ApplicationAllocate(w, a, request)
    PROVE  LedgerInv'
  <1> DEFINE Writes(seen) == Changed(app[a].budget, KeyChildren(a, seen), request)
             New(k) == Resized(key[k], Convert(request[k], app[a].budget))
             KeysNow(seen) == [k \in Key |-> IF k \in Writes(seen) THEN New(k) ELSE key[k]]
  <1>0. RowTypes
    BY DEF LedgerInv, AllocationTypes
  <1>1. PICK seen \in {used, [k \in Key |-> 0]} :
           /\ app[a].budget # Unset /\ WriteKeys(KeysNow(seen))
           /\ FollowUp(w, [k \in Writes(seen) |-> KeysNow(seen)[k].amount], seen)
           /\ UNCHANGED <<tenant, app, ledger, slipped, charges>>
    BY Zenon DEF ApplicationAllocate
  <1>2. DOMAIN request \subseteq ActiveKeys(a) /\ \A k \in DOMAIN request : request[k] \in KeyInputs
    BY RowsFacts
  <1>3. Writes(seen) \subseteq DOMAIN request /\ \A k \in ActiveKeys(a) : Known(k) /\ k \in Key
    BY DEF Changed, ActiveKeys, KeysOf, Known
  <1>4. app[a].budget \in Nat
    BY <1>0, <1>1 DEF RowTypes, AppRow, Amount
  <1>5. \A k \in DOMAIN request : KeyRow(New(k)) /\ New(k).state = key[k].state
    <2> SUFFICES ASSUME NEW k \in DOMAIN request
                 PROVE  KeyRow(New(k)) /\ New(k).state = key[k].state
      OBVIOUS
    <2>1. Convert(request[k], app[a].budget).amount \in Nat
      BY <1>2, <1>4, ConvertAmount
    <2>2. KeyRow(key[k])
      BY <1>0, <1>2, <1>3 DEF RowTypes
    <2> QED BY <2>1, <2>2, ResizedRow
  <1> HIDE DEF New, Writes
  <1>6. /\ KeysNow(seen) = [k \in Key |-> KeysNow(seen)[k]]
        /\ \A k \in Key : /\ KeyRow(KeysNow(seen)[k]) /\ KeysNow(seen)[k].state = key[k].state
                          /\ k \notin Writes(seen) => KeysNow(seen)[k].amount = key[k].amount
    BY <1>0, <1>2, <1>3, <1>5 DEF RowTypes
  <1> HIDE DEF KeysNow
  <1>7. key' = KeysNow(seen) /\ UNCHANGED <<tenant, app>> /\ UNCHANGED ledger
    BY <1>1 DEF WriteKeys
  <1>8. Writes(seen) \subseteq Key /\ \A k \in Writes(seen) : Known(k)
    BY <1>2, <1>3
  <1>9. tenant' \in Amount /\ app' = [b \in App |-> app'[b]] /\ \A b \in App : AppRow(app'[b])
    BY <1>0, <1>7 DEF RowTypes
  <1> QED BY <1>1, <1>6, <1>7, <1>8, <1>9, KeysCommit

\* update_single_api_key_allocation
LEMMA SingleStep ==
    ASSUME LedgerInv, NEW w \in Worker, NEW input \in KeyInputs, SingleCommit(w, input)
    PROVE  LedgerInv'
  <1> DEFINE k == req[w].target
             c == Convert(input, app[Owner[k]].budget)
             changed == c.amount # req[w].row.amount
             new == [key[k] EXCEPT !.amount = c.amount,
                                   !.pct = IF c.pct = req[w].row.pct THEN key[k].pct ELSE c.pct]
             keysNow == IF changed THEN [key EXCEPT ![k] = new] ELSE key
             writes == [l \in (IF changed THEN {k} ELSE {}) |-> c.amount]
  <1>0. RowTypes /\ FormOf(req[w])
    BY DEF LedgerInv, AllocationTypes, RequestForms
  <1>1. PICK seen \in {used, [l \in Key |-> 0]} :
           /\ req[w].pc = "single" /\ app[Owner[k]].budget # Unset
           /\ WriteKeys(keysNow) /\ FollowUp(w, writes, seen)
           /\ UNCHANGED <<tenant, app, ledger, slipped, ops, charges>>
    BY Zenon DEF SingleCommit
  <1>a. req[w].pc = "single" /\ app[Owner[k]].budget # Unset
    BY <1>1, Zenon
  <1>b. key' = keysNow /\ UNCHANGED <<tenant, app>> /\ UNCHANGED ledger
    BY <1>1, Zenon DEF WriteKeys
  <1>2. k \in Key /\ Known(k) /\ KeyRow(key[k])
    BY <1>0, <1>a DEF FormOf, LedgerInv, KnownKeys, RowTypes
  <1>3. c.amount \in Nat
    <2>1. app[Owner[k]].budget \in Nat
      BY <1>0, <1>a, <1>2, AllocationAssumption DEF RowTypes, AppRow, Amount
    <2> QED BY <2>1, ConvertAmount
  <1> HIDE DEF c, changed
  <1>4. KeyRow(new) /\ new.state = key[k].state /\ new.amount = c.amount
    BY <1>2, <1>3 DEF KeyRow
  <1> HIDE DEF new
  <1>5. DOMAIN writes = (IF changed THEN {k} ELSE {}) /\ \A l \in DOMAIN writes : writes[l] = c.amount
    OBVIOUS
  <1>6. key' = [l \in Key |-> key'[l]] /\ \A l \in Key \ {k} : key'[l] = key[l]
    BY <1>0, <1>b DEF RowTypes
  <1>7. key'[k] = IF changed THEN new ELSE key[k]
    BY <1>0, <1>2, <1>b DEF RowTypes
  <1> HIDE DEF keysNow, writes
  <1>8. RowTypes' /\ UNCHANGED ledger
    <2>2. \A l \in Key : KeyRow(key'[l])
      BY <1>0, <1>4, <1>6, <1>7 DEF RowTypes
    <2> QED BY <1>0, <1>6, <1>b, <2>2 DEF RowTypes
  <1>9. Commits(w, writes, seen)
    <2>1. \A l \in Key : key'[l].state = key[l].state
                         /\ (l \notin DOMAIN writes => key'[l].amount = key[l].amount)
      BY <1>4, <1>5, <1>6, <1>7
    <2>2. DOMAIN writes \subseteq Key /\ \A l \in DOMAIN writes : writes[l] = key'[l].amount /\ Known(l)
      BY <1>2, <1>4, <1>5, <1>7
    <2> QED BY <1>1, <1>8, <2>1, <2>2 DEF Commits
  <1> QED BY <1>9, CommitKeeps

\* The tenant's endpoint: applications, and the keys they cascade into.
LEMMA TenantAllocateStep ==
    ASSUME LedgerInv, NEW w \in Worker, NEW request \in Rows(ActiveApps, AppInputs),
           NEW nested \in AtMostOne(UNION {ActiveKeys(a) : a \in DOMAIN request}, KeyInputs),
           TenantAllocate(w, request, nested)
    PROVE  LedgerInv'
  <1> DEFINE Resolution(seen) == Resolved(tenant, AppChildren(seen), request)
             Sized(seen) == Changed(tenant, AppChildren(seen), request)
             RowsOf(a) == [k \in {l \in DOMAIN nested : Owner[l] = a} |-> nested[k]]
             Touched(seen) == {a \in DOMAIN request : a \in Sized(seen) \/ DOMAIN RowsOf(a) # {}}
             Into(seen, a) == Cascade(KeyChildren(a, seen), Resolution(seen)[a].amount, RowsOf(a),
                                      a \in Sized(seen))
             Fresh(seen) == [a \in Touched(seen) |-> Into(seen, a)]
             Hit(seen) == UNION {ActiveKeys(a) : a \in Touched(seen)}
             New(seen, k) == Resized(key[k], Fresh(seen)[Owner[k]][k])
             KeysNow(seen) == [k \in Key |-> IF k \in Hit(seen) THEN New(seen, k) ELSE key[k]]
             Writes(seen) == {k \in Hit(seen) : KeysNow(seen)[k].amount # key[k].amount}
             AppNow(seen, a) == [status |-> "ACTIVE", budget |-> Resolution(seen)[a].amount,
                                 pct |-> Resolution(seen)[a].pct]
  <1>0. RowTypes
    BY DEF LedgerInv, AllocationTypes
  <1>1. PICK seen \in {used, [k \in Key |-> 0]} :
           /\ tenant # Unset /\ DOMAIN request \subseteq ActiveApps
           /\ app' = [a \in App |-> IF a \in Sized(seen) THEN AppNow(seen, a) ELSE app[a]]
           /\ WriteKeys(KeysNow(seen))
           /\ FollowUp(w, [k \in Writes(seen) |-> KeysNow(seen)[k].amount], seen)
           /\ UNCHANGED <<tenant, ledger, slipped, charges>>
    BY Zenon DEF TenantAllocate
  <1>a. tenant # Unset /\ DOMAIN request \subseteq ActiveApps
    BY <1>1, Zenon
  <1>2. /\ \A a \in DOMAIN request : request[a] \in AppInputs
        /\ \A k \in DOMAIN nested : nested[k] \in KeyInputs
    BY RowsFacts
  <1>3. tenant \in Nat /\ Sized(seen) \subseteq DOMAIN request
    BY <1>0, <1>a DEF RowTypes, Amount, Changed
  <1>4. \A a \in ActiveApps : Resolution(seen)[a].amount \in Nat
    <2>1. /\ DOMAIN AppChildren(seen) = ActiveApps
          /\ \A a \in ActiveApps : AppChildren(seen)[a].amount = OrZero(app[a].budget)
      BY DEF AppChildren
    <2>2. \A a \in ActiveApps : AppChildren(seen)[a].amount \in Nat
      BY <1>0, <2>1 DEF RowTypes, AppRow, Amount, OrZero, ActiveApps
    <2> QED BY <1>2, <1>3, <2>1, <2>2, ResolvedAmount
  <1>5. \A a \in Sized(seen) : AppRow(AppNow(seen, a))
    <2> SUFFICES ASSUME NEW a \in Sized(seen)
                 PROVE  AppRow(AppNow(seen, a))
      OBVIOUS
    <2>1. Resolution(seen)[a].amount \in Nat
      BY <1>3, <1>4, <1>a
    <2> HIDE DEF Resolution
    <2> QED BY <2>1 DEF AppRow, Amount
  <1>6. \A k \in Hit(seen) : k \in Key /\ Known(k) /\ Fresh(seen)[Owner[k]][k].amount \in Nat
    <2> SUFFICES ASSUME NEW a \in Touched(seen), NEW k \in ActiveKeys(a)
                 PROVE  k \in Key /\ Known(k) /\ Fresh(seen)[Owner[k]][k].amount \in Nat
      OBVIOUS
    <2>1. k \in Key /\ Known(k) /\ Owner[k] = a
      BY DEF ActiveKeys, KeysOf, Known
    <2>2. a \in ActiveApps
      BY <1>a
    <2>3. /\ DOMAIN KeyChildren(a, seen) = ActiveKeys(a)
          /\ \A l \in ActiveKeys(a) : KeyChildren(a, seen)[l].amount = key[l].amount
      BY DEF KeyChildren
    <2>4. \A l \in ActiveKeys(a) : KeyChildren(a, seen)[l].amount \in Nat
      BY <1>0, <2>3 DEF RowTypes, KeyRow, ActiveKeys, KeysOf
    <2>5. \A l \in DOMAIN RowsOf(a) : RowsOf(a)[l] \in KeyInputs
      BY <1>2
    <2>7. Resolution(seen)[a].amount \in Nat
      BY <1>4, <2>2
    <2>8. Fresh(seen)[a] = Into(seen, a)
      OBVIOUS
    <2> HIDE DEF Resolution, RowsOf, Sized, Fresh, Touched
    <2>6. (a \in Sized(seen)) \in BOOLEAN
      OBVIOUS
    <2>9. Into(seen, a)[k].amount \in Nat
      BY <2>3, <2>4, <2>5, <2>6, <2>7, CascadeAmount
    <2> QED BY <2>1, <2>8, <2>9
  <1> HIDE DEF Fresh, Hit, Sized, Resolution, RowsOf, Touched
  <1>7. \A k \in Hit(seen) : KeyRow(New(seen, k)) /\ New(seen, k).state = key[k].state
    BY <1>0, <1>6, ResizedRow DEF RowTypes
  <1> HIDE DEF New, AppNow
  <1>8. /\ KeysNow(seen) = [k \in Key |-> KeysNow(seen)[k]]
        /\ \A k \in Key : /\ KeyRow(KeysNow(seen)[k]) /\ KeysNow(seen)[k].state = key[k].state
                          /\ k \notin Writes(seen) => KeysNow(seen)[k].amount = key[k].amount
    BY <1>0, <1>6, <1>7 DEF RowTypes
  <1>9. Writes(seen) \subseteq Key /\ \A k \in Writes(seen) : Known(k)
    BY <1>6
  <1>10. app' = [a \in App |-> app'[a]] /\ \A a \in App : AppRow(app'[a])
    BY <1>0, <1>1, <1>5 DEF RowTypes
  <1> HIDE DEF KeysNow, Writes
  <1>11. key' = KeysNow(seen) /\ tenant' \in Amount /\ UNCHANGED ledger
    BY <1>0, <1>1 DEF RowTypes, WriteKeys
  <1> QED BY <1>1, <1>8, <1>9, <1>10, <1>11, KeysCommit

-----------------------------------------------------------------------------
(* Allocations: the theorem                                                 *)

\* The invariant is kept by every step.
LEMMA LedgerStep ==
    ASSUME LedgerInv, [Next]_vars
    PROVE  LedgerInv'
  <1>1. ASSUME NEW w \in Worker, Administer(w)
        PROVE  LedgerInv'
    <2>1. ASSUME NEW a \in App,
                 \/ \E pct \in Shares \cup {Unset} : CreateApplication(w, a, pct)
                 \/ Activate(w, a) \/ DeactivateRead(w, a)
                 \/ \E request \in Rows(ActiveKeys(a), KeyInputs) : ApplicationAllocate(w, a, request)
          PROVE  LedgerInv'
      BY <2>1, ApplicationSteps, ReadSteps, ApplicationAllocateStep
    <2>2. ASSUME NEW request \in Rows(ActiveApps, AppInputs),
                 NEW nested \in AtMostOne(UNION {ActiveKeys(a) : a \in DOMAIN request}, KeyInputs),
                 TenantAllocate(w, request, nested)
          PROVE  LedgerInv'
      BY <2>2, TenantAllocateStep
    <2>3. ASSUME NEW k \in Key,
                 \/ SingleRead(w, k) \/ RevokeKey(w, k)
                 \/ \E input \in KeyInputs : CreateKey(w, k, input)
          PROVE  LedgerInv'
      BY <2>3, ReadSteps, RevokeStep, CreateStep
    <2>4. ASSUME NEW amount \in {0, TopUp}, ReviseBudget(w, amount)
          PROVE  LedgerInv'
      BY <2>4, ReviseStep
    <2> QED BY <1>1, <2>1, <2>2, <2>3, <2>4, Zenon DEF Administer
  <1>2. ASSUME NEW w \in Worker, Finish(w)
        PROVE  LedgerInv'
    BY <1>2, ReadSteps, ZeroKeysStep, SingleStep, SnapshotStep, SettleStep DEF Finish
  <1>3. ASSUME NEW k \in Key, Bill(k) \/ PushFlag(k) \/ PushFails(k)
        PROVE  LedgerInv'
    BY <1>3, BillStep, PushStep
  <1>4. ASSUME UNCHANGED vars
        PROVE  LedgerInv'
    <2>1. UNCHANGED <<tenant, app, key, req, snap, used, flag, owed, settled>>
      BY <1>4 DEF vars
    <2>2. RowTypes'
      BY <2>1 DEF LedgerInv, AllocationTypes, RowTypes
    <2> QED BY <2>1, <2>2, RowsMove DEF Known
  <1> QED BY <1>1, <1>2, <1>3, <1>4 DEF Next

\* And it holds before any request.
LEMMA LedgerInit == ASSUME Init PROVE LedgerInv
  <1>1. /\ \A k \in Key : key[k] = NoKey /\ KeyRow(NoKey) /\ ~Known(k)
        /\ \A a \in App : AppRow(NoApp)
    BY DEF Init, KeyRow, NoKey, AppRow, NoApp, Amount, Known
  <1>2. RowTypes
    BY <1>1, AllocationAssumption DEF Init, RowTypes, Amount
  <1>3. \A w \in Worker : req[w] = Ready
    BY DEF Init
  <1>4. AllocationTypes
    BY <1>2, <1>3, ReadyForm DEF Init, AllocationTypes, LedgerTypes, RequestForms, Amount
  <1>5. KnownKeys /\ CleanInv /\ Alone /\ SettledInv
    BY <1>3, ReadyForm DEF Init, KnownKeys, CleanInv, Alone, SettledInv
  <1> QED BY <1>4, <1>5 DEF LedgerInv

\* A ceiling whose write-through met no failure, no other change of the key and no
\* spending stands in the ledger, and the key is flagged once it is used up or the push
\* of its flag is on the way, until a push fails or a revision lifts the flag on an
\* outdated reading - for any applications, keys, amounts, requests and revisions.
THEOREM LedgerFollowsAlways == Spec => []LedgerFollows
  <1>1. Init => LedgerInv
    BY LedgerInit
  <1>2. LedgerInv /\ [Next]_vars => LedgerInv'
    BY LedgerStep
  <1>3. LedgerInv => LedgerFollows
    BY DEF LedgerInv, SettledInv, LedgerFollows
  <1> QED BY <1>1, <1>2, <1>3, PTL DEF Spec

-----------------------------------------------------------------------------
(* Allocations: rounding                                                    *)

\* What a quotient leaves.
LEMMA DivBounds ==
    ASSUME NEW x \in Nat, NEW d \in Nat \ {0}
    PROVE  x \div d \in Nat /\ (x \div d) * d <= x /\ x < (x \div d) * d + d
  OBVIOUS

\* Rounding half up is off by half a unit at most.
LEMMA HalfUpBounds ==
    ASSUME NEW x \in Nat, NEW d \in Nat \ {0}
    PROVE  /\ HalfUp(x, d) \in Nat
           /\ 2 * (HalfUp(x, d) * d) <= 2 * x + d /\ 2 * x < 2 * (HalfUp(x, d) * d) + d
  <1> DEFINE q == HalfUp(x, d)
  <1>1. 2 * x + d \in Nat /\ 2 * d \in Nat \ {0}
    OBVIOUS
  <1>2. q \in Nat /\ q * (2 * d) <= 2 * x + d /\ 2 * x + d < q * (2 * d) + 2 * d
    BY <1>1, DivBounds DEF HalfUp
  <1> HIDE DEF q
  <1>3. q * (2 * d) = 2 * (q * d) /\ q * d \in Nat
    BY <1>2
  <1> QED BY <1>2, <1>3 DEF q

LEMMA HalfEvenBounds ==
    ASSUME NEW x \in Nat
    PROVE  /\ HalfEven(x, Hundred) \in Nat
           /\ HalfEven(x, Hundred) * Hundred <= x + Hundred /\ x <= HalfEven(x, Hundred) * Hundred + Hundred
  BY DEF HalfEven, Hundred

\* A percentage is near its amount.
LEMMA ConvertNear ==
    ASSUME NEW input \in AppInputs \cup KeyInputs, NEW parent \in Nat, NEW n \in Nat
    PROVE  /\ Convert(input, parent).amount \in Nat /\ Convert(input, parent).pct \in Nat
           /\ parent > 0 /\ n > 0 => Near(Convert(input, parent).pct, Convert(input, parent).amount, parent, n)
  <1>1. input.value \in Nat /\ parent * input.value \in Nat /\ input.value * Hundred \in Nat /\ Hundred \in Nat \ {0}
    BY AllocationAssumption, ProductIsNat DEF Hundred
  <1> DEFINE v == input.value
  <1>2. CASE input.type = "FIXED"
    <2> DEFINE p == HalfUp(v * Hundred, parent)
    <2>1. parent > 0 => /\ p \in Nat /\ 2 * (p * parent) <= 2 * (v * Hundred) + parent
                        /\ 2 * (v * Hundred) < 2 * (p * parent) + parent
      <3>1. ASSUME NEW x \in Nat, parent > 0
            PROVE  /\ HalfUp(x, parent) \in Nat /\ 2 * (HalfUp(x, parent) * parent) <= 2 * x + parent
                   /\ 2 * x < 2 * (HalfUp(x, parent) * parent) + parent
        BY <3>1, HalfUpBounds
      <3> QED BY <1>1, <3>1
    <2>2. /\ Convert(input, parent).amount = v
          /\ Convert(input, parent).pct = IF parent = 0 THEN 0 ELSE p
      BY <1>2 DEF Convert
    <2> HIDE DEF p, v
    <2>3. parent > 0 /\ n > 0 => n * parent \in Nat /\ parent <= n * parent
      OBVIOUS
    <2>4. parent > 0 /\ n > 0 => /\ p * parent <= v * Hundred + n * parent + Hundred
                      /\ v * Hundred <= p * parent + parent + Hundred
      <3>1. parent > 0 => p * parent \in Nat
        BY <2>1, ProductIsNat
      <3> QED BY <1>1, <2>1, <2>3, <3>1 DEF v, Hundred
    <2> QED BY <1>1, <2>1, <2>2, <2>4 DEF v, Near
  <1>3. CASE input.type # "FIXED"
    <2> DEFINE m == HalfUp(parent * v, Hundred)
    <2>1. m \in Nat /\ 2 * (m * Hundred) <= 2 * (parent * v) + Hundred /\ 2 * (parent * v) < 2 * (m * Hundred) + Hundred
      BY <1>1, HalfUpBounds
    <2>2. Convert(input, parent).amount = m /\ Convert(input, parent).pct = v
      BY <1>3 DEF Convert
    <2> HIDE DEF m, v
    <2>3. parent > 0 => v * parent <= m * Hundred + n * parent + Hundred /\ m * Hundred <= v * parent + parent + Hundred
      <3>1. v * parent = parent * v /\ n * parent \in Nat /\ v * parent \in Nat
        BY <1>1 DEF v
      <3> QED BY <2>1, <3>1 DEF Hundred
    <2> QED BY <1>1, <2>1, <2>2, <2>3 DEF v, Near
  <1> QED BY <1>2, <1>3

\* The totals of the rules are the sums of FiniteSums.
LEMMA TotalIsSum == ASSUME NEW f, NEW S PROVE Total(f, S) = SumOver(f, S)
  BY DEF Total, SumOver

\* The percentages that follow a new total are near the amounts: the one that takes the
\* residual is off by the roundings of all the others.
LEMMA RecomputeNear ==
    ASSUME NEW parent \in Nat, NEW children, IsFiniteSet(DOMAIN children), NEW last,
           \A c \in DOMAIN children : children[c].amount \in Nat,
           NEW n \in Nat, Cardinality(DOMAIN children) <= n, NEW c \in Funded(children)
    PROVE  /\ Recompute(parent, children, last)[c] \in Nat
           /\ parent > 0 => Near(Recompute(parent, children, last)[c], children[c].amount, parent, n)
  <1> DEFINE F == Funded(children)
             amount == [x \in F |-> children[x].amount]
             target == HalfUp(Total(amount, F) * Hundred, parent)
             down == [x \in F |-> (amount[x] * Hundred) \div parent]
             p == Recompute(parent, children, last)[c]
  <1>1. p = IF parent = 0 THEN 0 ELSE IF c = last THEN target - Total(down, F \ {c}) ELSE down[c]
    <2>1. c \in DOMAIN children /\ c \in F
      BY DEF Funded
    <2> QED BY <2>1 DEF Recompute
  <1>2. Numbers(amount, F) /\ IsFiniteSet(F) /\ amount[c] = children[c].amount /\ amount[c] \in Nat /\ c \in F
    <2>1. F \in SUBSET DOMAIN children
      BY DEF Funded
    <2> QED BY <2>1, FS_Subset DEF Numbers
  <1>3. Cardinality(F) \in Nat /\ Cardinality(F) <= n /\ Cardinality(F \ {c}) = Cardinality(F) - 1 /\ IsFiniteSet(F \ {c})
    <2>1. F \in SUBSET DOMAIN children
      BY DEF Funded
    <2>2. Cardinality(F) <= Cardinality(DOMAIN children) /\ Cardinality(F) \in Nat /\ Cardinality(DOMAIN children) \in Nat
      BY <1>2, <2>1, FS_Subset, FS_CardinalityType
    <2>3. Cardinality(F \ {c}) = Cardinality(F) - 1 /\ IsFiniteSet(F \ {c})
      BY <1>2, FS_RemoveElement
    <2> HIDE DEF F
    <2> QED BY <2>2, <2>3
  <1>4. CASE parent = 0
    BY <1>1, <1>4
  <1>5. CASE parent > 0
    <2>0. parent \in Nat \ {0} /\ Hundred \in Nat \ {0} /\ parent # 0
      BY <1>5 DEF Hundred
    <2>1. ASSUME NEW x \in F
          PROVE  /\ down[x] \in Nat /\ amount[x] * Hundred \in Nat /\ down[x] * parent \in Nat
                 /\ down[x] * parent <= amount[x] * Hundred /\ amount[x] * Hundred < down[x] * parent + parent
      <3>1. amount[x] * Hundred \in Nat
        BY <1>2, <2>0, ProductIsNat DEF Numbers
      <3>2. down[x] = (amount[x] * Hundred) \div parent
        OBVIOUS
      <3> DEFINE y == amount[x] * Hundred
      <3> HIDE DEF y, down
      <3>3. y \in Nat /\ down[x] = y \div parent
        BY <3>1, <3>2 DEF y
      <3>4. down[x] \in Nat /\ down[x] * parent <= y /\ y < down[x] * parent + parent
        BY <2>0, <3>3, DivBounds
      <3>5. down[x] * parent \in Nat
        BY <3>4, ProductIsNat
      <3> QED BY <3>1, <3>4, <3>5 DEF y
    <2> HIDE DEF down
    <2>2. n * parent \in Nat
      BY ProductIsNat
    <2>3. CASE c # last
      <3>1. p = down[c]
        BY <1>1, <1>5, <2>3
      <3> HIDE DEF p, amount
      <3>2. p * parent <= amount[c] * Hundred + n * parent + Hundred
        BY <1>2, <2>0, <2>1, <2>2, <3>1
      <3>3. amount[c] * Hundred <= p * parent + parent + Hundred
        BY <1>2, <2>0, <2>1, <3>1
      <3>4. p \in Nat
        BY <1>2, <2>1, <3>1
      <3> QED BY <1>2, <2>0, <3>2, <3>3, <3>4 DEF Near, p
    <2>4. CASE c = last
      <3> DEFINE R == F \ {c}
                 S == SumOver(amount, F)
                 T == SumOver(amount, R)
                 D == SumOver(down, R)
                 m == amount[c]
                 a == [x \in R |-> amount[x] * Hundred]
                 b == [x \in R |-> down[x] * parent]
      <3>1. p = target - D /\ target = HalfUp(S * Hundred, parent)
        BY <1>1, <1>5, <2>4, TotalIsSum
      <3>2. S = m + T /\ T \in Nat /\ S \in Nat /\ Numbers(amount, R)
        <4> HIDE DEF amount
        <4>1. T \in Nat /\ S = amount[c] + T /\ Numbers(amount, R)
          BY <1>2, SumRemove
        <4> QED BY <1>2, <4>1
      <3>3. SumOver(a, R) = T * Hundred /\ Numbers(a, R)
        <4> HIDE DEF amount
        <4>1. \A x \in R : a[x] = amount[x] * Hundred
          OBVIOUS
        <4> HIDE DEF a, R
        <4> QED BY <1>3, <2>0, <3>2, <4>1, SumScale DEF R
      <3>4. Numbers(down, R) /\ D \in Nat
        <4>1. Numbers(down, R)
          BY <2>1 DEF Numbers
        <4> QED BY <1>3, <4>1, SumNat
      <3>5. SumOver(b, R) = D * parent /\ Numbers(b, R)
        <4>1. \A x \in R : b[x] = down[x] * parent
          OBVIOUS
        <4> HIDE DEF b, R
        <4> QED BY <1>3, <3>4, <4>1, SumScale DEF R
      <3>6. D * parent <= T * Hundred
        <4>1. \A x \in R : b[x] <= a[x]
          BY <2>1
        <4> HIDE DEF a, b
        <4> QED BY <1>3, <3>3, <3>5, <4>1, SumBelow
      <3>7. T * Hundred <= D * parent + parent * Cardinality(R)
        <4>1. \A x \in R : a[x] <= b[x] + parent
          <5>1. ASSUME NEW x \in R PROVE a[x] <= b[x] + parent
            <6>1. a[x] = amount[x] * Hundred /\ b[x] = down[x] * parent /\ x \in F
              OBVIOUS
            <6> HIDE DEF a, b, amount
            <6> QED BY <2>0, <2>1, <6>1
          <5> QED BY <5>1
        <4> HIDE DEF a, b
        <4> QED BY <1>3, <3>3, <3>5, <4>1, SumWithin
      <3>8. /\ target \in Nat /\ 2 * (target * parent) <= 2 * (S * Hundred) + parent
            /\ 2 * (S * Hundred) < 2 * (target * parent) + parent
        <4>1. S * Hundred \in Nat
          BY <2>0, <3>2, ProductIsNat
        <4> DEFINE y == S * Hundred
        <4> HIDE DEF y, S, target
        <4>2. y \in Nat /\ target = HalfUp(y, parent)
          BY <3>1, <4>1 DEF y
        <4>3. target \in Nat /\ 2 * (target * parent) <= 2 * y + parent /\ 2 * y < 2 * (target * parent) + parent
          BY <2>0, <4>2, HalfUpBounds
        <4> QED BY <4>3 DEF y
      <3>9. m \in Nat /\ Cardinality(R) + 1 <= n /\ Cardinality(R) \in Nat
        <4>1. IsFiniteSet(R) /\ Cardinality(R) \in Nat
          BY <1>3, FS_CardinalityType
        <4> QED BY <1>2, <1>3, <4>1
      <3> DEFINE card == Cardinality(R)
      <3> HIDE DEF p, R, S, T, D, m, a, b, target, card
      <3>10. S * Hundred = m * Hundred + T * Hundred
        BY <3>2, <3>9 DEF Hundred
      <3>11. p \in Int /\ p * parent = target * parent - D * parent
        BY <3>1, <3>4, <3>8
      <3>12. parent * card + parent <= n * parent
        <4>1. ASSUME NEW i \in Nat, NEW j \in Nat, i + 1 <= j PROVE parent * i + parent <= j * parent
          BY <4>1
        <4> QED BY <3>9, <4>1 DEF card
      <3>13. target * parent \in Nat /\ D * parent \in Nat /\ parent * card \in Nat /\ T * Hundred \in Nat
             /\ m * Hundred \in Nat /\ p * parent \in Int
        BY <2>0, <3>2, <3>4, <3>8, <3>9, <3>11, ProductIsNat DEF card
      <3> DEFINE tp == target * parent
                 dp == D * parent
                 pc == parent * card
                 th == T * Hundred
                 mh == m * Hundred
                 pp == p * parent
                 np == n * parent
      <3>14. /\ 2 * tp <= 2 * (mh + th) + parent /\ 2 * (mh + th) < 2 * tp + parent /\ pp = tp - dp
             /\ dp <= th /\ th <= dp + pc /\ pc + parent <= np
             /\ tp \in Nat /\ dp \in Nat /\ pc \in Nat /\ th \in Nat /\ mh \in Nat /\ pp \in Int /\ np \in Nat
        BY <2>2, <3>6, <3>7, <3>8, <3>10, <3>11, <3>12, <3>13 DEF card
      <3> HIDE DEF tp, dp, pc, th, mh, pp, np
      <3>15. pp <= mh + np + Hundred /\ mh <= pp + parent + Hundred /\ 0 < pp + parent
        BY <2>0, <3>14
      <3>16. p \in Nat
        <4>1. 0 < p * parent + parent
          BY <3>15 DEF pp
        <4> QED BY <2>0, <3>11, <4>1
      <3> QED BY <1>2, <2>0, <3>15, <3>16 DEF Near, p, pp, mh, m, np
    <2> QED BY <2>3, <2>4
  <1> QED BY <1>4, <1>5

\* When resolve_level accepts, the children it resolves exceed the parent by a paisa each
\* at most.
LEMMA ResolveFits ==
    ASSUME NEW parent \in Nat, NEW children, NEW request, IsFiniteSet(DOMAIN children),
           \A c \in DOMAIN request : request[c] \in AppInputs \cup KeyInputs,
           \A c \in DOMAIN children : children[c].amount \in Nat,
           ResolveCode(parent, children, request) = "ok",
           NEW f, \A c \in DOMAIN children : f[c] = Resolved(parent, children, request)[c].amount
    PROVE  /\ DOMAIN request \subseteq DOMAIN children
           /\ SumOver(f, DOMAIN children) <= parent + Cardinality(DOMAIN children)
  <1> DEFINE listed == DOMAIN request
             kids == DOMAIN children
             asked == [c \in listed |-> Convert(request[c], parent).amount]
             unlisted == [c \in kids \ listed |-> children[c].amount]
             x == Total(asked, listed)
             y == Total(unlisted, kids \ listed)
  <1>1. listed \subseteq kids /\ ~(x + y > parent + Cardinality(kids))
    BY Zenon DEF ResolveCode
  <1>2. \A c \in kids : f[c] = IF c \in listed THEN asked[c] ELSE unlisted[c]
    <2>1. ASSUME NEW c \in kids PROVE f[c] = IF c \in listed THEN asked[c] ELSE unlisted[c]
      <3>1. CASE c \in listed /\ asked[c] # children[c].amount
        BY <3>1 DEF Resolved
      <3>2. CASE c \in listed /\ asked[c] = children[c].amount
        <4>1. Resolved(parent, children, request)[c] = [amount |-> children[c].amount, pct |-> children[c].pct]
          BY <3>2 DEF Resolved
        <4> QED BY <3>2, <4>1
      <3>3. CASE c \notin listed
        <4>1. Resolved(parent, children, request)[c] = [amount |-> children[c].amount, pct |-> children[c].pct]
          BY <3>3 DEF Resolved
        <4> QED BY <3>3, <4>1
      <3> QED BY <3>1, <3>2, <3>3
    <2> QED BY <2>1
  <1>3. (\A c \in listed : asked[c] \in Nat) /\ \A c \in kids \ listed : unlisted[c] \in Nat
    BY ConvertAmount
  <1> HIDE DEF asked, unlisted, listed, kids
  <1>4. Numbers(f, kids)
    BY <1>1, <1>2, <1>3 DEF Numbers
  <1>5. IsFiniteSet(kids) /\ IsFiniteSet(listed) /\ IsFiniteSet(kids \ listed) /\ Cardinality(kids) \in Nat
    BY <1>1, FS_Subset, FS_CardinalityType DEF kids
  <1>6. SumOver(f, kids) = SumOver(f, listed) + SumOver(f, kids \ listed)
    BY <1>1, <1>4, <1>5, SumSplit
  <1>7. SumOver(f, listed) = x /\ x \in Nat
    <2>1. Numbers(asked, listed) /\ \A c \in listed : asked[c] = f[c]
      BY <1>1, <1>2, <1>3 DEF Numbers
    <2> QED BY <1>5, <2>1, SumSame, SumNat, TotalIsSum
  <1>8. SumOver(f, kids \ listed) = y /\ y \in Nat
    <2>1. Numbers(unlisted, kids \ listed) /\ \A c \in kids \ listed : unlisted[c] = f[c]
      BY <1>2, <1>3 DEF Numbers
    <2> QED BY <1>5, <2>1, SumSame, SumNat, TotalIsSum
  <1> HIDE DEF x, y
  <1>9. SumOver(f, kids) <= parent + Cardinality(kids)
    BY <1>1, <1>5, <1>6, <1>7, <1>8
  <1> QED BY <1>1, <1>9 DEF kids, listed

-----------------------------------------------------------------------------
(* Allocations: what fits                                                   *)

PercentTypes == (\A a \in App : app[a].pct \in Int) /\ \A k \in Key : key[k].pct \in Nat

\* What a deactivation released stays so until the application is given a budget again.
InactiveReleased == ~slipped => \A a \in App : app[a].status = "INACTIVE" => app[a].budget = Unset

\* A deactivation zeroes keys of its application.
ZeroesItsOwn ==
    \A w \in Worker :
        /\ req[w].pc \in {"zero", "deactivate"} => req[w].target \in App
        /\ req[w].pc = "deactivate" => \A k \in DOMAIN req[w].writes : Owner[k] = req[w].target

\* Keys belong to an application that exists, and a budget too.
Founded ==
    /\ \A k \in Key : Known(k) => app[Owner[k]].status # "none"
    /\ \A a \in App : app[a].status = "none" => app[a].budget = Unset

AppsGood ==
    ~slipped /\ tenant # Unset =>
        AppsFit /\ \A a \in ActiveApps : OrZero(app[a].budget) > 0 => AppNear(a)

\* A key whose percentage was left behind is still within the paise of a parent without a
\* budget.
KeysGood(a) ==
    ~slipped =>
        /\ KeysOf(a) \cap behind = {} => KeysFit(a)
        /\ \A k \in ActiveKeys(a) :
              key[k].amount > 0 /\ (k \notin behind \/ OrZero(app[a].budget) = 0) => KeyNear(k)

RowsGood ==
    PercentTypes /\ InactiveReleased /\ Founded /\ AppsGood /\ \A a \in App : KeysGood(a)

FitInv == LedgerInv /\ ZeroesItsOwn /\ RowsGood

\* The properties, from the invariant.
LEMMA FitHolds == ASSUME FitInv PROVE ChildrenWithinParent /\ PercentFollowsAmount
  <1>1. ChildrenWithinParent
    BY DEF FitInv, RowsGood, AppsGood, KeysGood, ChildrenWithinParent, AppsFit
  <1>2. PercentFollowsAmount
    <2>1. \A k \in Key : key[k].state = "active" => Owner[k] \in App /\ k \in ActiveKeys(Owner[k])
      BY AllocationAssumption DEF ActiveKeys, KeysOf
    <2> QED BY <2>1 DEF FitInv, RowsGood, AppsGood, KeysGood, PercentFollowsAmount
  <1> QED BY <1>1, <1>2

\* Parts of a finite set are counted.
LEMMA PartCount ==
    ASSUME NEW S, IsFiniteSet(S), NEW T \in SUBSET S, NEW U \in SUBSET T
    PROVE  /\ IsFiniteSet(T) /\ IsFiniteSet(U) /\ Cardinality(T) \in Nat /\ Cardinality(U) \in Nat
           /\ Cardinality(U) <= Cardinality(T) /\ \A x \in T : Cardinality(T) > 0
  <1>1. IsFiniteSet(T)
    BY FS_Subset
  <1>2. IsFiniteSet(U) /\ Cardinality(T) \in Nat /\ Cardinality(U) \in Nat /\ Cardinality(U) <= Cardinality(T)
    BY <1>1, FS_Subset, FS_CardinalityType
  <1>3. ASSUME NEW x \in T PROVE Cardinality(T) > 0
    BY <1>1, <1>2, FS_EmptySet
  <1> QED BY <1>1, <1>2, <1>3

\* How many keys and applications there are, before and after a step.
LEMMA KeyCount ==
    ASSUME NEW a
    PROVE  /\ IsFiniteSet(KeysOf(a)) /\ ActiveKeys(a) \in SUBSET KeysOf(a) /\ KeysOf(a) \in SUBSET Key
           /\ IsFiniteSet(ActiveKeys(a)) /\ Cardinality(KeysOf(a)) \in Nat
           /\ Cardinality(ActiveKeys(a)) \in Nat /\ Cardinality(ActiveKeys(a)) <= Cardinality(KeysOf(a))
           /\ \A k \in KeysOf(a) : Cardinality(KeysOf(a)) > 0
  <1>1. ActiveKeys(a) \in SUBSET KeysOf(a) /\ KeysOf(a) \in SUBSET Key
    BY DEF ActiveKeys, KeysOf
  <1> QED BY <1>1, AllocationAssumption, PartCount

LEMMA KeyCountNext ==
    ASSUME NEW a
    PROVE  /\ IsFiniteSet(KeysOf(a)') /\ ActiveKeys(a)' \in SUBSET KeysOf(a)' /\ KeysOf(a)' \in SUBSET Key
           /\ IsFiniteSet(ActiveKeys(a)') /\ Cardinality(KeysOf(a)') \in Nat
           /\ Cardinality(ActiveKeys(a)') \in Nat /\ Cardinality(ActiveKeys(a)') <= Cardinality(KeysOf(a)')
           /\ \A k \in KeysOf(a)' : Cardinality(KeysOf(a)') > 0
  <1>1. ActiveKeys(a)' \in SUBSET KeysOf(a)' /\ KeysOf(a)' \in SUBSET Key
    BY DEF ActiveKeys, KeysOf
  <1> QED BY <1>1, AllocationAssumption, PartCount

LEMMA AppCount ==
    /\ IsFiniteSet(CreatedApps) /\ ActiveApps \in SUBSET CreatedApps
    /\ IsFiniteSet(ActiveApps) /\ Cardinality(CreatedApps) \in Nat
    /\ Cardinality(ActiveApps) \in Nat /\ Cardinality(ActiveApps) <= Cardinality(CreatedApps)
    /\ \A a \in CreatedApps : Cardinality(CreatedApps) > 0
  <1>1. ActiveApps \in SUBSET CreatedApps /\ CreatedApps \in SUBSET App
    BY DEF ActiveApps, CreatedApps
  <1> QED BY <1>1, AllocationAssumption, PartCount

LEMMA AppCountNext ==
    /\ IsFiniteSet(CreatedApps') /\ ActiveApps' \in SUBSET CreatedApps'
    /\ IsFiniteSet(ActiveApps') /\ Cardinality(CreatedApps') \in Nat
    /\ Cardinality(ActiveApps') \in Nat /\ Cardinality(ActiveApps') <= Cardinality(CreatedApps')
    /\ \A a \in CreatedApps' : Cardinality(CreatedApps') > 0
  <1>1. ActiveApps' \in SUBSET CreatedApps' /\ CreatedApps' \in SUBSET App
    BY DEF ActiveApps, CreatedApps
  <1> QED BY <1>1, AllocationAssumption, PartCount

\* Sums that fit.
LEMMA FitArithmetic ==
    ASSUME NEW s \in Nat, NEW b \in Nat, NEW n \in Nat, s <= b + n
    PROVE  s * Hundred <= (b + n) * Hundred + n * b
  <1>1. n * b \in Nat
    BY ProductIsNat
  <1> QED BY <1>1 DEF Hundred

\* A part of what fits still fits.
LEMMA KeptArithmetic ==
    ASSUME NEW s \in Nat, NEW t \in Nat, NEW limit \in Int, s <= t, t * Hundred <= limit
    PROVE  s * Hundred <= limit
  BY DEF Hundred

\* The keys of an application that a step leaves as they are, or ends.
LEMMA KeysKept ==
    ASSUME RowTypes, RowTypes', NEW a \in App, KeysGood(a), ~slipped' => ~slipped,
           OrZero(app'[a].budget) = OrZero(app[a].budget), KeysOf(a)' = KeysOf(a),
           \A k \in ActiveKeys(a)' : /\ k \in ActiveKeys(a)
                                     /\ key'[k].amount = key[k].amount /\ key'[k].pct = key[k].pct,
           \A k \in KeysOf(a) : k \in behind => k \in behind'
    PROVE  KeysGood(a)'
  <1>1. SUFFICES ASSUME ~slipped'
                 PROVE  /\ KeysOf(a)' \cap behind' = {} => KeysFit(a)'
                        /\ \A k \in ActiveKeys(a)' :
                              key'[k].amount > 0 /\ (k \notin behind' \/ OrZero(app'[a].budget) = 0) => KeyNear(k)'
    BY DEF KeysGood
  <1> DEFINE A == ActiveKeys(a)
             f == [k \in A |-> key[k].amount]
             g == [k \in A' |-> key'[k].amount]
             b == OrZero(app[a].budget)
             n == Cardinality(KeysOf(a))
             limit == (b + n) * Hundred + n * b
  <1>2. b \in Nat /\ n \in Nat /\ limit \in Int
    <2>1. b \in Nat /\ n \in Nat
      BY KeyCount DEF RowTypes, AppRow, Amount, OrZero
    <2> HIDE DEF b, n
    <2> QED BY <2>1 DEF Hundred
  <1>3. ASSUME KeysOf(a)' \cap behind' = {} PROVE KeysFit(a)'
    <2>1. KeysFit(a)
      BY <1>1, <1>3 DEF KeysGood
    <2>2. SumOver(f, A) * Hundred <= limit
      BY <2>1, TotalIsSum DEF KeysFit
    <2>3. Numbers(f, A) /\ Numbers(g, A') /\ A' \in SUBSET A /\ IsFiniteSet(A) /\ IsFiniteSet(A')
      <3>1. A \in SUBSET Key /\ A' \in SUBSET Key /\ A' \in SUBSET A /\ IsFiniteSet(A) /\ IsFiniteSet(A')
        BY KeyCount, KeyCountNext
      <3> QED BY <3>1 DEF Numbers, RowTypes, KeyRow
    <2>4. \A k \in A' : g[k] = f[k]
      OBVIOUS
    <2> HIDE DEF f, g, A, limit
    <2>5. SumOver(f, A') \in Nat /\ SumOver(f, A') <= SumOver(f, A) /\ SumOver(f, A) \in Nat
      BY <2>3, SumSubset, SumNat
    <2>6. SumOver(g, A') = SumOver(f, A')
      BY <2>3, <2>4, SumSame
    <2>7. SumOver(g, A') * Hundred <= limit
      BY <1>2, <2>2, <2>5, <2>6, KeptArithmetic
    <2>8. Total(g, A') * Hundred <= (OrZero(app'[a].budget) + Cardinality(KeysOf(a)')) * Hundred
                                      + Cardinality(KeysOf(a)') * OrZero(app'[a].budget)
      BY <2>7, TotalIsSum DEF limit
    <2> QED BY <2>8 DEF KeysFit, g, A
  <1>4. ASSUME NEW k \in A', key'[k].amount > 0, k \notin behind' \/ b = 0
        PROVE  KeyNear(k)'
    <2>1. k \in A /\ key'[k].amount = key[k].amount /\ key'[k].pct = key[k].pct /\ Owner[k] = a
          /\ (k \notin behind \/ b = 0)
      BY <1>4, KeyCount DEF ActiveKeys, KeysOf
    <2>2. KeyNear(k)
      BY <1>1, <1>4, <2>1 DEF KeysGood
    <2> QED BY <2>1, <2>2 DEF KeyNear, Near
  <1> QED BY <1>3, <1>4

\* The keys of an application whose total a step has checked.
LEMMA KeysChecked ==
    ASSUME RowTypes', NEW a \in App,
           SumOver([k \in ActiveKeys(a)' |-> key'[k].amount], ActiveKeys(a)')
              <= OrZero(app'[a].budget) + Cardinality(KeysOf(a)'),
           \A k \in ActiveKeys(a)' :
              ~slipped' /\ key'[k].amount > 0 /\ OrZero(app'[a].budget) > 0 /\ k \notin behind' => KeyNear(k)'
    PROVE  KeysGood(a)'
  <1> DEFINE A == ActiveKeys(a)
             g == [k \in A' |-> key'[k].amount]
             b == OrZero(app[a].budget)
             n == Cardinality(KeysOf(a))
  <1>1. b' \in Nat /\ n' \in Nat /\ IsFiniteSet(A') /\ A' \in SUBSET Key
    BY KeyCountNext DEF RowTypes, AppRow, Amount, OrZero
  <1>2. Numbers(g, A')
    BY <1>1 DEF Numbers, RowTypes, KeyRow
  <1>3. SumOver(g, A') \in Nat /\ SumOver(g, A') <= b' + n'
    BY <1>1, <1>2, SumNat
  <1>4. KeysFit(a)'
    <2> HIDE DEF g, A, b, n
    <2>1. SumOver(g, A') * Hundred <= (b' + n') * Hundred + n' * b'
      BY <1>1, <1>3, FitArithmetic
    <2> QED BY <2>1, TotalIsSum DEF KeysFit, g, A, b, n
  <1>5. ASSUME NEW k \in A', key'[k].amount > 0, b' = 0 PROVE KeyNear(k)'
    <2>1. g[k] = key'[k].amount /\ g[k] \in Nat
      BY <1>2 DEF Numbers
    <2>2. g[k] <= SumOver(g, A')
      <3> HIDE DEF g, A
      <3>1. SumOver(g, A') = g[k] + SumOver(g, A' \ {k}) /\ SumOver(g, A' \ {k}) \in Nat
        BY <1>1, <1>2, <1>5, SumRemove
      <3> QED BY <2>1, <3>1
    <2> HIDE DEF g
    <2>3. key'[k].amount <= n' /\ Owner[k] = a
      <3>1. Owner[k] = a
        BY DEF ActiveKeys, KeysOf
      <3> HIDE DEF b, n, A
      <3>2. key'[k].amount <= n'
        BY <1>1, <1>3, <1>5, <2>1, <2>2
      <3> QED BY <3>1, <3>2
    <2> QED BY <1>5, <2>3 DEF KeyNear, Near
  <1>6. ASSUME ~slipped', NEW k \in A', key'[k].amount > 0, k \notin behind' \/ b' = 0 PROVE KeyNear(k)'
    <2>1. b' = 0 \/ b' > 0
      BY <1>1
    <2> QED BY <1>5, <1>6, <2>1
  <1> QED BY <1>4, <1>6 DEF KeysGood

\* Nothing adds up to nothing.
LEMMA SumZero ==
    ASSUME NEW S, IsFiniteSet(S), NEW f, \A x \in S : f[x] = 0
    PROVE  SumOver(f, S) = 0
  <1>1. Numbers(f, S) /\ \A x \in S : f[x] = f[x] * 0
    BY DEF Numbers
  <1>2. SumOver(f, S) = SumOver(f, S) * 0 /\ SumOver(f, S) \in Nat
    BY <1>1, SumScale, SumNat
  <1> QED BY <1>2

\* More siblings leave a percentage near.
LEMMA NearGrows ==
    ASSUME NEW pct \in Int, NEW amount \in Nat, NEW parent \in Nat, NEW n \in Nat, NEW m \in Nat,
           n <= m, Near(pct, amount, parent, n)
    PROVE  Near(pct, amount, parent, m)
  <1>1. CASE parent = 0
    BY <1>1 DEF Near
  <1>2. CASE parent # 0
    <2>1. n * parent \in Nat /\ m * parent \in Nat /\ n * parent <= m * parent /\ pct * parent \in Int
      OBVIOUS
    <2> DEFINE np == n * parent
               mp == m * parent
               pp == pct * parent
    <2>2. pp <= amount * Hundred + np + Hundred /\ amount * Hundred <= pp + parent + Hundred
      BY <1>2 DEF Near
    <2> HIDE DEF np, mp, pp
    <2>3. pp <= amount * Hundred + mp + Hundred
      BY <2>1, <2>2 DEF np, mp, pp, Hundred
    <2> QED BY <1>2, <2>2, <2>3 DEF Near, mp, pp
  <1> QED BY <1>1, <1>2

\* The applications that a step leaves as they are, and new ones without a budget.
LEMMA AppsKept ==
    ASSUME RowTypes, RowTypes', PercentTypes, AppsGood, ~slipped' => ~slipped, tenant' = tenant,
           CreatedApps \subseteq CreatedApps',
           ~slipped' => \A a \in ActiveApps' :
               IF a \in ActiveApps THEN app'[a].budget = app[a].budget /\ app'[a].pct = app[a].pct
               ELSE OrZero(app'[a].budget) = 0
    PROVE  AppsGood'
  <1>1. SUFFICES ASSUME ~slipped', tenant # Unset
                 PROVE  AppsFit' /\ \A a \in ActiveApps' : OrZero(app'[a].budget) > 0 => AppNear(a)'
    BY DEF AppsGood
  <1> DEFINE A == ActiveApps
             f == [a \in A |-> OrZero(app[a].budget)]
             g == [a \in A' |-> OrZero(app'[a].budget)]
             n == Cardinality(CreatedApps)
             B == A \cap A'
  <1>2. A \in SUBSET App /\ A' \in SUBSET App /\ IsFiniteSet(A) /\ IsFiniteSet(A') /\ n \in Nat /\ n' \in Nat /\ n <= n'
    <2>1. A \in SUBSET App /\ A' \in SUBSET App
      BY DEF ActiveApps
    <2>2. IsFiniteSet(A) /\ IsFiniteSet(A') /\ n \in Nat /\ n' \in Nat /\ n <= n'
      BY AppCount, AppCountNext, FS_Subset
    <2> QED BY <2>1, <2>2
  <1>3. tenant \in Nat
    BY <1>1 DEF RowTypes, Amount
  <1>4. AppsFit'
    <2>1. SumOver(f, A) <= tenant + n
      BY <1>1, TotalIsSum DEF AppsGood, AppsFit
    <2>2. Numbers(f, A) /\ Numbers(g, A')
      <3>1. \A a \in App : OrZero(app[a].budget) \in Nat /\ OrZero(app'[a].budget) \in Nat
        BY DEF RowTypes, AppRow, Amount, OrZero
      <3> QED BY <1>2, <3>1 DEF Numbers
    <2>3. (\A a \in B : g[a] = f[a]) /\ \A a \in A' \ B : g[a] = 0
      BY <1>1
    <2> HIDE DEF f, g, A, n
    <2>4. SumOver(f, B) <= SumOver(f, A) /\ SumOver(f, B) \in Nat /\ IsFiniteSet(B) /\ SumOver(f, A) \in Nat
      <3>1. B \in SUBSET A
        OBVIOUS
      <3> HIDE DEF B
      <3> QED BY <1>2, <2>2, <3>1, SumSubset, SumNat, FS_Subset
    <2>5. SumOver(g, A') = SumOver(g, B) + SumOver(g, A' \ B)
      <3>1. B \in SUBSET A'
        OBVIOUS
      <3> HIDE DEF B
      <3> QED BY <1>2, <2>2, <3>1, SumSplit
    <2>6. SumOver(g, A' \ B) = 0
      <3>1. IsFiniteSet(A' \ B)
        BY <1>2, FS_Subset
      <3> HIDE DEF B
      <3> QED BY <2>3, <3>1, SumZero
    <2>7. SumOver(g, B) = SumOver(f, B)
      <3>1. Numbers(f, B)
        BY <2>2 DEF Numbers
      <3> HIDE DEF B
      <3> QED BY <2>3, <2>4, <3>1, SumSame
    <2> HIDE DEF B
    <2>8. SumOver(g, A') <= tenant' + n'
      BY <1>2, <1>3, <2>1, <2>4, <2>5, <2>6, <2>7
    <2> QED BY <2>8, TotalIsSum DEF AppsFit, g, A, n
  <1>5. ASSUME NEW a \in A', OrZero(app'[a].budget) > 0 PROVE AppNear(a)'
    <2>1. a \in A /\ app'[a].budget = app[a].budget /\ app'[a].pct = app[a].pct
      BY <1>1, <1>5
    <2>2. AppNear(a) /\ app[a].budget \in Nat /\ app[a].pct \in Int
      <3>1. AppNear(a)
        BY <1>1, <1>5, <2>1 DEF AppsGood
      <3>2. app[a].budget \in Amount /\ app[a].budget # Unset /\ app[a].pct \in Int
        BY <1>2, <1>5, <2>1 DEF RowTypes, AppRow, PercentTypes, OrZero
      <3> QED BY <3>1, <3>2 DEF Amount
    <2> HIDE DEF n
    <2>3. Near(app[a].pct, app[a].budget, tenant, n')
      BY <1>2, <1>3, <2>2, NearGrows DEF AppNear, n
    <2> QED BY <2>1, <2>3 DEF AppNear, n
  <1> QED BY <1>4, <1>5

\* The applications whose total a step has checked.
LEMMA AppsChecked ==
    ASSUME RowTypes', tenant' # Unset,
           SumOver([a \in ActiveApps' |-> OrZero(app'[a].budget)], ActiveApps')
              <= tenant' + Cardinality(CreatedApps'),
           \A a \in ActiveApps' : ~slipped' /\ OrZero(app'[a].budget) > 0 /\ tenant' > 0 => AppNear(a)'
    PROVE  AppsGood'
  <1> DEFINE A == ActiveApps
             g == [a \in A' |-> OrZero(app'[a].budget)]
             n == Cardinality(CreatedApps)
  <1>1. A' \in SUBSET App /\ IsFiniteSet(A') /\ n' \in Nat /\ tenant' \in Nat
    <2>1. A' \in SUBSET App /\ tenant' \in Nat
      BY DEF ActiveApps, RowTypes, Amount
    <2> QED BY <2>1, AppCountNext
  <1>2. Numbers(g, A')
    <2>1. \A a \in App : OrZero(app'[a].budget) \in Nat
      BY DEF RowTypes, AppRow, Amount, OrZero
    <2> QED BY <1>1, <2>1 DEF Numbers
  <1>3. AppsFit'
    <2>1. SumOver(g, A') <= tenant' + n'
      OBVIOUS
    <2> QED BY <2>1, TotalIsSum DEF AppsFit
  <1>4. ASSUME NEW a \in A', OrZero(app'[a].budget) > 0, tenant' = 0 PROVE AppNear(a)'
    <2>1. g[a] = OrZero(app'[a].budget) /\ g[a] \in Nat /\ OrZero(app'[a].budget) = app'[a].budget
      BY <1>2, <1>4 DEF Numbers, OrZero
    <2> HIDE DEF g, n, A
    <2>2. SumOver(g, A') = g[a] + SumOver(g, A' \ {a}) /\ SumOver(g, A' \ {a}) \in Nat
      BY <1>1, <1>2, <1>4, SumRemove
    <2>3. SumOver(g, A') <= 0 + n'
      BY <1>4 DEF g, A, n
    <2>4. app'[a].budget <= n'
      BY <1>1, <2>1, <2>2, <2>3
    <2> QED BY <1>4, <2>4 DEF AppNear, Near, n
  <1>5. ASSUME ~slipped', NEW a \in A', OrZero(app'[a].budget) > 0 PROVE AppNear(a)'
    <2>1. tenant' = 0 \/ tenant' > 0
      BY <1>1
    <2> QED BY <1>4, <1>5, <2>1
  <1> QED BY <1>3, <1>5 DEF AppsGood

\* An application whose keys no step touches, and whose budget stays.
LEMMA KeysUntouched ==
    ASSUME RowTypes, RowTypes', NEW a \in App, KeysGood(a), UNCHANGED <<key, behind, slipped>>,
           OrZero(app'[a].budget) = OrZero(app[a].budget)
    PROVE  KeysGood(a)'
  <1>1. KeysOf(a)' = KeysOf(a) /\ ActiveKeys(a)' = ActiveKeys(a)
    BY DEF KeysOf, ActiveKeys
  <1> QED BY <1>1, KeysKept

-----------------------------------------------------------------------------
(* Allocations: what fits, step by step                                     *)

\* Steps of the ledger and of requests that are not yet committed.
LEMMA LedgerOnly ==
    ASSUME RowTypes, RowTypes', RowsGood, UNCHANGED <<tenant, app, key, slipped, behind>>
    PROVE  RowsGood'
  <1>1. PercentTypes' /\ InactiveReleased' /\ Founded'
    BY DEF RowsGood, PercentTypes, InactiveReleased, Founded, Known
  <1>2. AppsGood'
    <2>1. ActiveApps' = ActiveApps /\ CreatedApps' = CreatedApps
      BY DEF ActiveApps, CreatedApps
    <2> QED BY <2>1, AppsKept DEF RowsGood
  <1>3. \A a \in App : KeysGood(a)'
    BY KeysUntouched DEF RowsGood
  <1> QED BY <1>1, <1>2, <1>3 DEF RowsGood

\* create_application
LEMMA CreateApplicationFits ==
    ASSUME RowTypes, RowTypes', RowsGood, NEW w \in Worker, NEW a \in App, NEW pct \in Shares \cup {Unset},
           CreateApplication(w, a, pct)
    PROVE  RowsGood'
  <1> DEFINE budget == IF pct = Unset \/ tenant = Unset THEN Unset ELSE HalfEven(tenant * pct, Hundred)
             new == [status |-> "ACTIVE", pct |-> pct, budget |-> budget]
  <1>1. /\ app[a] = NoApp /\ app' = [app EXCEPT ![a] = new] /\ (pct # Unset => WithinCap(pct))
        /\ UNCHANGED <<tenant, key, behind, slipped>>
    BY Zenon DEF CreateApplication, history
  <1>2. new.status = "ACTIVE" /\ new.pct = pct /\ new.budget = budget
    OBVIOUS
  <1> HIDE DEF new, budget
  <1>3. app'[a] = new /\ \A b \in App \ {a} : app'[b] = app[b]
    BY <1>1 DEF RowTypes
  <1>4. app[a].status = "none" /\ app[a].budget = Unset
    BY <1>1 DEF NoApp
  <1>5. pct \in Int
    BY AllocationAssumption DEF Unset
  <1>6. PercentTypes' /\ InactiveReleased' /\ Founded'
    <2>1. PercentTypes'
      BY <1>1, <1>2, <1>3, <1>5 DEF RowsGood, PercentTypes
    <2>2. InactiveReleased'
      BY <1>1, <1>2, <1>3 DEF RowsGood, InactiveReleased
    <2>3. Founded'
      BY <1>1, <1>2, <1>3, AllocationAssumption DEF RowsGood, Founded, Known
    <2> QED BY <2>1, <2>2, <2>3
  <1>7. ActiveApps' = ActiveApps \cup {a} /\ a \notin ActiveApps /\ CreatedApps' = CreatedApps \cup {a}
    BY <1>2, <1>3, <1>4 DEF ActiveApps, CreatedApps
  <1>8. AppsGood'
    <2>1. CASE budget = Unset
      <3>1. \A b \in ActiveApps' : IF b \in ActiveApps THEN app'[b].budget = app[b].budget /\ app'[b].pct = app[b].pct
                                   ELSE OrZero(app'[b].budget) = 0
        <4>1. \A b \in ActiveApps : b \in App
          BY DEF ActiveApps
        <4> QED BY <1>2, <1>3, <1>7, <2>1, <4>1 DEF OrZero
      <3>2. CreatedApps \subseteq CreatedApps'
        BY <1>7
      <3> QED BY <1>1, <3>1, <3>2, AppsKept DEF RowsGood
    <2>2. CASE budget # Unset
      <3>1. pct # Unset /\ tenant # Unset /\ budget = HalfEven(tenant * pct, Hundred) /\ WithinCap(pct)
        BY <1>1, <2>2 DEF budget
      <3>2. pct \in Nat /\ tenant \in Nat /\ tenant * pct \in Nat
        <4>1. pct \in Nat /\ tenant \in Nat
          BY <3>1, AllocationAssumption DEF RowTypes, Amount
        <4> QED BY <4>1, ProductIsNat
      <3>3. /\ budget \in Nat /\ budget * Hundred <= tenant * pct + Hundred /\ tenant * pct <= budget * Hundred + Hundred
        <4> DEFINE x == tenant * pct
        <4> HIDE DEF x
        <4>1. x \in Nat /\ budget = HalfEven(x, Hundred)
          BY <3>1, <3>2 DEF x
        <4>2. /\ budget \in Nat /\ budget * Hundred <= x + Hundred /\ x <= budget * Hundred + Hundred
          BY <4>1, HalfEvenBounds
        <4> QED BY <4>2 DEF x
      <3> DEFINE A == ActiveApps
                 f == [b \in A |-> OrZero(app[b].budget)]
                 g == [b \in A' |-> OrZero(app'[b].budget)]
      <3>4. SumOver(f, A) + budget <= tenant
        BY <3>1, TotalIsSum DEF WithinCap
      <3>5. /\ g[a] = budget /\ (\A b \in A : g[b] = f[b]) /\ a \in A' /\ A' \ {a} = A
        <4>1. \A b \in A : b \in App \ {a}
          BY <1>7 DEF ActiveApps
        <4>2. OrZero(app'[a].budget) = budget
          BY <1>2, <1>3, <2>2 DEF OrZero
        <4> QED BY <1>3, <1>7, <4>1, <4>2
      <3>6. IsFiniteSet(A') /\ IsFiniteSet(A) /\ Numbers(f, A) /\ Numbers(g, A')
        <4>1. \A b \in App : OrZero(app[b].budget) \in Nat /\ OrZero(app'[b].budget) \in Nat
          BY DEF RowTypes, AppRow, Amount, OrZero
        <4>2. A \in SUBSET App /\ A' \in SUBSET App
          BY DEF ActiveApps
        <4> QED BY <4>1, <4>2, AppCount, AppCountNext DEF Numbers
      <3>7. SumOver(g, A') <= tenant' + Cardinality(CreatedApps')
        <4> HIDE DEF f, g, A
        <4>1. SumOver(g, A') = g[a] + SumOver(g, A)
          BY <3>5, <3>6, SumRemove
        <4>2. SumOver(f, A) = SumOver(g, A) /\ SumOver(f, A) \in Nat
          BY <3>5, <3>6, SumSame, SumNat
        <4>3. Cardinality(CreatedApps') \in Nat
          BY AppCountNext
        <4> QED BY <1>1, <3>2, <3>3, <3>4, <3>5, <4>1, <4>2, <4>3
      <3>8. ASSUME NEW b \in A', ~slipped', OrZero(app'[b].budget) > 0 PROVE AppNear(b)'
        <4> DEFINE n == Cardinality(CreatedApps)
        <4>1. n \in Nat /\ n' \in Nat /\ n <= n' /\ n' > 0
          <5>1. CreatedApps \in SUBSET CreatedApps' /\ a \in CreatedApps'
            BY <1>7
          <5> QED BY <5>1, AppCount, AppCountNext, FS_Subset
        <4>2. CASE b = a
          <5> HIDE DEF n
          <5>1. n' * tenant \in Nat
            BY <3>2, <4>1, ProductIsNat
          <5>2. tenant * pct = pct * tenant
            BY <3>2
          <5> DEFINE nt == n' * tenant
                     x == pct * tenant
          <5>3. budget * Hundred <= x + Hundred /\ x <= budget * Hundred + Hundred /\ x \in Nat /\ nt \in Nat
            BY <3>2, <3>3, <5>1, <5>2
          <5> HIDE DEF nt, x
          <5>4. x <= budget * Hundred + nt + Hundred /\ budget * Hundred <= x + tenant + Hundred
            BY <3>2, <3>3, <5>3 DEF Hundred
          <5>5. tenant = 0 => budget <= n'
            <6>1. tenant = 0 => x = 0
              BY <3>2 DEF x
            <6> QED BY <3>3, <4>1, <5>3, <6>1 DEF Hundred
          <5> QED BY <1>1, <1>2, <1>3, <4>2, <5>4, <5>5 DEF AppNear, Near, nt, x, n
        <4>3. CASE b # a
          <5>1. b \in A /\ b \in App /\ app'[b] = app[b]
            BY <1>3, <1>7, <4>3 DEF ActiveApps
          <5>2. AppNear(b)
            BY <1>1, <3>1, <3>8, <5>1 DEF RowsGood, AppsGood
          <5>3. app[b].pct \in Int /\ app[b].budget \in Nat
            <6>1. app[b].budget # Unset /\ app[b].budget \in Amount
              BY <3>8, <5>1 DEF RowTypes, AppRow, OrZero
            <6> QED BY <5>1, <6>1 DEF RowsGood, PercentTypes, Amount
          <5> HIDE DEF n
          <5>4. Near(app[b].pct, app[b].budget, tenant, n')
            BY <3>2, <4>1, <5>2, <5>3, NearGrows DEF AppNear, n
          <5> QED BY <1>1, <5>1, <5>4 DEF AppNear, n
        <4> QED BY <4>2, <4>3
      <3> QED BY <1>1, <3>1, <3>7, <3>8, AppsChecked
    <2> QED BY <2>1, <2>2
  <1>9. ASSUME NEW b \in App PROVE KeysGood(b)'
    <2>1. CASE b # a
      BY <1>1, <1>3, <2>1, KeysUntouched DEF RowsGood
    <2>2. CASE b = a
      <3>1. KeysOf(a)' = {} /\ ActiveKeys(a)' = {}
        BY <1>1, <1>4 DEF RowsGood, Founded, KeysOf, ActiveKeys, Known
      <3>2. SumOver([k \in ActiveKeys(a)' |-> key'[k].amount], ActiveKeys(a)') = 0
        BY <3>1, SumEmpty
      <3>3. OrZero(app'[a].budget) \in Nat /\ Cardinality(KeysOf(a)') \in Nat
        BY KeyCountNext DEF RowTypes, AppRow, Amount, OrZero
      <3>4. 0 <= OrZero(app'[a].budget) + Cardinality(KeysOf(a)')
        BY <3>3
      <3> QED BY <2>2, <3>1, <3>2, <3>4, KeysChecked
    <2> QED BY <2>1, <2>2
  <1> QED BY <1>6, <1>8, <1>9 DEF RowsGood

\* activate_application: what the deactivation released is not there to count.
LEMMA ActivateFits ==
    ASSUME RowTypes, RowTypes', RowsGood, NEW w \in Worker, NEW a \in App, Activate(w, a)
    PROVE  RowsGood'
  <1>1. /\ app[a].status = "INACTIVE" /\ app' = [app EXCEPT ![a].status = "ACTIVE"]
        /\ UNCHANGED <<tenant, key, behind, slipped>>
    BY Zenon DEF Activate, history
  <1>2. /\ app'[a].status = "ACTIVE" /\ app'[a].budget = app[a].budget /\ app'[a].pct = app[a].pct
        /\ \A b \in App \ {a} : app'[b] = app[b]
    BY <1>1 DEF RowTypes, AppRow
  <1>3. PercentTypes' /\ InactiveReleased' /\ Founded'
    <2>1. PercentTypes'
      BY <1>1, <1>2 DEF RowsGood, PercentTypes
    <2>2. InactiveReleased'
      BY <1>1, <1>2 DEF RowsGood, InactiveReleased
    <2>3. Founded'
      BY <1>1, <1>2, AllocationAssumption DEF RowsGood, Founded, Known
    <2> QED BY <2>1, <2>2, <2>3
  <1>4. AppsGood'
    <2>1. CreatedApps \subseteq CreatedApps'
      BY <1>2 DEF CreatedApps
    <2>2. ASSUME ~slipped', NEW b \in ActiveApps'
          PROVE  IF b \in ActiveApps THEN app'[b].budget = app[b].budget /\ app'[b].pct = app[b].pct
                 ELSE OrZero(app'[b].budget) = 0
      <3>1. CASE b = a
        <4>1. app'[a].budget = Unset
          BY <1>1, <1>2, <2>2 DEF RowsGood, InactiveReleased
        <4> QED BY <1>2, <3>1, <4>1 DEF OrZero
      <3>2. CASE b # a
        BY <1>2, <3>2 DEF ActiveApps
      <3> QED BY <3>1, <3>2
    <2> QED BY <1>1, <2>1, <2>2, AppsKept DEF RowsGood
  <1>5. ASSUME NEW b \in App PROVE KeysGood(b)'
    <2>1. app'[b].budget = app[b].budget
      BY <1>2
    <2> QED BY <1>1, <2>1, KeysUntouched DEF RowsGood
  <1> QED BY <1>3, <1>4, <1>5 DEF RowsGood

\* Steps that leave the applications as they are and never take a key away.
LEMMA OnlyKeys ==
    ASSUME RowTypes, RowTypes', RowsGood, UNCHANGED <<tenant, app, slipped>>,
           \A k \in Key : key'[k].pct \in Nat /\ (Known(k)' => Known(k) \/ app[Owner[k]].status # "none"),
           \A a \in App : KeysGood(a)'
    PROVE  RowsGood'
  <1>1. PercentTypes' /\ InactiveReleased' /\ Founded'
    BY DEF RowsGood, PercentTypes, InactiveReleased, Founded
  <1>2. ActiveApps' = ActiveApps /\ CreatedApps' = CreatedApps
    BY DEF ActiveApps, CreatedApps
  <1>3. AppsGood'
    BY <1>2, AppsKept DEF RowsGood
  <1> QED BY <1>1, <1>3 DEF RowsGood

\* revoke_api_key
LEMMA RevokeFits ==
    ASSUME RowTypes, RowTypes', RowsGood, NEW w \in Worker, NEW k \in Key, RevokeKey(w, k)
    PROVE  RowsGood'
  <1>1. /\ key[k].state = "active" /\ key' = [key EXCEPT ![k].state = "revoked"]
        /\ UNCHANGED <<tenant, app, behind, slipped>>
    BY Zenon DEF RevokeKey, WriteKeys, history
  <1>2. /\ key'[k].state = "revoked" /\ key'[k].amount = key[k].amount /\ key'[k].pct = key[k].pct
        /\ \A l \in Key \ {k} : key'[l] = key[l]
    BY <1>1 DEF RowTypes, KeyRow
  <1>3. \A l \in Key : key'[l].pct \in Nat /\ (Known(l)' => Known(l))
    BY <1>1, <1>2 DEF RowsGood, PercentTypes, Known
  <1>4. ASSUME NEW a \in App PROVE KeysGood(a)'
    <2>1. KeysOf(a)' = KeysOf(a)
      BY <1>1, <1>2 DEF KeysOf
    <2>2. \A l \in ActiveKeys(a)' : /\ l \in ActiveKeys(a)
                                    /\ key'[l].amount = key[l].amount /\ key'[l].pct = key[l].pct
      BY <1>2, <2>1 DEF ActiveKeys, KeysOf
    <2> QED BY <1>1, <2>1, <2>2, KeysKept DEF RowsGood
  <1> QED BY <1>1, <1>3, <1>4, OnlyKeys

\* revise_tenant_budget: the amounts stay, and are held against the new total.
LEMMA ReviseFits ==
    ASSUME RowTypes, RowTypes', RowsGood, NEW w \in Worker, NEW amount \in {0, TopUp},
           ReviseBudget(w, amount)
    PROVE  RowsGood'
  <1>0. PICK seen \in {used, [k \in Key |-> 0]} :
           LET new == RevisedBudget(amount)
               kids == AppChildren(seen)
               pcts == Recompute(new, kids, Newest(Funded(kids)))
           IN  /\ ResolveCode(new, kids, [a \in {} |-> 0]) = "ok"
               /\ tenant' = new
               /\ app' = [a \in App |-> IF a \in ActiveApps /\ kids[a].amount > 0
                                        THEN [app[a] EXCEPT !.pct = pcts[a]] ELSE app[a]]
               /\ UNCHANGED <<key, behind, slipped>>
    BY Zenon DEF ReviseBudget, history
  <1> DEFINE new == RevisedBudget(amount)
             kids == AppChildren(seen)
             none == [a \in {} |-> 0]
             last == Newest(Funded(kids))
             pcts == Recompute(new, kids, last)
             A == ActiveApps
             n == Cardinality(CreatedApps)
  <1>1. /\ ResolveCode(new, kids, none) = "ok" /\ tenant' = new /\ UNCHANGED <<key, behind, slipped>>
        /\ app' = [a \in App |-> IF a \in ActiveApps /\ kids[a].amount > 0
                                 THEN [app[a] EXCEPT !.pct = pcts[a]] ELSE app[a]]
    BY <1>0
  <1>2. new \in Nat /\ new # Unset
    <2>1. OrZero(tenant) \in Nat
      BY DEF RowTypes, Amount, OrZero
    <2> QED BY <2>1, AllocationAssumption DEF RevisedBudget, Unset
  <1>3. /\ DOMAIN kids = A
        /\ \A a \in A : kids[a].amount = OrZero(app[a].budget) /\ kids[a].amount \in Nat
    <2>1. DOMAIN kids = A /\ \A a \in A : kids[a].amount = OrZero(app[a].budget)
      BY DEF AppChildren
    <2>2. \A a \in A : OrZero(app[a].budget) \in Nat
      BY DEF ActiveApps, RowTypes, AppRow, Amount, OrZero
    <2> QED BY <2>1, <2>2
  <1> HIDE DEF kids, pcts, new, last
  <1>4. \A a \in App : /\ app'[a].status = app[a].status /\ app'[a].budget = app[a].budget
                       /\ app'[a].pct = IF a \in A /\ kids[a].amount > 0 THEN pcts[a] ELSE app[a].pct
    BY <1>1 DEF RowTypes, AppRow
  <1>5. A' = A /\ CreatedApps' = CreatedApps /\ IsFiniteSet(A) /\ A \in SUBSET App
    <2>1. A' = A /\ CreatedApps' = CreatedApps /\ A \in SUBSET App
      BY <1>4 DEF ActiveApps, CreatedApps
    <2> QED BY <2>1, AppCount
  <1>6. ASSUME NEW a \in A, kids[a].amount > 0
        PROVE  pcts[a] \in Nat /\ (new > 0 => Near(pcts[a], kids[a].amount, new, n))
    <2>1. a \in Funded(kids) /\ Cardinality(DOMAIN kids) <= n /\ IsFiniteSet(DOMAIN kids) /\ n \in Nat
      BY <1>3, <1>5, <1>6, AppCount DEF Funded
    <2> HIDE DEF n, A
    <2> QED BY <1>2, <1>3, <2>1, RecomputeNear DEF pcts
  <1>7. PercentTypes' /\ InactiveReleased' /\ Founded'
    <2>1. PercentTypes'
      BY <1>1, <1>4, <1>6 DEF RowsGood, PercentTypes
    <2>2. InactiveReleased'
      BY <1>1, <1>4 DEF RowsGood, InactiveReleased
    <2>3. Founded'
      BY <1>1, <1>4, AllocationAssumption DEF RowsGood, Founded, Known
    <2> QED BY <2>1, <2>2, <2>3
  <1>8. AppsGood'
    <2> DEFINE g == [a \in A' |-> OrZero(app'[a].budget)]
    <2>1. SumOver(g, A') <= tenant' + n'
      <3>1. \A a \in A : kids[a].amount = Resolved(new, kids, none)[a].amount
        BY <1>3 DEF Resolved
      <3>2. \A a \in A : g[a] = kids[a].amount
        BY <1>3, <1>4, <1>5
      <3>3. \A a \in DOMAIN kids : g[a] = Resolved(new, kids, none)[a].amount
        BY <1>3, <3>1, <3>2
      <3>4. \A c \in DOMAIN none : none[c] \in AppInputs \cup KeyInputs
        OBVIOUS
      <3>5. IsFiniteSet(DOMAIN kids) /\ \A a \in DOMAIN kids : kids[a].amount \in Nat
        BY <1>3, <1>5
      <3> HIDE DEF g, none, A
      <3>6. SumOver(g, A) <= new + Cardinality(A)
        BY <1>1, <1>2, <1>3, <3>3, <3>4, <3>5, ResolveFits
      <3>7. SumOver(g, A) \in Nat /\ Cardinality(A) \in Nat /\ Cardinality(A) <= n /\ n \in Nat
        <4>1. Cardinality(A) \in Nat /\ Cardinality(A) <= n /\ n \in Nat
          BY AppCount DEF A
        <4>2. Numbers(g, A)
          BY <1>3, <3>2 DEF Numbers
        <4> QED BY <1>5, <4>1, <4>2, SumNat
      <3>8. SumOver(g, A) <= new + n
        BY <1>2, <3>6, <3>7
      <3> QED BY <1>1, <1>5, <3>8
    <2>2. ASSUME NEW a \in A', OrZero(app'[a].budget) > 0, tenant' > 0 PROVE AppNear(a)'
      <3>1. a \in A /\ a \in App /\ kids[a].amount > 0 /\ kids[a].amount = OrZero(app[a].budget)
        BY <1>3, <1>4, <1>5, <2>2
      <3>2. kids[a].amount = app[a].budget
        BY <3>1 DEF OrZero
      <3>3. Near(pcts[a], kids[a].amount, new, n)
        BY <1>1, <1>6, <2>2, <3>1
      <3> HIDE DEF n
      <3> QED BY <1>1, <1>4, <1>5, <3>1, <3>2, <3>3 DEF AppNear, n
    <2> QED BY <1>1, <1>2, <2>1, <2>2, AppsChecked
  <1>9. ASSUME NEW a \in App PROVE KeysGood(a)'
    <2>1. app'[a].budget = app[a].budget
      BY <1>4
    <2> QED BY <1>1, <2>1, KeysUntouched DEF RowsGood
  <1> QED BY <1>7, <1>8, <1>9 DEF RowsGood

\* deactivate_application: what it releases is gone from both levels, unless it slipped.
LEMMA DeactivateFits ==
    ASSUME RowTypes, RowTypes', ZeroesItsOwn, RowsGood, NEW w \in Worker, DeactivateCommit(w)
    PROVE  RowsGood'
  <1> DEFINE a == req[w].target
             zeroed == DOMAIN req[w].writes
             budget == Released(req[w].copy.budget, app[a].budget)
             pct == Released(req[w].copy.pct, app[a].pct)
             left == [status |-> "INACTIVE", budget |-> budget, pct |-> pct]
  <1>1. /\ req[w].pc = "deactivate" /\ app' = [app EXCEPT ![a] = left]
        /\ key' = [k \in Key |-> IF k \in zeroed THEN [key[k] EXCEPT !.amount = 0, !.pct = 0] ELSE key[k]]
        /\ slipped' = (slipped \/ left.budget # Unset \/ left.pct # Unset
                          \/ \E k \in ActiveKeys(a) : key'[k].amount > 0)
        /\ behind' = behind \ zeroed /\ tenant' = tenant
    BY Zenon DEF DeactivateCommit
  <1>2. left.status = "INACTIVE" /\ left.budget = budget /\ left.pct = pct
    OBVIOUS
  <1>3. a \in App /\ \A k \in zeroed : Owner[k] = a
    BY <1>1 DEF ZeroesItsOwn
  <1>4. pct \in Int
    BY <1>3 DEF RowsGood, PercentTypes, Released, Unset
  <1> HIDE DEF a, zeroed, budget, pct, left
  <1>5. app'[a] = left /\ \A b \in App \ {a} : app'[b] = app[b]
    BY <1>1, <1>3 DEF RowTypes
  <1>6. \A k \in Key : /\ key'[k].state = key[k].state /\ key'[k].pct \in Nat
                       /\ k \notin zeroed => key'[k] = key[k]
    BY <1>1 DEF RowTypes, KeyRow, RowsGood, PercentTypes
  <1>7. ~slipped' => /\ ~slipped /\ budget = Unset
                     /\ \A k \in ActiveKeys(a) : ~(key'[k].amount > 0)
    BY <1>1, <1>2
  <1>8. PercentTypes' /\ InactiveReleased' /\ Founded'
    <2>1. PercentTypes'
      BY <1>2, <1>4, <1>5, <1>6 DEF RowsGood, PercentTypes
    <2>2. InactiveReleased'
      BY <1>2, <1>5, <1>7 DEF RowsGood, InactiveReleased
    <2>3. Founded'
      BY <1>2, <1>5, <1>6, AllocationAssumption DEF RowsGood, Founded, Known
    <2> QED BY <2>1, <2>2, <2>3
  <1>9. AppsGood'
    <2>1. CreatedApps \subseteq CreatedApps'
      BY <1>2, <1>3, <1>5 DEF CreatedApps
    <2>2. \A b \in ActiveApps' :
             IF b \in ActiveApps THEN app'[b].budget = app[b].budget /\ app'[b].pct = app[b].pct
             ELSE OrZero(app'[b].budget) = 0
      BY <1>2, <1>5 DEF ActiveApps
    <2> QED BY <1>1, <1>7, <2>1, <2>2, AppsKept DEF RowsGood
  <1>10. ASSUME NEW b \in App PROVE KeysGood(b)'
    <2>1. KeysOf(b)' = KeysOf(b) /\ ActiveKeys(b)' = ActiveKeys(b)
      BY <1>6 DEF KeysOf, ActiveKeys
    <2>2. CASE b # a
      <3>1. \A k \in KeysOf(b) : k \in Key /\ k \notin zeroed
        BY <1>3, <2>2 DEF KeysOf
      <3>2. \A k \in ActiveKeys(b)' : k \in ActiveKeys(b) /\ key'[k].amount = key[k].amount /\ key'[k].pct = key[k].pct
        BY <1>6, <2>1, <3>1 DEF ActiveKeys
      <3> QED BY <1>1, <1>5, <1>7, <2>1, <2>2, <3>1, <3>2, KeysKept DEF RowsGood
    <2>3. CASE b = a
      <3>1. CASE slipped'
        BY <3>1 DEF KeysGood
      <3>2. CASE ~slipped'
        <4> DEFINE A == ActiveKeys(b)
                   g == [k \in A' |-> key'[k].amount]
        <4>1. \A k \in A' : key'[k].amount = 0
          <5>1. \A k \in A' : k \in Key /\ key'[k].amount \in Nat
            BY KeyCountNext DEF RowTypes, KeyRow
          <5> QED BY <1>7, <2>1, <2>3, <3>2, <5>1
        <4>2. SumOver(g, A') = 0
          <5>1. IsFiniteSet(A') /\ \A k \in A' : g[k] = 0
            BY <4>1, KeyCountNext
          <5> HIDE DEF g, A
          <5> QED BY <5>1, SumZero
        <4>3. OrZero(app'[b].budget) \in Nat /\ Cardinality(KeysOf(b)') \in Nat
          BY KeyCountNext DEF RowTypes, AppRow, Amount, OrZero
        <4>4. 0 <= OrZero(app'[b].budget) + Cardinality(KeysOf(b)')
          BY <4>3
        <4> QED BY <4>1, <4>2, <4>4, KeysChecked
      <3> QED BY <3>1, <3>2
    <2> QED BY <2>2, <2>3
  <1> QED BY <1>8, <1>9, <1>10 DEF RowsGood

\* The greater of two numbers.
LEMMA MaxOfTwo ==
    ASSUME NEW x \in Nat, NEW y \in Nat
    PROVE  Max({x, y}) \in Nat /\ x <= Max({x, y})
  <1>1. \E z \in {x, y} : \A u \in {x, y} : z >= u
    <2>1. CASE x >= y
      BY <2>1
    <2>2. CASE y >= x
      BY <2>2
    <2> QED BY <2>1, <2>2
  <1> QED BY <1>1 DEF Max

\* What create_api_key sums is at least the percentages of the active keys.
LEMMA CommittedCovers ==
    ASSUME RowTypes, LedgerTypes, PercentTypes, NEW a \in App, app[a].budget \in Nat,
           NEW seen \in {used, [l \in Key |-> 0]},
           NEW f, \A l \in ActiveKeys(a) : f[l] = key[l].pct * app[a].budget
    PROVE  /\ Numbers(f, ActiveKeys(a)) /\ SumOver(f, ActiveKeys(a)) \in Nat
           /\ CommittedTotal(a, seen) \in Nat /\ SumOver(f, ActiveKeys(a)) <= CommittedTotal(a, seen)
  <1> DEFINE Share(l) == IF key[l].state = "active" THEN Max({key[l].pct * app[a].budget, seen[l] * Hundred})
                         ELSE seen[l] * Hundred
             share == [l \in KeysOf(a) |-> Share(l)]
             A == ActiveKeys(a)
             S == KeysOf(a)
  <1>1. A \in SUBSET S /\ S \in SUBSET Key /\ IsFiniteSet(S) /\ IsFiniteSet(A)
    BY KeyCount
  <1>2. \A l \in Key : key[l].pct * app[a].budget \in Nat /\ seen[l] * Hundred \in Nat
    <2>1. \A l \in Key : key[l].pct \in Nat /\ seen[l] \in Nat
      BY DEF LedgerTypes, PercentTypes
    <2>2. Hundred \in Nat
      BY DEF Hundred
    <2> QED BY <2>1, <2>2, ProductIsNat
  <1>3. \A l \in S : Share(l) \in Nat
    BY <1>1, <1>2, MaxOfTwo
  <1>4. \A l \in A : f[l] <= Share(l) /\ f[l] \in Nat /\ l \in S
    <2>1. ASSUME NEW l \in A PROVE f[l] <= Share(l) /\ f[l] \in Nat /\ l \in S
      <3>1. l \in Key /\ l \in S /\ key[l].state = "active"
        BY <1>1 DEF ActiveKeys
      <3> QED BY <1>2, <3>1, MaxOfTwo
    <2> QED BY <2>1
  <1>5. CommittedTotal(a, seen) = SumOver(share, S)
    BY TotalIsSum DEF CommittedTotal
  <1> HIDE DEF Share
  <1>6. Numbers(share, S) /\ Numbers(share, A) /\ Numbers(f, A) /\ \A l \in A : f[l] <= share[l]
    BY <1>1, <1>3, <1>4 DEF Numbers
  <1> HIDE DEF share, A, S
  <1>7. SumOver(f, A) <= SumOver(share, A) /\ SumOver(f, A) \in Nat /\ SumOver(share, S) \in Nat
        /\ SumOver(share, A) <= SumOver(share, S) /\ SumOver(share, A) \in Nat
    BY <1>1, <1>6, SumBelow, SumNat, SumSubset
  <1> QED BY <1>5, <1>6, <1>7 DEF A

\* The ceiling that create_api_key adds is the new key's amount, before its rounding.
LEMMA CeilingOf ==
    ASSUME NEW input \in KeyInputs, NEW parent \in Nat
    PROVE  LET ceiling == IF input.type = "FIXED" THEN input.value * Hundred ELSE parent * input.value
           IN  ceiling \in Nat /\ Convert(input, parent).amount * Hundred <= ceiling + Hundred
  <1>1. input.value \in Nat /\ Hundred \in Nat \ {0}
    BY AllocationAssumption DEF Hundred
  <1>2. input.value * Hundred \in Nat /\ parent * input.value \in Nat
    BY <1>1, ProductIsNat
  <1>3. CASE input.type = "FIXED"
    <2>1. Convert(input, parent).amount = input.value
      BY <1>3 DEF Convert
    <2> QED BY <1>1, <1>2, <1>3, <2>1
  <1>4. CASE input.type # "FIXED"
    <2> DEFINE x == parent * input.value
               m == Convert(input, parent).amount
    <2>1. m = HalfUp(x, Hundred) /\ x \in Nat
      BY <1>2, <1>4 DEF Convert
    <2> HIDE DEF x, m
    <2>2. m \in Nat /\ 2 * (m * Hundred) <= 2 * x + Hundred
      BY <1>1, <2>1, HalfUpBounds
    <2>3. m * Hundred <= x + Hundred
      BY <2>1, <2>2 DEF Hundred
    <2> QED BY <1>2, <1>4, <2>3 DEF x, m
  <1> QED BY <1>3, <1>4

\* The amounts of keys whose percentages are near, beside the sum of those percentages.
LEMMA NearSum ==
    ASSUME RowTypes, PercentTypes, NEW a \in App, NEW parent \in Nat, parent > 0, parent = app[a].budget,
           \A l \in ActiveKeys(a) : key[l].amount > 0 => KeyNear(l),
           NEW f, Numbers(f, ActiveKeys(a)), \A l \in ActiveKeys(a) : f[l] = key[l].pct * parent
    PROVE  SumOver([l \in ActiveKeys(a) |-> key[l].amount], ActiveKeys(a)) * Hundred
              <= SumOver(f, ActiveKeys(a)) + (parent + Hundred) * Cardinality(ActiveKeys(a))
  <1> DEFINE A == ActiveKeys(a)
             g == [l \in A |-> key[l].amount]
             h == [l \in A |-> g[l] * Hundred]
  <1>1. A \in SUBSET Key /\ IsFiniteSet(A) /\ \A l \in A : Owner[l] = a
    BY KeyCount DEF ActiveKeys, KeysOf
  <1>2. Numbers(g, A) /\ \A l \in A : h[l] = g[l] * Hundred
    BY <1>1 DEF Numbers, RowTypes, KeyRow
  <1>3. Hundred \in Nat /\ parent + Hundred \in Nat
    BY DEF Hundred
  <1>4. SumOver(h, A) = SumOver(g, A) * Hundred /\ Numbers(h, A)
    <2> HIDE DEF g, h, A
    <2> QED BY <1>1, <1>2, <1>3, SumScale
  <1>5. ASSUME NEW l \in A PROVE h[l] <= f[l] + (parent + Hundred)
    <2>1. h[l] = key[l].amount * Hundred /\ key[l].amount \in Nat /\ f[l] \in Nat /\ f[l] = key[l].pct * parent
      BY <1>1 DEF Numbers, RowTypes, KeyRow
    <2>2. CASE key[l].amount > 0
      <3>1. OrZero(app[Owner[l]].budget) = parent /\ parent # 0
        BY <1>1, <1>5 DEF OrZero, Unset
      <3>2. KeyNear(l)
        BY <2>2
      <3>3. key[l].amount * Hundred <= key[l].pct * parent + parent + Hundred
        BY <3>1, <3>2 DEF KeyNear, Near
      <3> HIDE DEF h, A
      <3>4. key[l].amount * Hundred <= f[l] + parent + Hundred
        BY <2>1, <3>3
      <3> QED BY <1>3, <2>1, <3>4 DEF Hundred
    <2>3. CASE ~(key[l].amount > 0)
      <3>1. h[l] = 0
        BY <1>3, <2>1, <2>3
      <3> HIDE DEF h, A
      <3> QED BY <1>3, <2>1, <3>1
    <2> QED BY <2>2, <2>3
  <1>6. Numbers(f, A)
    OBVIOUS
  <1> HIDE DEF g, h, A
  <1>7. SumOver(h, A) <= SumOver(f, A) + (parent + Hundred) * Cardinality(A)
    BY <1>1, <1>3, <1>4, <1>5, <1>6, SumWithin
  <1> QED BY <1>4, <1>7 DEF g, A

\* The sum that create_api_key's check allows.
LEMMA CreatedArithmetic ==
    ASSUME NEW s \in Nat, NEW amount \in Nat, NEW shares \in Nat, NEW committed \in Nat, NEW ceiling \in Nat,
           NEW b \in Nat, NEW m \in Nat, NEW n \in Nat, m <= n,
           s * Hundred <= shares + (b + Hundred) * m, shares <= committed,
           amount * Hundred <= ceiling + Hundred, committed + ceiling <= b * Hundred
    PROVE  (amount + s) * Hundred <= (b + (n + 1)) * Hundred + (n + 1) * b
  <1>1. m * b \in Nat /\ n * b \in Nat /\ m * b <= n * b
    OBVIOUS
  <1>2. (b + Hundred) * m = m * b + Hundred * m
    BY DEF Hundred
  <1>3. (n + 1) * b = n * b + b
    OBVIOUS
  <1> DEFINE mb == m * b
             nb == n * b
  <1>4. s * Hundred <= shares + mb + Hundred * m /\ mb \in Nat /\ nb \in Nat /\ mb <= nb
    BY <1>1, <1>2 DEF Hundred
  <1> HIDE DEF mb, nb
  <1>5. (amount + s) * Hundred <= (b + (n + 1)) * Hundred + (nb + b)
    BY <1>4 DEF Hundred
  <1> QED BY <1>3, <1>5 DEF nb

\* create_api_key
LEMMA CreateKeyFits ==
    ASSUME RowTypes, RowTypes', LedgerTypes, RowsGood, NEW w \in Worker, NEW k \in Key,
           NEW input \in KeyInputs, CreateKey(w, k, input)
    PROVE  RowsGood'
  <1> DEFINE a == Owner[k]
             B == app[a].budget
             c == Convert(input, B)
             ceiling == IF input.type = "FIXED" THEN input.value * Hundred ELSE B * input.value
             new == [state |-> "active", amount |-> c.amount, pct |-> c.pct]
  <1>1. PICK seen \in {used, [l \in Key |-> 0]} :
           /\ key[k].state = "none" /\ B > 0
           /\ CommittedTotal(a, seen) + ceiling <= B * Hundred
           /\ key' = [key EXCEPT ![k] = new]
           /\ UNCHANGED <<tenant, app, behind, slipped>>
    BY Zenon DEF CreateKey, history
  <1>2. a \in App /\ B \in Nat /\ B > 0 /\ OrZero(B) = B /\ app[a].status # "none"
    <2>1. a \in App /\ B \in Amount /\ B > 0
      BY <1>1, AllocationAssumption DEF RowTypes, AppRow
    <2>2. B \in Nat /\ B # Unset
      BY <2>1 DEF Amount, Unset
    <2> QED BY <2>1, <2>2 DEF OrZero, RowsGood, Founded
  <1>3. c.amount \in Nat /\ c.pct \in Nat /\ \A n \in Nat : n > 0 => Near(c.pct, c.amount, B, n)
    <2> HIDE DEF B
    <2> QED BY <1>2, ConvertNear
  <1>4. ceiling \in Nat /\ c.amount * Hundred <= ceiling + Hundred
    BY <1>2, CeilingOf
  <1>5. new.state = "active" /\ new.amount = c.amount /\ new.pct = c.pct
    OBVIOUS
  <1> HIDE DEF new, c, ceiling
  <1>6. key'[k] = new /\ \A l \in Key \ {k} : key'[l] = key[l]
    BY <1>1 DEF RowTypes
  <1>7. \A l \in Key : key'[l].pct \in Nat /\ (Known(l)' => Known(l) \/ app[Owner[l]].status # "none")
    BY <1>2, <1>3, <1>5, <1>6 DEF RowsGood, PercentTypes, Known
  <1>8. ASSUME NEW b \in App, b # a PROVE KeysGood(b)'
    <2>1. KeysOf(b)' = KeysOf(b) /\ ActiveKeys(b)' = ActiveKeys(b)
      BY <1>6, <1>8 DEF KeysOf, ActiveKeys
    <2>2. \A l \in ActiveKeys(b)' : l \in ActiveKeys(b) /\ key'[l].amount = key[l].amount /\ key'[l].pct = key[l].pct
      BY <1>6, <1>8, <2>1 DEF KeysOf, ActiveKeys
    <2> QED BY <1>1, <2>1, <2>2, KeysKept DEF RowsGood
  <1>9. KeysGood(a)'
    <2> DEFINE A == ActiveKeys(a)
               g == [l \in A' |-> key'[l].amount]
               f == [l \in A |-> key[l].amount]
               p == [l \in A |-> key[l].pct * B]
               n == Cardinality(KeysOf(a))
    <2>1. /\ KeysOf(a)' = KeysOf(a) \cup {k} /\ k \notin KeysOf(a)
          /\ A' = A \cup {k} /\ k \notin A /\ A \in SUBSET Key
      BY <1>1, <1>5, <1>6 DEF KeysOf, ActiveKeys
    <2>2. n \in Nat /\ n' = n + 1 /\ Cardinality(A) \in Nat /\ Cardinality(A) <= n
      <3>1. n' = n + 1
        BY <2>1, KeyCount, FS_AddElement
      <3> QED BY <3>1, KeyCount
    <2>3. SUFFICES ASSUME ~slipped'
                   PROVE  /\ KeysOf(a)' \cap behind' = {} => KeysFit(a)'
                          /\ \A l \in A' : key'[l].amount > 0 /\ (l \notin behind' \/ OrZero(app'[a].budget) = 0)
                                => KeyNear(l)'
      BY DEF KeysGood
    <2>4. ASSUME KeysOf(a)' \cap behind' = {} PROVE KeysFit(a)'
      <3>1. \A l \in A : key[l].amount > 0 => KeyNear(l)
        <4>1. \A l \in A : l \notin behind
          BY <1>1, <2>1, <2>4, KeyCount
        <4> QED BY <1>1, <1>2, <2>3, <4>1 DEF RowsGood, KeysGood
      <3>2. \A l \in A : p[l] = key[l].pct * B
        OBVIOUS
      <3>3. Numbers(p, A) /\ SumOver(p, A) \in Nat /\ CommittedTotal(a, seen) \in Nat
            /\ SumOver(p, A) <= CommittedTotal(a, seen)
        <4> HIDE DEF p
        <4> QED BY <1>2, <3>2, CommittedCovers DEF RowsGood
      <3>4. SumOver(f, A) * Hundred <= SumOver(p, A) + (B + Hundred) * Cardinality(A)
        <4> HIDE DEF p, B
        <4>1. B = app[a].budget /\ \A l \in A : p[l] = key[l].pct * B
          BY <3>2 DEF B
        <4> QED BY <1>2, <3>1, <3>3, <4>1, NearSum DEF RowsGood
      <3>5. IsFiniteSet(A) /\ IsFiniteSet(A') /\ Numbers(f, A) /\ Numbers(g, A')
        BY <2>1, KeyCount, KeyCountNext DEF Numbers, RowTypes, KeyRow
      <3>6. (\A l \in A : f[l] = g[l]) /\ g[k] = c.amount /\ A' \ {k} = A /\ k \in A'
        BY <1>5, <1>6, <2>1
      <3>7. SumOver(g, A') = c.amount + SumOver(f, A) /\ SumOver(f, A) \in Nat
        <4> HIDE DEF f, g, A
        <4>1. SumOver(g, A') = g[k] + SumOver(g, A)
          BY <3>5, <3>6, SumRemove
        <4>2. SumOver(f, A) = SumOver(g, A) /\ SumOver(f, A) \in Nat
          BY <3>5, <3>6, SumSame, SumNat
        <4> QED BY <3>6, <4>1, <4>2
      <3> HIDE DEF f, g, p, A, n, B
      <3>8. SumOver(g, A') * Hundred <= (B + n') * Hundred + n' * B
        <4>1. (c.amount + SumOver(f, A)) * Hundred <= (B + (n + 1)) * Hundred + (n + 1) * B
          BY <1>1, <1>2, <1>3, <1>4, <2>2, <3>3, <3>4, <3>7, CreatedArithmetic
        <4> QED BY <2>2, <3>7, <4>1
      <3> QED BY <1>1, <1>2, <3>8, TotalIsSum DEF KeysFit, g, A, n, B
    <2>5. ASSUME NEW l \in A', key'[l].amount > 0, l \notin behind' \/ OrZero(app'[a].budget) = 0
          PROVE  KeyNear(l)'
      <3>1. CASE l = k
        <4> HIDE DEF n
        <4>1. Near(c.pct, c.amount, B, n')
          BY <1>3, <2>2
        <4> QED BY <1>1, <1>2, <1>5, <1>6, <3>1, <4>1 DEF KeyNear, n
      <3>2. CASE l # k
        <4>1. l \in A /\ key'[l] = key[l] /\ l \in Key /\ Owner[l] = a
          BY <1>6, <2>1, <3>2 DEF ActiveKeys, KeysOf
        <4>2. KeyNear(l)
          BY <1>1, <1>2, <2>3, <2>5, <4>1 DEF RowsGood, KeysGood
        <4>3. key[l].pct \in Int /\ key[l].amount \in Nat
          BY <4>1 DEF RowsGood, PercentTypes, RowTypes, KeyRow
        <4> HIDE DEF n
        <4>4. Near(key[l].pct, key[l].amount, B, n')
          BY <1>2, <2>2, <4>1, <4>2, <4>3, NearGrows DEF KeyNear, n
        <4> QED BY <1>1, <1>2, <4>1, <4>4 DEF KeyNear, n
      <3> QED BY <3>1, <3>2
    <2> QED BY <2>4, <2>5
  <1> QED BY <1>1, <1>7, <1>8, <1>9, OnlyKeys

\* resolve_level accepted these ceilings for the keys of an application, and the keys that
\* are not left behind have the percentages that go with them.
LevelAccepted(a, parent, children, request) ==
    /\ parent \in Nat /\ OrZero(app'[a].budget) = parent
    /\ ActiveKeys(a)' \subseteq DOMAIN children /\ DOMAIN children \subseteq KeysOf(a)'
    /\ \A k \in DOMAIN children : children[k].amount \in Nat
    /\ \A k \in DOMAIN request : request[k] \in AppInputs \cup KeyInputs
    /\ ResolveCode(parent, children, request) = "ok"
    /\ \A k \in ActiveKeys(a)' : key'[k].amount = Resolved(parent, children, request)[k].amount
    /\ \A k \in ActiveKeys(a)' :
          ~slipped' /\ key'[k].amount > 0 /\ parent > 0 /\ k \notin behind' => KeyNear(k)'

LEMMA KeysLevel ==
    ASSUME RowTypes', NEW a \in App, NEW parent, NEW children, NEW request,
           LevelAccepted(a, parent, children, request)
    PROVE  KeysGood(a)'
  <1>0. /\ parent \in Nat /\ OrZero(app'[a].budget) = parent
        /\ ActiveKeys(a)' \subseteq DOMAIN children /\ DOMAIN children \subseteq KeysOf(a)'
        /\ \A k \in DOMAIN children : children[k].amount \in Nat
        /\ \A k \in DOMAIN request : request[k] \in AppInputs \cup KeyInputs
        /\ ResolveCode(parent, children, request) = "ok"
        /\ \A k \in ActiveKeys(a)' : key'[k].amount = Resolved(parent, children, request)[k].amount
        /\ \A k \in ActiveKeys(a)' :
              ~slipped' /\ key'[k].amount > 0 /\ parent > 0 /\ k \notin behind' => KeyNear(k)'
    BY DEF LevelAccepted
  <1> DEFINE A == ActiveKeys(a)'
             D == DOMAIN children
             f == [k \in D |-> Resolved(parent, children, request)[k].amount]
             g == [k \in A |-> key'[k].amount]
             n == Cardinality(KeysOf(a)')
  <1>1. /\ IsFiniteSet(A) /\ IsFiniteSet(D) /\ A \in SUBSET D /\ A \in SUBSET Key
        /\ Cardinality(D) \in Nat /\ Cardinality(D) <= n /\ n \in Nat
    BY <1>0, KeyCountNext, FS_Subset, FS_CardinalityType
  <1>2. \A k \in D : f[k] = Resolved(parent, children, request)[k].amount
    OBVIOUS
  <1>3. DOMAIN request \subseteq D /\ SumOver(f, D) <= parent + Cardinality(D)
    <2> HIDE DEF f
    <2> QED BY <1>0, <1>1, <1>2, ResolveFits
  <1>4. Numbers(f, D) /\ Numbers(g, A) /\ \A k \in A : f[k] = g[k]
    <2>1. \A k \in D : Resolved(parent, children, request)[k].amount \in Nat
      BY <1>0, ResolvedAmount
    <2> QED BY <1>0, <1>1, <2>1 DEF Numbers, RowTypes, KeyRow
  <1> HIDE DEF f, g, A, D, n
  <1>5. SumOver(f, A) \in Nat /\ SumOver(f, A) <= SumOver(f, D) /\ SumOver(f, D) \in Nat
    BY <1>1, <1>4, SumSubset, SumNat
  <1>6. SumOver(g, A) = SumOver(f, A)
    <2>1. Numbers(f, A)
      BY <1>1, <1>4 DEF Numbers
    <2> QED BY <1>1, <1>4, <2>1, SumSame
  <1>7. SumOver(g, A) <= parent + n
    BY <1>0, <1>1, <1>3, <1>5, <1>6
  <1> QED BY <1>0, <1>7, KeysChecked DEF g, A, n

\* A key's row with the ceiling and the percentage that were resolved.
LEMMA ResizedBoth ==
    ASSUME NEW keyRow, KeyRow(keyRow), NEW c
    PROVE  /\ Resized(keyRow, c).amount = c.amount /\ Resized(keyRow, c).pct = c.pct
           /\ Resized(keyRow, c).state = keyRow.state
  BY DEF Resized, KeyRow

\* update_application_key_allocations
LEMMA ApplicationAllocateFits ==
    ASSUME RowTypes, RowTypes', RowsGood, NEW w \in Worker, NEW a \in App,
           NEW request \in Rows(ActiveKeys(a), KeyInputs), ApplicationAllocate(w, a, request)
    PROVE  RowsGood'
  <1> DEFINE B == app[a].budget
             Writes(seen) == Changed(B, KeyChildren(a, seen), request)
             New(k) == Resized(key[k], Convert(request[k], B))
             KeysNow(seen) == [k \in Key |-> IF k \in Writes(seen) THEN New(k) ELSE key[k]]
  <1>1. PICK seen \in {used, [k \in Key |-> 0]} :
           /\ B # Unset /\ WriteKeys(KeysNow(seen))
           /\ KeysResolve(KeyChildren(a, seen), B, request)
           /\ behind' = behind \ Writes(seen)
           /\ UNCHANGED <<tenant, app, ledger, slipped, charges>>
    BY Zenon DEF ApplicationAllocate
  <1> DEFINE kids == KeyChildren(a, seen)
             writes == Writes(seen)
             n == Cardinality(KeysOf(a))
  <1>2. DOMAIN request \subseteq ActiveKeys(a) /\ \A k \in DOMAIN request : request[k] \in KeyInputs
    BY RowsFacts
  <1>3. B \in Nat /\ OrZero(B) = B
    BY <1>1 DEF RowTypes, AppRow, Amount, OrZero
  <1>4. /\ DOMAIN kids = ActiveKeys(a)
        /\ \A k \in ActiveKeys(a) : kids[k].amount = key[k].amount /\ kids[k].pct = key[k].pct
    BY DEF KeyChildren
  <1>5. /\ writes \subseteq DOMAIN request
        /\ \A k \in DOMAIN request : k \in writes <=> Convert(request[k], B).amount # kids[k].amount
    BY DEF Changed
  <1>6. /\ key' = [k \in Key |-> IF k \in writes THEN New(k) ELSE key[k]]
        /\ UNCHANGED <<tenant, app, slipped>> /\ behind' = behind \ writes
        /\ KeysResolve(kids, B, request)
    BY <1>1 DEF WriteKeys
  <1> HIDE DEF kids, writes, B
  <1>7. \A k \in Key :
           IF k \in writes
           THEN /\ key'[k].amount = Convert(request[k], B).amount /\ key'[k].pct = Convert(request[k], B).pct
                /\ key'[k].state = key[k].state
           ELSE key'[k] = key[k]
    <2>1. ASSUME NEW k \in writes, k \in Key
          PROVE  /\ New(k).amount = Convert(request[k], B).amount /\ New(k).pct = Convert(request[k], B).pct
                 /\ New(k).state = key[k].state
      BY <2>1, ResizedBoth DEF RowTypes
    <2> HIDE DEF New
    <2> QED BY <1>6, <2>1
  <1>8. \A b \in App : KeysOf(b)' = KeysOf(b) /\ ActiveKeys(b)' = ActiveKeys(b)
    BY <1>7 DEF KeysOf, ActiveKeys
  <1>9. \A k \in DOMAIN request : Convert(request[k], B).pct \in Nat
                                  /\ \A m \in Nat : B > 0 /\ m > 0 => Near(Convert(request[k], B).pct, Convert(request[k], B).amount, B, m)
    BY <1>2, <1>3, ConvertNear
  <1>10. \A k \in Key : key'[k].pct \in Nat /\ (Known(k)' => Known(k))
    BY <1>5, <1>7, <1>9 DEF RowsGood, PercentTypes, Known
  <1>11. ASSUME NEW b \in App, b # a PROVE KeysGood(b)'
    <2>1. \A k \in KeysOf(b) : k \in Key /\ k \notin writes
      BY <1>2, <1>5, <1>11 DEF ActiveKeys, KeysOf
    <2>2. \A k \in ActiveKeys(b)' : k \in ActiveKeys(b) /\ key'[k].amount = key[k].amount /\ key'[k].pct = key[k].pct
      BY <1>7, <1>8, <2>1 DEF ActiveKeys
    <2> QED BY <1>6, <1>8, <2>1, <2>2, KeysKept DEF RowsGood
  <1>12. KeysGood(a)'
    <2>1. OrZero(app'[a].budget) = B
      BY <1>3, <1>6 DEF B
    <2>2. ActiveKeys(a)' \subseteq DOMAIN kids /\ DOMAIN kids \subseteq KeysOf(a)'
      BY <1>4, <1>8, KeyCount
    <2>3. \A k \in DOMAIN kids : kids[k].amount \in Nat /\ k \in Key
      BY <1>4, KeyCount DEF RowTypes, KeyRow
    <2>4. ResolveCode(B, kids, request) = "ok"
      BY <1>6 DEF KeysResolve
    <2>5. \A k \in ActiveKeys(a)' : key'[k].amount = Resolved(B, kids, request)[k].amount
      <3>1. ASSUME NEW k \in ActiveKeys(a) PROVE key'[k].amount = Resolved(B, kids, request)[k].amount
        <4>1. CASE k \in writes
          <5>1. Resolved(B, kids, request)[k] = Convert(request[k], B)
            BY <1>4, <1>5, <4>1 DEF Resolved
          <5> QED BY <1>4, <1>7, <2>3, <4>1, <5>1
        <4>2. CASE k \notin writes
          <5>1. Resolved(B, kids, request)[k] = [amount |-> kids[k].amount, pct |-> kids[k].pct]
            BY <1>4, <1>5, <4>2 DEF Resolved
          <5> QED BY <1>4, <1>7, <2>3, <4>2, <5>1
        <4> QED BY <4>1, <4>2
      <3> QED BY <1>8, <3>1
    <2>6. ASSUME NEW k \in ActiveKeys(a)', ~slipped', key'[k].amount > 0, B > 0, k \notin behind' PROVE KeyNear(k)'
      <3>1. k \in Key /\ k \in ActiveKeys(a) /\ Owner[k] = a /\ k \in KeysOf(a)
        BY <1>8 DEF ActiveKeys, KeysOf
      <3>2. n \in Nat /\ n > 0
        BY <3>1, KeyCount
      <3> HIDE DEF n
      <3>3. CASE k \in writes
        <4>1. Near(key'[k].pct, key'[k].amount, B, n)
          BY <1>5, <1>7, <1>9, <2>6, <3>1, <3>2, <3>3
        <4> QED BY <1>8, <2>1, <3>1, <4>1 DEF KeyNear, n
      <3>4. CASE k \notin writes
        <4>1. key'[k] = key[k] /\ k \notin behind
          BY <1>6, <1>7, <2>6, <3>1, <3>4
        <4>2. KeyNear(k)
          BY <1>6, <2>6, <3>1, <4>1 DEF RowsGood, KeysGood
        <4> QED BY <1>6, <1>8, <3>1, <4>1, <4>2 DEF KeyNear
      <3> QED BY <3>3, <3>4
    <2>7. \A k \in DOMAIN request : request[k] \in AppInputs \cup KeyInputs
      BY <1>2
    <2>8. \A k \in DOMAIN kids : kids[k].amount \in Nat
      BY <2>3
    <2>9. \A k \in ActiveKeys(a)' :
             ~slipped' /\ key'[k].amount > 0 /\ B > 0 /\ k \notin behind' => KeyNear(k)'
      BY <2>6
    <2>10. LevelAccepted(a, B, kids, request)
      BY <1>3, <2>1, <2>2, <2>4, <2>5, <2>7, <2>8, <2>9 DEF LevelAccepted
    <2> QED BY <2>10, KeysLevel
  <1> QED BY <1>6, <1>10, <1>11, <1>12, OnlyKeys

\* update_single_api_key_allocation: a stale copy leaves the percentage behind.
LEMMA SingleFits ==
    ASSUME RowTypes, RowTypes', RequestForms, KnownKeys, RowsGood, NEW w \in Worker, NEW input \in KeyInputs,
           SingleCommit(w, input)
    PROVE  RowsGood'
  <1>a. PICK k : k = req[w].target
    OBVIOUS
  <1>b. PICK copy : copy = req[w].row
    OBVIOUS
  <1>c. PICK a : a = Owner[k]
    OBVIOUS
  <1> DEFINE B == app[a].budget
             Kids(seen) == [l \in ActiveKeys(a) \cup {k} |->
                    IF l = k THEN [amount |-> copy.amount, pct |-> copy.pct, used |-> seen[k]]
                    ELSE KeyChildren(a, seen)[l]]
             request == [l \in {k} |-> input]
             c == Convert(input, B)
             changed == c.amount # copy.amount
             mine == [key[k] EXCEPT !.amount = c.amount,
                                    !.pct = IF c.pct = copy.pct THEN key[k].pct ELSE c.pct]
             keysNow == IF changed THEN [key EXCEPT ![k] = mine] ELSE key
  <1>1. PICK seen \in {used, [l \in Key |-> 0]} :
           /\ req[w].pc = "single" /\ B # Unset
           /\ KeysResolve(Kids(seen), B, request)
           /\ WriteKeys(keysNow)
           /\ behind' = IF key[k] # copy THEN behind \cup {k}
                        ELSE IF changed THEN behind \ {k} ELSE behind
           /\ UNCHANGED <<tenant, app, ledger, slipped, ops, charges>>
    BY <1>a, <1>b, <1>c, Zenon DEF SingleCommit
  <1> DEFINE kids == Kids(seen)
             n == Cardinality(KeysOf(a))
  <1>2. req[w].pc = "single" /\ B # Unset /\ KeysResolve(kids, B, request)
    BY <1>1, Zenon
  <1>3. key' = keysNow /\ UNCHANGED <<tenant, app, slipped>>
    BY <1>1, Zenon DEF WriteKeys
  <1>4. behind' = IF key[k] # copy THEN behind \cup {k} ELSE IF changed THEN behind \ {k} ELSE behind
    BY <1>1, Zenon
  <1>5. k \in Key /\ k \in KeysOf(a) /\ a \in App
    BY <1>2, <1>a, <1>c, AllocationAssumption DEF RequestForms, FormOf, KnownKeys, Known, KeysOf
  <1>6. B \in Nat /\ OrZero(B) = B
    BY <1>2, <1>5 DEF RowTypes, AppRow, Amount, OrZero
  <1>7. n \in Nat /\ n > 0
    BY <1>5, KeyCount
  <1>8. DOMAIN request = {k} /\ request[k] = input
    OBVIOUS
  <1>9. /\ DOMAIN kids = ActiveKeys(a) \cup {k} /\ kids[k].amount = copy.amount
        /\ \A l \in ActiveKeys(a) \ {k} : kids[l].amount = key[l].amount
    BY DEF KeyChildren
  <1>10. B > 0
    BY <1>2, <1>8 DEF KeysResolve, Usable
  <1>11. c.amount \in Nat /\ c.pct \in Nat /\ Near(c.pct, c.amount, B, n)
    <2> HIDE DEF B, n
    <2> QED BY <1>6, <1>7, <1>10, ConvertNear
  <1> HIDE DEF kids, request, B, c, changed
  <1>12. /\ mine.state = key[k].state /\ mine.amount = c.amount
         /\ mine.pct = IF c.pct = copy.pct THEN key[k].pct ELSE c.pct
    BY <1>5 DEF RowTypes, KeyRow
  <1> HIDE DEF mine
  <1>13. key'[k] = (IF changed THEN mine ELSE key[k]) /\ \A l \in Key \ {k} : key'[l] = key[l]
    BY <1>3, <1>5 DEF RowTypes
  <1> HIDE DEF keysNow
  <1>14. \A b \in App : KeysOf(b)' = KeysOf(b) /\ ActiveKeys(b)' = ActiveKeys(b)
    BY <1>12, <1>13 DEF KeysOf, ActiveKeys
  <1>15. \A l \in Key : key'[l].pct \in Nat /\ (Known(l)' => Known(l))
    BY <1>11, <1>12, <1>13 DEF RowsGood, PercentTypes, Known
  <1>16. ASSUME NEW b \in App, b # a PROVE KeysGood(b)'
    <2>1. \A l \in KeysOf(b) : l \in Key /\ l # k
      BY <1>16, <1>c DEF KeysOf
    <2>2. \A l \in ActiveKeys(b)' : l \in ActiveKeys(b) /\ key'[l].amount = key[l].amount /\ key'[l].pct = key[l].pct
      BY <1>13, <1>14, <2>1 DEF ActiveKeys
    <2>3. \A l \in KeysOf(b) : l \in behind => l \in behind'
      BY <1>4, <2>1
    <2> QED BY <1>3, <1>14, <2>2, <2>3, KeysKept DEF RowsGood
  <1>17. ASSUME NEW l \in ActiveKeys(a)', l # k, ~slipped', key'[l].amount > 0, l \notin behind' PROVE KeyNear(l)'
    <2>1. l \in Key /\ l \in ActiveKeys(a) /\ Owner[l] = a /\ key'[l] = key[l] /\ l \notin behind
      BY <1>4, <1>5, <1>13, <1>14, <1>17 DEF ActiveKeys, KeysOf
    <2>2. KeyNear(l)
      BY <1>3, <1>5, <1>17, <2>1 DEF RowsGood, KeysGood
    <2> QED BY <1>3, <1>5, <1>14, <2>1, <2>2 DEF KeyNear
  <1>18. CASE key[k] # copy
    <2>1. k \in behind' /\ k \in KeysOf(a)'
      BY <1>4, <1>5, <1>14, <1>18
    <2>2. ~(OrZero(app'[a].budget) = 0)
      BY <1>3, <1>6, <1>10 DEF B
    <2>3. KeysGood(a)'
      BY <1>17, <2>1, <2>2 DEF KeysGood
    <2> QED BY <1>3, <1>15, <1>16, <2>3, OnlyKeys
  <1>19. CASE key[k] = copy
    <2>1. key'[k].amount = c.amount
      BY <1>12, <1>13, <1>19 DEF changed
    <2>2. OrZero(app'[a].budget) = B
      BY <1>3, <1>6 DEF B
    <2>3. ActiveKeys(a)' \subseteq DOMAIN kids /\ DOMAIN kids \subseteq KeysOf(a)'
      BY <1>5, <1>9, <1>14, KeyCount
    <2>4. \A l \in DOMAIN kids : kids[l].amount \in Nat
      <3>1. \A l \in ActiveKeys(a) \cup {k} : key[l].amount \in Nat
        BY <1>5, KeyCount DEF RowTypes, KeyRow
      <3> QED BY <1>9, <1>19, <3>1
    <2>5. ResolveCode(B, kids, request) = "ok"
      BY <1>2 DEF KeysResolve
    <2>6. \A l \in ActiveKeys(a)' : key'[l].amount = Resolved(B, kids, request)[l].amount
      <3>1. ASSUME NEW l \in ActiveKeys(a), l # k PROVE key'[l].amount = Resolved(B, kids, request)[l].amount
        <4>1. Resolved(B, kids, request)[l] = [amount |-> kids[l].amount, pct |-> kids[l].pct]
          BY <1>8, <1>9, <3>1 DEF Resolved
        <4>2. l \in Key
          BY KeyCount
        <4> QED BY <1>9, <1>13, <3>1, <4>1, <4>2
      <3>2. Resolved(B, kids, request)[k].amount = c.amount
        <4>1. CASE changed
          BY <1>8, <1>9, <4>1 DEF Resolved, c, changed
        <4>2. CASE ~changed
          <5>1. Resolved(B, kids, request)[k] = [amount |-> kids[k].amount, pct |-> kids[k].pct]
            BY <1>8, <1>9, <4>2 DEF Resolved, c, changed
          <5> QED BY <1>9, <4>2, <5>1 DEF changed
        <4> QED BY <4>1, <4>2
      <3> QED BY <1>5, <1>14, <2>1, <3>1, <3>2
    <2>7. ASSUME NEW l \in ActiveKeys(a)', ~slipped', key'[l].amount > 0, B > 0, l \notin behind' PROVE KeyNear(l)'
      <3>1. CASE l # k
        BY <1>17, <2>7, <3>1
      <3>2. CASE l = k /\ changed
        <4>1. key'[k].pct = c.pct
          BY <1>12, <1>13, <1>19, <3>2
        <4> HIDE DEF n
        <4>2. Near(key'[k].pct, key'[k].amount, B, n)
          BY <1>11, <2>1, <4>1
        <4> QED BY <1>5, <1>14, <2>2, <3>2, <4>2, <1>c DEF KeyNear, n
      <3>3. CASE l = k /\ ~changed
        <4>1. key'[k] = key[k] /\ k \notin behind /\ k \in ActiveKeys(a) /\ Owner[k] = a
          BY <1>4, <1>5, <1>13, <1>14, <1>19, <2>7, <3>3, <1>c
        <4>2. KeyNear(k)
          BY <1>3, <1>5, <2>7, <3>3, <4>1 DEF RowsGood, KeysGood
        <4> QED BY <1>3, <1>5, <1>14, <3>3, <4>1, <4>2 DEF KeyNear
      <3> QED BY <3>1, <3>2, <3>3
    <2>8. \A l \in DOMAIN request : request[l] \in AppInputs \cup KeyInputs
      BY <1>8
    <2>9. \A l \in ActiveKeys(a)' :
             ~slipped' /\ key'[l].amount > 0 /\ B > 0 /\ l \notin behind' => KeyNear(l)'
      BY <2>7
    <2>10. LevelAccepted(a, B, kids, request)
      BY <1>6, <2>2, <2>3, <2>4, <2>5, <2>6, <2>8, <2>9 DEF LevelAccepted
    <2>11. KeysGood(a)'
      BY <1>5, <2>10, KeysLevel
    <2> QED BY <1>3, <1>15, <1>16, <2>11, OnlyKeys
  <1> QED BY <1>18, <1>19

\* A row that is given the values it has is the same row.
LEMMA ResizedSame ==
    ASSUME NEW r, KeyRow(r), NEW c, c.amount = r.amount, c.pct = r.pct
    PROVE  Resized(r, c) = r
  <1>1. r = [f \in DOMAIN r |-> r[f]] /\ r["amount"] = c.amount /\ r["pct"] = c.pct
    BY DEF KeyRow
  <1> QED BY <1>1 DEF Resized

\* What a new amount cascades into: a key keeps what it had, when it is listed or the
\* application was not resized, or its percentage is near its amount.
LEMMA CascadeNear ==
    ASSUME NEW parent \in Nat, NEW children, NEW request, NEW resized \in BOOLEAN,
           IsFiniteSet(DOMAIN children), NEW n \in Nat, n > 0, Cardinality(DOMAIN children) <= n,
           \A k \in DOMAIN request : request[k] \in AppInputs \cup KeyInputs,
           \A k \in DOMAIN children : children[k].amount \in Nat /\ children[k].pct \in Nat,
           NEW k \in DOMAIN children, NEW r, r = Cascade(children, parent, request, resized)[k]
    PROVE  /\ r.amount = Resolved(parent, children, request)[k].amount /\ r.pct \in Nat
           /\ \/ /\ r.amount = children[k].amount /\ r.pct = children[k].pct
                 /\ k \in DOMAIN request \/ ~resized \/ children[k].amount = 0
              \/ parent > 0 => Near(r.pct, r.amount, parent, n)
  <1> DEFINE resolved == Resolved(parent, children, request)
             others == [l \in DOMAIN children \ DOMAIN request |-> children[l]]
             last == Oldest(Funded(others))
             pcts == Recompute(parent, others, last)
             same == [amount |-> children[k].amount, pct |-> children[k].pct]
             asked == Convert(request[k], parent)
             fresh == [amount |-> children[k].amount, pct |-> pcts[k]]
  <1>1. r = IF k \in DOMAIN request \/ ~resized THEN resolved[k] ELSE fresh
    BY DEF Cascade
  <1>2. resolved[k] = IF k \in DOMAIN request /\ asked.amount # children[k].amount THEN asked ELSE same
    BY DEF Resolved
  <1>3. same.amount = children[k].amount /\ same.pct = children[k].pct /\ children[k].pct \in Nat
        /\ children[k].amount \in Nat /\ fresh.amount = children[k].amount /\ fresh.pct = pcts[k]
    OBVIOUS
  <1>4. k \in DOMAIN request => asked.amount \in Nat /\ asked.pct \in Nat
                                /\ (parent > 0 => Near(asked.pct, asked.amount, parent, n))
    BY ConvertNear
  <1>5. ASSUME k \notin DOMAIN request
        PROVE  /\ pcts[k] \in Nat
               /\ children[k].amount = 0 => pcts[k] = children[k].pct
               /\ children[k].amount > 0 /\ parent > 0 => Near(pcts[k], children[k].amount, parent, n)
    <2>1. DOMAIN others = DOMAIN children \ DOMAIN request /\ \A l \in DOMAIN others : others[l] = children[l]
      OBVIOUS
    <2>2. IsFiniteSet(DOMAIN others) /\ Cardinality(DOMAIN others) <= n
      <3>1. DOMAIN others \in SUBSET DOMAIN children
        BY <2>1
      <3> HIDE DEF others
      <3> QED BY <3>1, PartCount, FS_CardinalityType
    <2>3. k \in DOMAIN others /\ \A l \in DOMAIN others : others[l].amount \in Nat
      BY <1>5, <2>1
    <2> HIDE DEF others, last, pcts
    <2>4. CASE children[k].amount > 0
      <3>1. k \in Funded(others) /\ others[k] = children[k]
        BY <2>1, <2>3, <2>4 DEF Funded
      <3> QED BY <1>3, <2>2, <2>3, <2>4, <3>1, RecomputeNear DEF pcts
    <2>5. CASE ~(children[k].amount > 0)
      <3>1. k \notin Funded(others) /\ others[k] = children[k]
        BY <2>1, <2>3, <2>5 DEF Funded
      <3>2. pcts[k] = children[k].pct
        BY <2>3, <3>1 DEF Recompute, pcts
      <3> QED BY <1>3, <2>5, <3>2
    <2> QED BY <2>4, <2>5
  <1> HIDE DEF resolved, pcts, asked, same, fresh
  <1>6. CASE k \in DOMAIN request \/ ~resized
    <2>1. r = resolved[k]
      BY <1>1, <1>6
    <2>2. CASE k \in DOMAIN request /\ asked.amount # children[k].amount
      <3>1. r = asked
        BY <1>2, <2>1, <2>2
      <3> QED BY <1>4, <2>1, <2>2, <3>1 DEF resolved
    <2>3. CASE ~(k \in DOMAIN request /\ asked.amount # children[k].amount)
      <3>1. r = same
        BY <1>2, <2>1, <2>3
      <3> QED BY <1>3, <1>6, <2>1, <3>1 DEF resolved
    <2> QED BY <2>2, <2>3
  <1>7. CASE ~(k \in DOMAIN request \/ ~resized)
    <2>1. r = fresh /\ resolved[k] = same
      BY <1>1, <1>2, <1>7
    <2>2. r.amount = children[k].amount /\ r.pct = pcts[k] /\ r.amount = resolved[k].amount
      BY <1>3, <2>1
    <2>3. CASE children[k].amount > 0
      BY <1>5, <1>7, <2>2, <2>3 DEF resolved
    <2>4. CASE children[k].amount = 0
      <3>1. pcts[k] \in Nat
        BY <1>5, <1>7
      <3>2. pcts[k] = children[k].pct
        BY <1>5, <1>7, <2>4
      <3> QED BY <2>2, <2>4, <3>1, <3>2 DEF resolved
    <2> QED BY <1>3, <2>3, <2>4
  <1> QED BY <1>6, <1>7

\* What the tenant's endpoint commits: applications, and the keys they cascade into.
LEMMA TenantAllocateFits ==
    ASSUME RowTypes, RowTypes', RowsGood, NEW w \in Worker, NEW request \in Rows(ActiveApps, AppInputs),
           NEW nested \in AtMostOne(UNION {ActiveKeys(a) : a \in DOMAIN request}, KeyInputs),
           TenantAllocate(w, request, nested)
    PROVE  RowsGood'
  <1> DEFINE Kids(seen) == AppChildren(seen)
             Resolution(seen) == Resolved(tenant, Kids(seen), request)
             Sized(seen) == Changed(tenant, Kids(seen), request)
             RowsOf(a) == [k \in {l \in DOMAIN nested : Owner[l] = a} |-> nested[k]]
             Touched(seen) == {a \in DOMAIN request : a \in Sized(seen) \/ DOMAIN RowsOf(a) # {}}
             Into(seen, a) == Cascade(KeyChildren(a, seen), Resolution(seen)[a].amount, RowsOf(a),
                                      a \in Sized(seen))
             Fresh(seen) == [a \in Touched(seen) |-> Into(seen, a)]
             Hit(seen) == UNION {ActiveKeys(a) : a \in Touched(seen)}
             New(seen, k) == Resized(key[k], Fresh(seen)[Owner[k]][k])
             KeysNow(seen) == [k \in Key |-> IF k \in Hit(seen) THEN New(seen, k) ELSE key[k]]
             AppNow(seen, a) == [status |-> "ACTIVE", budget |-> Resolution(seen)[a].amount,
                                 pct |-> Resolution(seen)[a].pct]
  <1>0. PICK seen \in {used, [k \in Key |-> 0]} :
           /\ tenant # Unset /\ DOMAIN request \subseteq ActiveApps
           /\ ResolveCode(tenant, Kids(seen), request) = "ok"
           /\ \A a \in Touched(seen) : KeysResolve(KeyChildren(a, seen), Resolution(seen)[a].amount, RowsOf(a))
           /\ app' = [a \in App |-> IF a \in Sized(seen) THEN AppNow(seen, a) ELSE app[a]]
           /\ WriteKeys(KeysNow(seen))
           /\ behind' = (behind \ {k \in Hit(seen) : key'[k] # key[k]})
                           \cup {k \in DOMAIN nested : Owner[k] \in Sized(seen) /\ key'[k] = key[k]}
           /\ UNCHANGED <<tenant, ledger, slipped, charges>>
    BY Zenon DEF TenantAllocate
  <1>1. /\ tenant # Unset /\ DOMAIN request \subseteq ActiveApps
        /\ ResolveCode(tenant, Kids(seen), request) = "ok"
        /\ \A a \in Touched(seen) : KeysResolve(KeyChildren(a, seen), Resolution(seen)[a].amount, RowsOf(a))
    BY <1>0, Zenon
  <1>2. /\ app' = [a \in App |-> IF a \in Sized(seen) THEN AppNow(seen, a) ELSE app[a]]
        /\ key' = KeysNow(seen) /\ UNCHANGED <<tenant, slipped>>
    BY <1>0, Zenon DEF WriteKeys
  <1>3. behind' = (behind \ {k \in Hit(seen) : key'[k] # key[k]})
                     \cup {k \in DOMAIN nested : Owner[k] \in Sized(seen) /\ key'[k] = key[k]}
    BY <1>0, Zenon
  <1>4. /\ \A a \in DOMAIN request : request[a] \in AppInputs
        /\ \A k \in DOMAIN nested : nested[k] \in KeyInputs
    BY RowsFacts
  <1>5. tenant \in Nat
    BY <1>1 DEF RowTypes, Amount
  <1> DEFINE kids == Kids(seen)
             resolved == Resolution(seen)
             sized == Sized(seen)
             touched == Touched(seen)
             hit == Hit(seen)
             fresh == Fresh(seen)
             A == ActiveApps
             n == Cardinality(CreatedApps)
  <1>6. /\ sized \subseteq DOMAIN request
        /\ \A a \in DOMAIN request : a \in sized <=> Convert(request[a], tenant).amount # kids[a].amount
    BY DEF Changed
  <1>7. DOMAIN kids = A /\ \A a \in A : kids[a].amount = OrZero(app[a].budget) /\ kids[a].amount \in Nat
    <2>1. DOMAIN kids = A /\ \A a \in A : kids[a].amount = OrZero(app[a].budget)
      BY DEF AppChildren
    <2>2. \A a \in A : OrZero(app[a].budget) \in Nat
      BY DEF ActiveApps, RowTypes, AppRow, Amount, OrZero
    <2> QED BY <2>1, <2>2
  <1>8. /\ \A a \in sized : resolved[a] = Convert(request[a], tenant)
        /\ \A a \in A \ sized : resolved[a] = [amount |-> kids[a].amount, pct |-> kids[a].pct]
    <2> HIDE DEF Kids, Sized
    <2> QED BY <1>1, <1>6, <1>7 DEF Resolved
  <1>9. \A a \in A : resolved[a].amount \in Nat
    <2>1. \A a \in DOMAIN request : request[a] \in AppInputs \cup KeyInputs
      BY <1>4
    <2> HIDE DEF Kids
    <2> QED BY <1>5, <1>7, <2>1, ResolvedAmount
  <1>10. A \in SUBSET App
    BY DEF ActiveApps
  <1>11. /\ touched = {a \in DOMAIN request : a \in sized \/ DOMAIN RowsOf(a) # {}}
         /\ hit = UNION {ActiveKeys(a) : a \in touched}
         /\ \A a \in touched : fresh[a] = Into(seen, a)
         /\ \A a : DOMAIN RowsOf(a) = {l \in DOMAIN nested : Owner[l] = a} /\ \A k \in DOMAIN RowsOf(a) : RowsOf(a)[k] = nested[k]
    OBVIOUS
  <1>12. \A a \in sized : /\ AppNow(seen, a).status = "ACTIVE" /\ AppNow(seen, a).budget = resolved[a].amount
                          /\ AppNow(seen, a).pct = resolved[a].pct
    OBVIOUS
  <1> HIDE DEF Kids, Resolution, Sized, Touched, Hit, Fresh, RowsOf
  <1>13. \A a \in App :
            IF a \in sized
            THEN app'[a].status = "ACTIVE" /\ app'[a].budget = resolved[a].amount /\ app'[a].pct = resolved[a].pct
            ELSE app'[a] = app[a]
    <2> HIDE DEF AppNow
    <2> QED BY <1>2, <1>12
  <1>14. A' = A /\ CreatedApps' = CreatedApps /\ IsFiniteSet(A)
    <2>1. sized \subseteq A
      BY <1>1, <1>6
    <2>2. A' = A /\ CreatedApps' = CreatedApps
      BY <1>13, <2>1 DEF ActiveApps, CreatedApps
    <2> QED BY <2>2, AppCount
  <1>15. \A a \in sized : resolved[a].pct \in Nat /\ \A m \in Nat : tenant > 0 /\ m > 0 => Near(resolved[a].pct, resolved[a].amount, tenant, m)
    BY <1>4, <1>5, <1>6, <1>8, ConvertNear
  <1>16. \A a \in A : OrZero(app'[a].budget) = resolved[a].amount
    <2>1. ASSUME NEW a \in A PROVE OrZero(app'[a].budget) = resolved[a].amount
      <3>1. CASE a \in sized
        <4>1. app'[a].budget = resolved[a].amount /\ resolved[a].amount # Unset
          BY <1>9, <1>10, <1>13, <3>1 DEF Unset
        <4> QED BY <4>1 DEF OrZero
      <3>2. CASE a \notin sized
        <4>1. app'[a] = app[a]
          BY <1>10, <1>13, <3>2
        <4>2. resolved[a] = [amount |-> kids[a].amount, pct |-> kids[a].pct]
          BY <1>8, <3>2
        <4> HIDE DEF resolved, kids
        <4>3. resolved[a].amount = kids[a].amount
          BY <4>2
        <4> QED BY <1>7, <4>1, <4>3
      <3> QED BY <3>1, <3>2
    <2> QED BY <2>1
  <1>17. AppsGood'
    <2> DEFINE g == [a \in A' |-> OrZero(app'[a].budget)]
    <2>1. SumOver(g, A') <= tenant' + n'
      <3>1. \A a \in DOMAIN kids : g[a] = Resolved(tenant, kids, request)[a].amount
        <4>1. resolved = Resolved(tenant, kids, request)
          BY DEF Resolution
        <4> QED BY <1>7, <1>14, <1>16, <4>1
      <3>2. \A a \in DOMAIN request : request[a] \in AppInputs \cup KeyInputs
        BY <1>4
      <3>3. IsFiniteSet(DOMAIN kids) /\ \A a \in DOMAIN kids : kids[a].amount \in Nat
        BY <1>7, <1>14
      <3>4. \A a \in A : g[a] \in Nat
        BY <1>9, <1>14, <1>16
      <3> HIDE DEF g, A
      <3>5. SumOver(g, A) <= tenant + Cardinality(A)
        BY <1>1, <1>5, <1>7, <3>1, <3>2, <3>3, ResolveFits
      <3>6. SumOver(g, A) \in Nat /\ Cardinality(A) \in Nat /\ Cardinality(A) <= n /\ n \in Nat
        <4>1. Cardinality(A) \in Nat /\ Cardinality(A) <= n /\ n \in Nat
          BY AppCount DEF A
        <4>2. Numbers(g, A)
          BY <3>4 DEF Numbers
        <4> QED BY <1>14, <4>1, <4>2, SumNat
      <3>7. SumOver(g, A) <= tenant + n
        BY <1>5, <3>5, <3>6
      <3> QED BY <1>2, <1>14, <3>7
    <2>2. ASSUME NEW a \in A', ~slipped', OrZero(app'[a].budget) > 0, tenant' > 0 PROVE AppNear(a)'
      <3>1. a \in A /\ a \in App /\ n \in Nat /\ n > 0
        BY <1>10, <1>14, AppCount
      <3>2. CASE a \in sized
        <4> HIDE DEF n
        <4>1. Near(app'[a].pct, app'[a].budget, tenant, n)
          BY <1>2, <1>13, <1>15, <2>2, <3>1, <3>2
        <4> QED BY <1>2, <1>14, <4>1 DEF AppNear, n
      <3>3. CASE a \notin sized
        <4>1. app'[a] = app[a]
          BY <1>13, <3>1, <3>3
        <4>2. AppNear(a)
          BY <1>1, <1>2, <2>2, <3>1, <4>1 DEF RowsGood, AppsGood
        <4> QED BY <1>2, <1>14, <4>1, <4>2 DEF AppNear
      <3> QED BY <3>2, <3>3
    <2>3. \A a \in A' : ~slipped' /\ OrZero(app'[a].budget) > 0 /\ tenant' > 0 => AppNear(a)'
      BY <2>2
    <2> QED BY <1>1, <1>2, <2>1, <2>3, AppsChecked
  \* The keys of a touched application.
  <1>18. ASSUME NEW a \in touched, NEW k \in ActiveKeys(a)
         PROVE  LET r == fresh[a][k]
                    P == resolved[a].amount
                IN  /\ r.amount = Resolved(P, KeyChildren(a, seen), RowsOf(a))[k].amount /\ r.pct \in Nat
                    /\ \/ /\ r.amount = key[k].amount /\ r.pct = key[k].pct
                          /\ k \in DOMAIN RowsOf(a) \/ a \notin sized \/ key[k].amount = 0
                       \/ P > 0 => Near(r.pct, r.amount, P, Cardinality(KeysOf(a)))
    <2> DEFINE ch == KeyChildren(a, seen)
               P == resolved[a].amount
               m == Cardinality(KeysOf(a))
               r == fresh[a][k]
    <2>1. /\ DOMAIN ch = ActiveKeys(a)
          /\ \A l \in ActiveKeys(a) : ch[l].amount = key[l].amount /\ ch[l].pct = key[l].pct
      BY DEF KeyChildren
    <2>2. \A l \in DOMAIN ch : ch[l].amount \in Nat /\ ch[l].pct \in Nat
      BY <2>1, KeyCount DEF RowTypes, KeyRow, RowsGood, PercentTypes
    <2>3. IsFiniteSet(DOMAIN ch) /\ m \in Nat /\ m > 0 /\ Cardinality(DOMAIN ch) <= m
      BY <2>1, KeyCount
    <2>4. P \in Nat
      BY <1>1, <1>9, <1>11
    <2>5. \A l \in DOMAIN RowsOf(a) : RowsOf(a)[l] \in AppInputs \cup KeyInputs
      BY <1>4, <1>11
    <2>6. r = Cascade(ch, P, RowsOf(a), a \in sized)[k]
      BY <1>11
    <2> HIDE DEF ch, P, m, r, sized
    <2>7. PICK z \in BOOLEAN : (z <=> a \in sized) /\ r = Cascade(ch, P, RowsOf(a), z)[k]
      <3>1. (a \in sized) \in BOOLEAN
        OBVIOUS
      <3>2. \E z \in BOOLEAN : (z <=> a \in sized) /\ r = Cascade(ch, P, RowsOf(a), z)[k]
        <4> WITNESS (a \in sized) \in BOOLEAN
        <4> QED BY <2>6, Zenon
      <3> QED BY <3>2, Zenon
    <2>8. /\ r.amount = Resolved(P, ch, RowsOf(a))[k].amount /\ r.pct \in Nat
          /\ \/ /\ r.amount = ch[k].amount /\ r.pct = ch[k].pct
                /\ k \in DOMAIN RowsOf(a) \/ ~(a \in sized) \/ ch[k].amount = 0
             \/ P > 0 => Near(r.pct, r.amount, P, m)
      BY <2>1, <2>2, <2>3, <2>4, <2>5, <2>7, CascadeNear
    <2> QED BY <2>1, <2>8 DEF ch, P, m, r
  <1>19. \A k \in Key : IF k \in hit
                        THEN /\ key'[k] = Resized(key[k], fresh[Owner[k]][k]) /\ Owner[k] \in touched
                             /\ k \in ActiveKeys(Owner[k])
                        ELSE key'[k] = key[k]
    <2>1. \A k \in hit : Owner[k] \in touched /\ k \in ActiveKeys(Owner[k])
      BY <1>11 DEF ActiveKeys, KeysOf
    <2> QED BY <1>2, <2>1
  <1>20. \A k \in hit : k \in Key => /\ key'[k].amount = fresh[Owner[k]][k].amount /\ key'[k].pct = fresh[Owner[k]][k].pct
                                     /\ key'[k].state = key[k].state
    BY <1>19, ResizedBoth DEF RowTypes
  <1>21. \A b \in App : KeysOf(b)' = KeysOf(b) /\ ActiveKeys(b)' = ActiveKeys(b)
    BY <1>19, <1>20 DEF KeysOf, ActiveKeys
  <1>22. PercentTypes' /\ InactiveReleased' /\ Founded'
    <2>1. \A a \in App : app'[a].pct \in Int
      BY <1>13, <1>15 DEF RowsGood, PercentTypes
    <2>2. \A k \in Key : key'[k].pct \in Nat /\ key'[k].state = key[k].state
      <3>1. ASSUME NEW k \in Key PROVE key'[k].pct \in Nat /\ key'[k].state = key[k].state
        <4>1. CASE k \in hit
          BY <1>18, <1>19, <1>20, <4>1
        <4>2. CASE k \notin hit
          BY <1>19, <4>2 DEF RowsGood, PercentTypes
        <4> QED BY <4>1, <4>2
      <3> QED BY <3>1
    <2>3. PercentTypes'
      BY <2>1, <2>2 DEF PercentTypes
    <2>4. InactiveReleased'
      BY <1>2, <1>13 DEF RowsGood, InactiveReleased
    <2>5. Founded'
      BY <1>13, <2>2, AllocationAssumption DEF RowsGood, Founded, Known
    <2> QED BY <2>3, <2>4, <2>5
  <1>23. ASSUME NEW a \in App, a \notin touched PROVE KeysGood(a)'
    <2>1. \A k \in KeysOf(a) : k \in Key /\ k \notin hit
      BY <1>19, <1>23 DEF KeysOf
    <2>2. \A k \in ActiveKeys(a)' : k \in ActiveKeys(a) /\ key'[k].amount = key[k].amount /\ key'[k].pct = key[k].pct
      BY <1>19, <1>21, <2>1 DEF ActiveKeys
    <2>3. \A k \in KeysOf(a) : k \in behind => k \in behind'
      BY <1>3, <2>1
    <2>4. app'[a] = app[a]
      BY <1>6, <1>11, <1>13, <1>23
    <2> QED BY <1>2, <1>21, <2>2, <2>3, <2>4, KeysKept DEF RowsGood
  <1>24. ASSUME NEW a \in App, a \in touched PROVE KeysGood(a)'
    <2> DEFINE ch == KeyChildren(a, seen)
               P == resolved[a].amount
               m == Cardinality(KeysOf(a))
               rowsOf == RowsOf(a)
    <2>1. DOMAIN ch = ActiveKeys(a) /\ \A l \in ActiveKeys(a) : ch[l].amount = key[l].amount
      BY DEF KeyChildren
    <2>2. \A l \in DOMAIN ch : ch[l].amount \in Nat
      BY <2>1, KeyCount DEF RowTypes, KeyRow
    <2>3. a \in A /\ P \in Nat /\ OrZero(app'[a].budget) = P
      BY <1>1, <1>9, <1>11, <1>16, <1>24
    <2>4. \A l \in DOMAIN rowsOf : rowsOf[l] \in AppInputs \cup KeyInputs
      BY <1>4, <1>11
    <2>5. ResolveCode(P, ch, rowsOf) = "ok"
      BY <1>1, <1>24 DEF KeysResolve
    <2>6. ActiveKeys(a)' \subseteq DOMAIN ch /\ DOMAIN ch \subseteq KeysOf(a)'
      BY <1>21, <2>1, KeyCount
    <2>7. \A k \in ActiveKeys(a) : k \in hit /\ k \in Key /\ Owner[k] = a
      BY <1>11, <1>24 DEF ActiveKeys, KeysOf
    <2>8. \A k \in ActiveKeys(a)' : key'[k].amount = Resolved(P, ch, rowsOf)[k].amount
      BY <1>18, <1>20, <1>21, <1>24, <2>7
    <2>9. ASSUME NEW k \in ActiveKeys(a)', ~slipped', key'[k].amount > 0, P > 0, k \notin behind' PROVE KeyNear(k)'
      <3>1. k \in ActiveKeys(a) /\ k \in hit /\ k \in Key /\ Owner[k] = a
        BY <1>21, <2>7
      <3> DEFINE r == fresh[a][k]
      <3>2. key'[k].amount = r.amount /\ key'[k].pct = r.pct /\ key'[k] = Resized(key[k], r)
        BY <1>19, <1>20, <3>1
      <3> HIDE DEF r
      <3>3. CASE r.amount = key[k].amount /\ r.pct = key[k].pct
                 /\ (k \in DOMAIN RowsOf(a) \/ a \notin sized \/ key[k].amount = 0)
        <4>1. key'[k] = key[k]
          BY <3>1, <3>2, <3>3, ResizedSame DEF RowTypes
        <4>2. k \notin behind /\ ~(k \in DOMAIN nested /\ Owner[k] \in sized)
          BY <1>3, <2>9, <4>1
        <4>3. a \notin sized
          <5>1. key[k].amount # 0
            BY <2>9, <4>1
          <5> QED BY <1>11, <3>1, <3>3, <4>2, <5>1
        <4>4. app'[a] = app[a]
          BY <1>13, <4>3
        <4>5. KeyNear(k)
          BY <1>2, <2>9, <3>1, <4>1, <4>2 DEF RowsGood, KeysGood
        <4> QED BY <1>21, <3>1, <4>1, <4>4, <4>5 DEF KeyNear
      <3>4. CASE P > 0 => Near(r.pct, r.amount, P, m)
        <4>1. Near(key'[k].pct, key'[k].amount, P, m)
          BY <2>9, <3>2, <3>4
        <4> HIDE DEF P
        <4> QED BY <1>21, <2>3, <3>1, <4>1 DEF KeyNear
      <3> QED BY <1>18, <1>24, <3>1, <3>3, <3>4 DEF r
    <2>10. \A k \in ActiveKeys(a)' :
              ~slipped' /\ key'[k].amount > 0 /\ P > 0 /\ k \notin behind' => KeyNear(k)'
      BY <2>9
    <2> HIDE DEF P, ch, rowsOf, m, A
    <2>11. LevelAccepted(a, P, ch, rowsOf)
      BY <2>2, <2>3, <2>4, <2>5, <2>6, <2>8, <2>10 DEF LevelAccepted
    <2> QED BY <1>24, <2>11, KeysLevel
  <1> QED BY <1>17, <1>22, <1>23, <1>24 DEF RowsGood

-----------------------------------------------------------------------------
(* Allocations: what fits, in every state                                   *)

\* A commit leaves the other requests' targets and writes as they are.
LEMMA FollowUpZeroes ==
    ASSUME ZeroesItsOwn, RequestForms, NEW w \in Worker, NEW writes, NEW seen, FollowUp(w, writes, seen)
    PROVE  ZeroesItsOwn'
  <1> DEFINE keys == DOMAIN writes
             mine == IF keys = {} THEN Ready
                     ELSE [Ready EXCEPT !.pc = "snapshot", !.writes = writes,
                                        !.seen = [k \in keys |-> seen[k]],
                                        !.clean = {k \in keys \ UNION {DOMAIN req[u].writes : u \in {v \in Worker \ {w} : Following(v)}} :
                                                      seen[k] = used[k]}]
  <1>1. req' = [u \in Worker |-> IF u # w THEN Disturb(req[u], keys) ELSE mine]
    BY Zenon DEF FollowUp
  <1>2. mine.pc \notin {"zero", "deactivate"}
    <2>1. mine.pc \in {"ready", "snapshot"}
      BY DEF Ready
    <2> QED BY <2>1
  <1> HIDE DEF mine
  <1>3. \A u \in Worker : LET r == Disturb(req[u], keys)
                          IN  r.pc = req[u].pc /\ r.target = req[u].target /\ r.writes = req[u].writes
    BY DEF RequestForms, FormOf, Disturb
  <1>4. ASSUME NEW u \in Worker, req'[u].pc \in {"zero", "deactivate"}
        PROVE  req'[u].pc = req[u].pc /\ req'[u].target = req[u].target /\ req'[u].writes = req[u].writes
    BY <1>1, <1>2, <1>3, <1>4
  <1> QED BY <1>4 DEF ZeroesItsOwn

\* A step that moves one request to a place where nothing is zeroed.
LEMMA OtherPlaces ==
    ASSUME ZeroesItsOwn, NEW w \in Worker, \A u \in Worker \ {w} : req'[u] = req[u],
           req'[w].pc \in {"zero", "deactivate"} => req'[w] = req[w]
    PROVE  ZeroesItsOwn'
  BY DEF ZeroesItsOwn

\* Every step keeps what a deactivation has to zero.
LEMMA ZeroesStep ==
    ASSUME LedgerInv, ZeroesItsOwn, [Next]_vars
    PROVE  ZeroesItsOwn'
  <1>0. RequestForms
    BY DEF LedgerInv, AllocationTypes
  <1>1. ASSUME UNCHANGED req PROVE ZeroesItsOwn'
    BY <1>1 DEF ZeroesItsOwn
  <1>2. ASSUME NEW w \in Worker, Administer(w) PROVE ZeroesItsOwn'
    <2>1. ASSUME NEW a \in App, NEW pct, CreateApplication(w, a, pct) PROVE ZeroesItsOwn'
      BY <1>1, <2>1 DEF CreateApplication
    <2>2. ASSUME NEW a \in App, Activate(w, a) PROVE ZeroesItsOwn'
      BY <1>1, <2>2 DEF Activate
    <2>3. ASSUME NEW a \in App, DeactivateRead(w, a) PROVE ZeroesItsOwn'
      <3> DEFINE r == [Ready EXCEPT !.pc = "zero", !.target = a, !.copy = app[a]]
      <3>1. req' = [req EXCEPT ![w] = r]
        BY <2>3, Zenon DEF DeactivateRead
      <3>2. r.pc = "zero" /\ r.target = a
        BY DEF Ready
      <3> HIDE DEF r
      <3>3. req'[w] = r /\ \A u \in Worker \ {w} : req'[u] = req[u]
        BY <1>0, <3>1 DEF RequestForms
      <3> QED BY <3>2, <3>3 DEF ZeroesItsOwn
    <2>4. ASSUME NEW a \in App, NEW request, ApplicationAllocate(w, a, request) PROVE ZeroesItsOwn'
      <3>1. \E writes, seen : FollowUp(w, writes, seen)
        BY <2>4, Zenon DEF ApplicationAllocate
      <3> QED BY <1>0, <3>1, FollowUpZeroes
    <2>5. ASSUME NEW request, NEW nested, TenantAllocate(w, request, nested) PROVE ZeroesItsOwn'
      <3>1. \E writes, seen : FollowUp(w, writes, seen)
        BY <2>5, Zenon DEF TenantAllocate
      <3> QED BY <1>0, <3>1, FollowUpZeroes
    <2>6. ASSUME NEW k \in Key, SingleRead(w, k) PROVE ZeroesItsOwn'
      <3> DEFINE r == [Ready EXCEPT !.pc = "single", !.target = k, !.row = key[k]]
      <3>1. req' = [req EXCEPT ![w] = r]
        BY <2>6, Zenon DEF SingleRead
      <3>2. r.pc = "single"
        BY DEF Ready
      <3> HIDE DEF r
      <3>3. req'[w] = r /\ \A u \in Worker \ {w} : req'[u] = req[u]
        BY <1>0, <3>1 DEF RequestForms
      <3> QED BY <3>2, <3>3, OtherPlaces
    <2>7. ASSUME NEW k \in Key, RevokeKey(w, k) PROVE ZeroesItsOwn'
      BY <1>1, <2>7 DEF RevokeKey
    <2>8. ASSUME NEW k \in Key, NEW input, CreateKey(w, k, input) PROVE ZeroesItsOwn'
      <3> DEFINE r == [Ready EXCEPT !.pc = "seed",
                          !.writes = [l \in {k} |-> Convert(input, app[Owner[k]].budget).amount], !.clean = {k}]
      <3>1. req' = [req EXCEPT ![w] = r]
        BY <2>8, Zenon DEF CreateKey
      <3>2. r.pc = "seed"
        BY DEF Ready
      <3> HIDE DEF r
      <3>3. req'[w] = r /\ \A u \in Worker \ {w} : req'[u] = req[u]
        BY <1>0, <3>1 DEF RequestForms
      <3> QED BY <3>2, <3>3, OtherPlaces
    <2>9. ASSUME NEW amount, ReviseBudget(w, amount) PROVE ZeroesItsOwn'
      <3>1. req' = [req EXCEPT ![w].pc = "wallet", ![w].target = RevisedBudget(amount)]
        BY <2>9, Zenon DEF ReviseBudget
      <3>2. req'[w].pc = "wallet" /\ \A u \in Worker \ {w} : req'[u] = req[u]
        BY <1>0, <3>1 DEF RequestForms, FormOf
      <3> QED BY <3>2, OtherPlaces
    <2> QED BY <1>2, <2>1, <2>2, <2>3, <2>4, <2>5, <2>6, <2>7, <2>8, <2>9, Zenon DEF Administer
  <1>3. ASSUME NEW w \in Worker, Finish(w) PROVE ZeroesItsOwn'
    <2>1. ASSUME DeactivateZero(w) PROVE ZeroesItsOwn'
      <3> DEFINE a == req[w].target
                 writes == [k \in ActiveKeys(a) |-> 0]
      <3>1. req[w].pc = "zero" /\ req' = [req EXCEPT ![w].pc = "deactivate", ![w].writes = writes]
        BY <2>1, Zenon DEF DeactivateZero
      <3>2. DOMAIN writes = ActiveKeys(a) /\ \A k \in ActiveKeys(a) : Owner[k] = a
        BY DEF ActiveKeys, KeysOf
      <3>3. a \in App
        BY <3>1 DEF ZeroesItsOwn
      <3> HIDE DEF writes
      <3>4. /\ req'[w].target = a /\ req'[w].writes = writes
            /\ \A u \in Worker \ {w} : req'[u] = req[u]
        BY <1>0, <3>1 DEF RequestForms, FormOf
      <3> QED BY <3>2, <3>3, <3>4 DEF ZeroesItsOwn
    <2>2. ASSUME DeactivateCommit(w) PROVE ZeroesItsOwn'
      <3>1. FollowUp(w, req[w].writes, used)
        BY <2>2, Zenon DEF DeactivateCommit
      <3> QED BY <1>0, <3>1, FollowUpZeroes
    <2>3. ASSUME NEW input, SingleCommit(w, input) PROVE ZeroesItsOwn'
      <3>1. \E writes, seen : FollowUp(w, writes, seen)
        BY <2>3, Zenon DEF SingleCommit
      <3> QED BY <1>0, <3>1, FollowUpZeroes
    <2>4. ASSUME req' = [req EXCEPT ![w] = Ready] PROVE ZeroesItsOwn'
      <3>1. req'[w].pc = "ready" /\ \A u \in Worker \ {w} : req'[u] = req[u]
        BY <1>0, <2>4 DEF RequestForms, Ready
      <3> QED BY <3>1, OtherPlaces
    <2>5. ASSUME \/ GiveUp(w) \/ SyncFlags(w) \/ SeedDone(w)
                 \/ WalletExhaust(w) \/ WalletClear(w) \/ WalletFails(w)
          PROVE  ZeroesItsOwn'
      <3>1. req' = [req EXCEPT ![w] = Ready]
        BY <2>5, Zenon DEF GiveUp, SyncFlags, SeedDone, WalletExhaust, WalletClear, WalletFails, Settle
      <3> QED BY <2>4, <3>1
    <2>8. ASSUME WalletRead(w) PROVE ZeroesItsOwn'
      <3> DEFINE busy == UNION {DOMAIN req[u].writes : u \in {v \in Worker : Following(v)}}
                 out == [Ready EXCEPT !.pc = "exhaust"]
                 room == [Ready EXCEPT !.pc = "clear", !.writes = [k \in Below |-> 0],
                                       !.clean = Below \ busy]
      <3>1. req' = [req EXCEPT ![w] = out] \/ req' = [req EXCEPT ![w] = room]
        BY <2>8 DEF WalletRead
      <3>a. out.pc = "exhaust" /\ room.pc = "clear"
        BY DEF Ready
      <3> HIDE DEF busy, out, room
      <3>2. req'[w].pc \in {"exhaust", "clear"} /\ \A u \in Worker \ {w} : req'[u] = req[u]
        BY <1>0, <3>1, <3>a DEF RequestForms
      <3> QED BY <3>2, OtherPlaces
    <2>6. ASSUME WriteSnapshot(w) PROVE ZeroesItsOwn'
      <3>1. req' = [req EXCEPT ![w].pc = IF @ = "seed" THEN "done" ELSE "flags"]
        BY <2>6, Zenon DEF WriteSnapshot
      <3>2. req'[w].pc \in {"done", "flags"} /\ \A u \in Worker \ {w} : req'[u] = req[u]
        BY <1>0, <3>1 DEF RequestForms, FormOf
      <3> QED BY <3>2, OtherPlaces
    <2>7. ASSUME SnapshotFails(w) PROVE ZeroesItsOwn'
      <3>1. req' = [req EXCEPT ![w].pc = IF @ = "seed" THEN "done" ELSE "flags", ![w].clean = {}]
        BY <2>7, Zenon DEF SnapshotFails
      <3>2. req'[w].pc \in {"done", "flags"} /\ \A u \in Worker \ {w} : req'[u] = req[u]
        BY <1>0, <3>1 DEF RequestForms, FormOf
      <3> QED BY <3>2, OtherPlaces
    <2> QED BY <1>3, <2>1, <2>2, <2>3, <2>5, <2>6, <2>7, <2>8, Zenon DEF Finish
  <1>4. ASSUME NEW k \in Key, Bill(k) PROVE ZeroesItsOwn'
    <2>1. req' = [w \in Worker |-> Disturb(req[w], {k})]
      BY <1>4, Zenon DEF Bill
    <2>2. \A u \in Worker : /\ req'[u].pc = req[u].pc /\ req'[u].target = req[u].target
                            /\ req'[u].writes = req[u].writes
      BY <1>0, <2>1 DEF RequestForms, FormOf, Disturb
    <2> QED BY <2>2 DEF ZeroesItsOwn
  <1>5. ASSUME UNCHANGED vars PROVE ZeroesItsOwn'
    BY <1>1, <1>5 DEF vars
  <1>6. ASSUME NEW k \in Key, PushFlag(k) \/ PushFails(k) PROVE ZeroesItsOwn'
    BY <1>1, <1>6 DEF PushFlag, PushFails
  <1> QED BY <1>2, <1>3, <1>4, <1>5, <1>6 DEF Next

\* Every step keeps what fits.
LEMMA FitStep ==
    ASSUME FitInv, [Next]_vars
    PROVE  FitInv'
  <1>1. LedgerInv' /\ ZeroesItsOwn'
    BY LedgerStep, ZeroesStep DEF FitInv
  <1>2. /\ RowTypes /\ RowTypes' /\ LedgerTypes /\ RequestForms /\ KnownKeys /\ ZeroesItsOwn /\ RowsGood
    BY <1>1 DEF FitInv, LedgerInv, AllocationTypes
  <1>3. ASSUME UNCHANGED <<tenant, app, key, slipped, behind>> PROVE RowsGood'
    BY <1>2, <1>3, LedgerOnly
  <1>4. ASSUME NEW w \in Worker, Administer(w) PROVE RowsGood'
    <2>1. ASSUME NEW a \in App, NEW pct \in Shares \cup {Unset}, CreateApplication(w, a, pct) PROVE RowsGood'
      BY <1>2, <2>1, CreateApplicationFits
    <2>2. ASSUME NEW a \in App, Activate(w, a) PROVE RowsGood'
      BY <1>2, <2>2, ActivateFits
    <2>3. ASSUME NEW a \in App, DeactivateRead(w, a) PROVE RowsGood'
      BY <1>3, <2>3 DEF DeactivateRead, rows, history
    <2>4. ASSUME NEW a \in App, NEW request \in Rows(ActiveKeys(a), KeyInputs), ApplicationAllocate(w, a, request)
          PROVE  RowsGood'
      BY <1>2, <2>4, ApplicationAllocateFits
    <2>5. ASSUME NEW request \in Rows(ActiveApps, AppInputs),
                 NEW nested \in AtMostOne(UNION {ActiveKeys(a) : a \in DOMAIN request}, KeyInputs),
                 TenantAllocate(w, request, nested)
          PROVE  RowsGood'
      BY <1>2, <2>5, TenantAllocateFits
    <2>6. ASSUME NEW k \in Key, SingleRead(w, k) PROVE RowsGood'
      BY <1>3, <2>6 DEF SingleRead, rows, history
    <2>7. ASSUME NEW k \in Key, RevokeKey(w, k) PROVE RowsGood'
      BY <1>2, <2>7, RevokeFits
    <2>8. ASSUME NEW k \in Key, NEW input \in KeyInputs, CreateKey(w, k, input) PROVE RowsGood'
      BY <1>2, <2>8, CreateKeyFits
    <2>9. ASSUME NEW amount \in {0, TopUp}, ReviseBudget(w, amount) PROVE RowsGood'
      BY <1>2, <2>9, ReviseFits
    <2> QED BY <1>4, <2>1, <2>2, <2>3, <2>4, <2>5, <2>6, <2>7, <2>8, <2>9, Zenon DEF Administer
  <1>5. ASSUME NEW w \in Worker, Finish(w) PROVE RowsGood'
    <2>1. ASSUME DeactivateCommit(w) PROVE RowsGood'
      BY <1>2, <2>1, DeactivateFits
    <2>2. ASSUME NEW input \in KeyInputs, SingleCommit(w, input) PROVE RowsGood'
      BY <1>2, <2>2, SingleFits
    <2>3. ASSUME DeactivateZero(w) \/ GiveUp(w) \/ WriteSnapshot(w) \/ SnapshotFails(w) PROVE RowsGood'
      <3>1. UNCHANGED rows /\ UNCHANGED history
        BY <2>3, Zenon DEF DeactivateZero, GiveUp, WriteSnapshot, SnapshotFails
      <3> QED BY <1>3, <3>1 DEF rows, history
    <2>4. ASSUME SyncFlags(w) \/ SeedDone(w) \/ WalletClear(w) PROVE RowsGood'
      <3>1. UNCHANGED rows /\ UNCHANGED <<slipped, behind>>
        BY <2>4 DEF SyncFlags, SeedDone, WalletClear
      <3> QED BY <1>3, <3>1 DEF rows
    <2>5. ASSUME WalletRead(w) \/ WalletExhaust(w) \/ WalletFails(w) PROVE RowsGood'
      <3>1. UNCHANGED rows /\ UNCHANGED history
        BY <2>5 DEF WalletRead, WalletExhaust, WalletFails
      <3> QED BY <1>3, <3>1 DEF rows, history
    <2> QED BY <1>5, <2>1, <2>2, <2>3, <2>4, <2>5, Zenon DEF Finish
  <1>6. ASSUME NEW k \in Key, Bill(k) \/ PushFlag(k) \/ PushFails(k) PROVE RowsGood'
    BY <1>3, <1>6 DEF Bill, PushFlag, PushFails, rows, history
  <1>7. ASSUME UNCHANGED vars PROVE RowsGood'
    BY <1>3, <1>7 DEF vars
  <1>8. RowsGood'
    BY <1>4, <1>5, <1>6, <1>7 DEF Next
  <1> QED BY <1>1, <1>8 DEF FitInv

\* It holds when nothing is allocated.
LEMMA FitInit == ASSUME Init PROVE ZeroesItsOwn /\ RowsGood
  <1>1. /\ \A a \in App : app[a].status = "none" /\ app[a].budget = Unset /\ app[a].pct \in Int
        /\ \A k \in Key : ~Known(k) /\ key[k].pct \in Nat
        /\ \A w \in Worker : req[w].pc = "ready"
    BY DEF Init, NoApp, NoKey, Known, Ready, Unset
  <1>2. ActiveApps = {} /\ \A a \in App : KeysOf(a) = {} /\ ActiveKeys(a) = {}
    BY <1>1 DEF ActiveApps, KeysOf, ActiveKeys, Known
  <1>3. ZeroesItsOwn /\ PercentTypes /\ InactiveReleased /\ Founded
    BY <1>1 DEF ZeroesItsOwn, PercentTypes, InactiveReleased, Founded
  <1>4. AppsGood
    <2>1. ASSUME tenant # Unset PROVE AppsFit
      <3> DEFINE f == [a \in ActiveApps |-> OrZero(app[a].budget)]
      <3>1. Total(f, ActiveApps) = 0
        BY <1>2, TotalIsSum, SumEmpty
      <3>2. tenant \in Nat /\ Cardinality(CreatedApps) \in Nat
        BY <2>1, AllocationAssumption, AppCount DEF Init
      <3> HIDE DEF f
      <3>3. Total(f, ActiveApps) <= tenant + Cardinality(CreatedApps)
        BY <3>1, <3>2
      <3> QED BY <3>3 DEF AppsFit, f
    <2> QED BY <1>2, <2>1 DEF AppsGood
  <1>5. ASSUME NEW a \in App PROVE KeysGood(a)
    <2> DEFINE f == [k \in ActiveKeys(a) |-> key[k].amount]
               n == Cardinality(KeysOf(a))
    <2>1. Total(f, ActiveKeys(a)) = 0 /\ n \in Nat /\ OrZero(app[a].budget) = 0
      BY <1>1, <1>2, TotalIsSum, SumEmpty, KeyCount DEF OrZero
    <2> HIDE DEF f, n
    <2>2. Total(f, ActiveKeys(a)) * Hundred <= (OrZero(app[a].budget) + n) * Hundred + n * OrZero(app[a].budget)
      BY <2>1 DEF Hundred
    <2>3. KeysFit(a)
      BY <2>2 DEF KeysFit, f, n
    <2> QED BY <1>2, <2>3 DEF KeysGood
  <1> QED BY <1>3, <1>4, <1>5 DEF RowsGood

\* No sequence of allocations, revisions, creations and deactivations gives the children
\* more than their parent and the roundings that the checks tolerate, however many
\* applications, keys and requests there are and whatever the amounts, unless a
\* deactivation released less than it meant to.
THEOREM ChildrenWithinParentAlways == Spec => []ChildrenWithinParent
  <1>1. Init => FitInv
    BY LedgerInit, FitInit DEF FitInv
  <1>2. FitInv /\ [Next]_vars => FitInv'
    BY FitStep
  <1>3. FitInv => ChildrenWithinParent
    BY FitHolds
  <1> QED BY <1>1, <1>2, <1>3, PTL DEF Spec

\* The stored percentage of a funded child stays its amount's share of the parent to the
\* roundings of its siblings: resizing, revising and cascading never let them drift apart.
THEOREM PercentFollowsAmountAlways == Spec => []PercentFollowsAmount
  <1>1. Init => FitInv
    BY LedgerInit, FitInit DEF FitInv
  <1>2. FitInv /\ [Next]_vars => FitInv'
    BY FitStep
  <1>3. FitInv => PercentFollowsAmount
    BY FitHolds
  <1> QED BY <1>1, <1>2, <1>3, PTL DEF Spec

\* Values and days can be told apart: a key can be rotated, and lives for a day.
KeySettings == MaxValues \in Nat \ {0, 1} /\ Lifetime \in Nat \ {0}

-----------------------------------------------------------------------------
(* A key's values: types                                                    *)

KeyRows == [active : BOOLEAN, value : K!Value, rotated : K!Value \cup {K!NoValue},
            window : Nat, expires : Nat]
CacheEntries == [kind : {"absent", "payload", "tombstone"}, exp : Nat]

Listed(list, v) == \E i \in 1..Len(list) : list[i] = v

Ops == K!KeyRequests \cup {"none", "validate", "ACTIVE", "SUSPENDED", "DEACTIVATED"}
Stages == {"idle", "lookup", "rehydrate", "tombstone", "begin", "reread", "eligible", "commit",
           "fill", "drop", "recheck", "evict", "refresh", "clear"}
Handling == [op : Ops, pc : Stages, copy : KeyRows, left : Seq(K!Value),
             token : K!Value \cup {K!NoValue}, until : Nat]

LifeTypes ==
    /\ row \in KeyRows /\ now \in Nat
    /\ redis \in [K!Value -> CacheEntries]
    /\ tainted \in [K!Value -> BOOLEAN]
    /\ worker \in [Worker -> Handling]

\* What a request holds where it has got to.
KeyPlace(r) ==
    /\ r.op = "none" => r.pc = "idle"
    /\ r.op = "validate" => r.pc \in {"lookup", "rehydrate", "tombstone"} /\ r.token \in K!Value
    /\ r.op = "rotate" /\ r.pc = "reread" => r.token < row.value
    /\ r.pc = "rehydrate" => r.copy.active /\ r.token \in {r.copy.value, r.copy.rotated}
    /\ r.pc \in {"fill", "evict"} => r.left # <<>>
    /\ r.pc = "fill" => \A v \in K!Value : Listed(r.left, v) => v \in {r.copy.value, r.copy.rotated}
    /\ r.pc = "fill" /\ r.op # "rotate" => r.copy.active

KeyPlaces == \A w \in Worker : KeyPlace(worker[w])

\* The previous value is an older one, and Redis has expired what is due.
EntriesInv ==
    /\ row.rotated < row.value
    /\ \A v \in K!Value : redis[v].kind = "payload" => redis[v].exp > now

-----------------------------------------------------------------------------
(* A key's values: who answers for an entry                                 *)

\* The row accepts the value for as long as the entry lasts, status apart.
Fits(v) ==
    /\ row.expires > now
    /\ v = row.value \/ (v = row.rotated /\ row.window > now)
    /\ redis[v].exp <= K!CacheDeadline(row, v)

\* A request that will still look at the status and delete the entries of the row.
MindsStatus(r) ==
    \/ r.op = "rotate" /\ r.pc \in {"reread", "fill", "drop", "recheck"}
    \/ r.op = "revoke" /\ r.pc = "reread"
    \/ row.active /\ r.op \in {"SUSPENDED", "DEACTIVATED"} /\ r.pc = "begin"

\* A request that will still delete, rewrite or give up the entry.
MindsEntry(r, v) ==
    \/ r.pc \in {"fill", "evict"} /\ Listed(r.left, v)
    \/ /\ r.op = "update" /\ r.pc = "eligible"
       /\ v = r.copy.value \/ (v = r.copy.rotated /\ r.copy.window >= r.copy.expires)
    \/ /\ r.op = "rotate" /\ r.pc = "reread" /\ v = r.token
       /\ row.rotated # v \/ row.window <= row.expires \/ redis[v].exp <= row.expires
    \/ r.op = "rotate" /\ r.pc \in {"fill", "drop"} /\ v = r.token /\ r.copy.window <= now

Cover(v) ==
    \/ /\ Fits(v)
       /\ (row.active /\ tenantStatus = "ACTIVE") \/ (\E w \in Worker : MindsStatus(worker[w]))
    \/ \E w \in Worker : MindsEntry(worker[w], v)

Minded == \A v \in K!Value : redis[v].kind = "payload" /\ ~tainted[v] => Cover(v)

LifeInv == LifeTypes /\ KeyPlaces /\ EntriesInv /\ Minded

-----------------------------------------------------------------------------
(* A key's values: how a request's record changes                           *)

OthersStay(w) == \A u \in Worker : u # w => worker'[u] = worker[u]

\* The request stands there, and the others where they stood.
Stands(w, op, pc, copy, left, token) ==
    /\ worker' \in [Worker -> Handling]
    /\ OthersStay(w)
    /\ worker'[w].op = op
    /\ worker'[w].pc = pc
    /\ worker'[w].copy = copy
    /\ worker'[w].left = left
    /\ worker'[w].token = token

\* Moving on keeps everything else of the request.
LEMMA GotoStands ==
    ASSUME LifeTypes, NEW w \in Worker, NEW pc \in Stages, K!Goto(w, pc)
    PROVE  Stands(w, worker[w].op, pc, worker[w].copy, worker[w].left, worker[w].token)
BY DEF LifeTypes, Handling, K!Goto, Stands, OthersStay

\* A worker that has finished is idle.
LEMMA DoneStands ==
    ASSUME KeySettings, LifeTypes, NEW w \in Worker, K!Done(w)
    PROVE  Stands(w, "none", "idle", K!NoCopy, <<>>, K!NoValue) /\ worker'[w] = K!Idle
<1>1. K!NoCopy \in KeyRows BY DEF KeySettings, K!NoCopy, KeyRows, K!Value, K!NoValue
<1>2. <<>> \in Seq(K!Value) OBVIOUS
<1>3. K!Idle \in Handling
  <2>1. ASSUME NEW c \in KeyRows, NEW l \in Seq(K!Value)
        PROVE  [op |-> "none", pc |-> "idle", copy |-> c, left |-> l, token |-> K!NoValue, until |-> 0]
                   \in Handling
    BY DEF Handling, Ops, Stages
  <2> QED BY <1>1, <1>2, <2>1, Zenon DEF K!Idle
<1>4. worker' \in [Worker -> Handling] /\ OthersStay(w) /\ worker'[w] = K!Idle
  BY <1>3 DEF LifeTypes, K!Done, OthersStay
<1> QED BY <1>4 DEF Stands, K!Idle

\* Reading the row replaces the copy.
LEMMA ReadRowStands ==
    ASSUME LifeTypes, NEW w \in Worker, NEW pc \in Stages, K!ReadRow(w, pc)
    PROVE  Stands(w, worker[w].op, pc, row, worker[w].left, worker[w].token)
BY DEF LifeTypes, Handling, K!ReadRow, Stands, OthersStay

\* Starting on the entries of some values.
LEMMA EntriesStands ==
    ASSUME LifeTypes, NEW w \in Worker, NEW pc \in Stages, NEW copy \in KeyRows,
           NEW values \in Seq(K!Value), K!Entries(w, pc, copy, values)
    PROVE  Stands(w, worker[w].op, pc, copy, values, worker[w].token)
BY DEF LifeTypes, Handling, K!Entries, Stands, OthersStay

\* A request starts on a token, ...
LEMMA TokenStands ==
    ASSUME LifeTypes, NEW w \in Worker, NEW op \in Ops, NEW pc \in Stages, NEW v \in K!Value,
           worker' = [worker EXCEPT ![w].op = op, ![w].pc = pc, ![w].token = v]
    PROVE  Stands(w, op, pc, worker[w].copy, worker[w].left, v)
BY DEF LifeTypes, Handling, Stands, OthersStay

\* ... on the row, ...
LEMMA CopyStands ==
    ASSUME LifeTypes, NEW w \in Worker, NEW op \in Ops, NEW pc \in Stages, NEW copy \in KeyRows,
           worker' = [worker EXCEPT ![w].op = op, ![w].pc = pc, ![w].copy = copy]
    PROVE  Stands(w, op, pc, copy, worker[w].left, worker[w].token)
BY DEF LifeTypes, Handling, Stands, OthersStay

\* ... or on the tenant.
LEMMA OpStands ==
    ASSUME LifeTypes, NEW w \in Worker, NEW op \in Ops, NEW pc \in Stages,
           worker' = [worker EXCEPT ![w].op = op, ![w].pc = pc]
    PROVE  Stands(w, op, pc, worker[w].copy, worker[w].left, worker[w].token)
BY DEF LifeTypes, Handling, Stands, OthersStay

\* Going on to the next value.
LEMMA LeftStands ==
    ASSUME LifeTypes, NEW w \in Worker, NEW values \in Seq(K!Value),
           worker' = [worker EXCEPT ![w].left = values]
    PROVE  Stands(w, worker[w].op, worker[w].pc, worker[w].copy, values, worker[w].token)
BY DEF LifeTypes, Handling, Stands, OthersStay

-----------------------------------------------------------------------------
(* A key's values: the lists of values                                      *)

\* The values whose entries are deleted are the row's two.
LEMMA HeldAre ==
    ASSUME NEW r \in KeyRows
    PROVE  /\ K!HeldValues(r) \in Seq(K!Value) /\ K!HeldValues(r) # <<>>
           /\ \A v \in K!Value : Listed(K!HeldValues(r), v) <=> v \in {r.value, r.rotated}
<1> DEFINE one == <<r.value>>
           two == <<r.value, r.rotated>>
<1>1. one \in Seq(K!Value) /\ one # <<>> /\ \A v \in K!Value : Listed(one, v) <=> v = r.value
  BY DEF KeyRows, Listed
<1>2. ASSUME r.rotated # K!NoValue
      PROVE  two \in Seq(K!Value) /\ two # <<>> /\ \A v \in K!Value : Listed(two, v) <=> v \in {r.value, r.rotated}
  BY <1>2 DEF KeyRows, Listed
<1>3. K!NoValue \notin K!Value BY DEF K!NoValue, K!Value
<1> QED BY <1>1, <1>2, <1>3 DEF K!HeldValues

\* The values whose entries are written: the previous one while it is live.
LEMMA CachedAre ==
    ASSUME NEW r \in KeyRows
    PROVE  /\ K!CacheKeyValues(r) \in Seq(K!Value) /\ K!CacheKeyValues(r) # <<>>
           /\ \A v \in K!Value : Listed(K!CacheKeyValues(r), v)
                 <=> v = r.value \/ (v = r.rotated /\ K!LiveRotatedKey(r))
<1> DEFINE one == <<r.value>>
           two == <<r.value, r.rotated>>
<1>1. one \in Seq(K!Value) /\ one # <<>> /\ \A v \in K!Value : Listed(one, v) <=> v = r.value
  BY DEF KeyRows, Listed
<1>2. ASSUME r.rotated # K!NoValue
      PROVE  two \in Seq(K!Value) /\ two # <<>> /\ \A v \in K!Value : Listed(two, v) <=> v \in {r.value, r.rotated}
  BY <1>2 DEF KeyRows, Listed
<1> QED BY <1>1, <1>2 DEF K!CacheKeyValues, K!LiveRotatedKey

\* Taking the head off a list takes only that value off.
LEMMA TailLists ==
    ASSUME NEW list \in Seq(K!Value), list # <<>>
    PROVE  /\ Head(list) \in K!Value /\ Listed(list, Head(list))
           /\ Len(list) > 1 => Tail(list) \in Seq(K!Value) /\ Tail(list) # <<>>
           /\ \A v \in K!Value : Len(list) > 1 /\ Listed(Tail(list), v) => Listed(list, v)
           /\ \A v \in K!Value : Listed(list, v) /\ v # Head(list) => Len(list) > 1 /\ Listed(Tail(list), v)
<1>1. Head(list) = list[1] /\ Len(list) \in Nat /\ Len(list) > 0 /\ Head(list) \in K!Value OBVIOUS
<1>2. Listed(list, Head(list)) BY <1>1 DEF Listed
<1>3. ASSUME Len(list) > 1 PROVE Tail(list) \in Seq(K!Value) /\ Tail(list) # <<>>
  <2>1. Tail(list) \in Seq(K!Value) /\ Len(Tail(list)) = Len(list) - 1 BY <1>1
  <2>2. Len(Tail(list)) # 0 BY <2>1, <1>1, <1>3
  <2>3. Len(<< >>) = 0 OBVIOUS
  <2>4. Tail(list) # << >> BY <2>2, <2>3, Zenon
  <2> QED BY <2>1, <2>4
<1>4. /\ Len(Tail(list)) = Len(list) - 1
      /\ \A i \in 1..(Len(list) - 1) : Tail(list)[i] = list[i + 1]
  BY <1>1
<1>5. ASSUME NEW v \in K!Value, Listed(Tail(list), v) PROVE Listed(list, v)
  <2>1. PICK i \in 1..Len(Tail(list)) : Tail(list)[i] = v BY <1>5 DEF Listed
  <2>2. i + 1 \in 1..Len(list) /\ list[i + 1] = v BY <2>1, <1>4, <1>1
  <2> QED BY <2>2 DEF Listed
<1>6. ASSUME NEW v \in K!Value, Listed(list, v), v # Head(list)
      PROVE  Len(list) > 1 /\ Listed(Tail(list), v)
  <2>1. PICK i \in 1..Len(list) : list[i] = v BY <1>6 DEF Listed
  <2>2. i # 1 BY <2>1, <1>1, <1>6
  <2>3. i - 1 \in 1..Len(Tail(list)) /\ Tail(list)[i - 1] = v BY <2>1, <2>2, <1>4, <1>1
  <2>4. Len(list) > 1 BY <2>2, <1>1
  <2> QED BY <2>3, <2>4 DEF Listed
<1> QED BY <1>1, <1>2, <1>3, <1>5, <1>6

-----------------------------------------------------------------------------
(* A key's values: steps that leave row and entries alone                   *)

\* Nothing is forgotten, and every entry w answered for still has someone.
PassesOn(w) ==
    \A v \in K!Value : redis[v].kind = "payload" /\ ~tainted'[v] =>
        /\ ~tainted[v]
        /\ MindsEntry(worker[w], v) => MindsEntry(worker[w], v)'
        /\ Fits(v) /\ MindsStatus(worker[w]) =>
              \/ MindsStatus(worker[w])'
              \/ row.active /\ tenantStatus = "ACTIVE"
              \/ MindsEntry(worker[w], v)'

\* The others stay in their places when the row's value does not shrink.
LEMMA PlacesKept ==
    ASSUME KeySettings, LifeTypes, KeyPlaces, NEW w \in Worker, OthersStay(w), worker' \in [Worker -> Handling],
           row' \in KeyRows, row'.value >= row.value, KeyPlace(worker[w])'
    PROVE  KeyPlaces'
<1> SUFFICES ASSUME NEW u \in Worker PROVE KeyPlace(worker[u])'
  BY DEF KeyPlaces
<1>1. CASE u = w BY <1>1
<1>2. CASE u # w
  <2>1. worker'[u] = worker[u] /\ KeyPlace(worker[u]) BY <1>2 DEF OthersStay, KeyPlaces
  <2>2. worker[u].token \in Int /\ row.value \in Int /\ row'.value \in Int
    <3>1. worker[u].token \in K!Value \cup {K!NoValue} BY DEF LifeTypes, Handling
    <3>2. row.value \in K!Value /\ row'.value \in K!Value BY DEF LifeTypes, KeyRows
    <3> QED BY <3>1, <3>2 DEF KeySettings, K!Value, K!NoValue
  <2> QED BY <2>1, <2>2 DEF KeyPlace
<1> QED BY <1>1, <1>2

\* A step of one request that leaves row, entries, tenant and time alone.
LEMMA KeyQuietStep ==
    ASSUME KeySettings, LifeInv, NEW w \in Worker, OthersStay(w), worker' \in [Worker -> Handling],
           tainted' \in [K!Value -> BOOLEAN], UNCHANGED <<row, tenantStatus, redis, now>>,
           KeyPlace(worker[w])', PassesOn(w)
    PROVE  LifeInv'
<1>1. LifeTypes' BY DEF LifeInv, LifeTypes
<1>2. KeyPlaces'
  <2>1. row' \in KeyRows /\ row'.value >= row.value BY DEF KeySettings, LifeInv, LifeTypes, KeyRows, K!Value
  <2> QED BY <2>1, PlacesKept DEF LifeInv
<1>3. EntriesInv' BY DEF LifeInv, EntriesInv
<1>4. Minded'
  <2> SUFFICES ASSUME NEW v \in K!Value, redis'[v].kind = "payload", ~tainted'[v] PROVE Cover(v)'
    BY DEF Minded
  <2>1. redis[v].kind = "payload" /\ ~tainted[v] BY DEF PassesOn
  <2>2. Cover(v) BY <2>1 DEF LifeInv, Minded
  <2>3. Fits(v)' = Fits(v) BY DEF Fits, K!CacheDeadline
  <2>4. ASSUME NEW u \in Worker, u # w
        PROVE  MindsStatus(worker[u])' = MindsStatus(worker[u]) /\ MindsEntry(worker[u], v)' = MindsEntry(worker[u], v)
    <3>1. worker'[u] = worker[u] BY <2>4 DEF OthersStay
    <3> QED BY <3>1 DEF MindsStatus, MindsEntry, Listed
  <2>5. CASE \E u \in Worker : MindsEntry(worker[u], v)
    <3>1. PICK u \in Worker : MindsEntry(worker[u], v) BY <2>5
    <3>2. MindsEntry(worker[u], v)' BY <3>1, <2>1, <2>4 DEF PassesOn
    <3> QED BY <3>2 DEF Cover
  <2>6. CASE Fits(v) /\ row.active /\ tenantStatus = "ACTIVE" BY <2>6, <2>3 DEF Cover
  <2>7. CASE Fits(v) /\ \E u \in Worker : MindsStatus(worker[u])
    <3>1. PICK u \in Worker : MindsStatus(worker[u]) BY <2>7
    <3>2. CASE u # w
      <4>1. MindsStatus(worker[u])' BY <3>1, <3>2, <2>4
      <4> QED BY <4>1, <2>3, <2>7 DEF Cover
    <3>3. CASE u = w
      <4>1. MindsStatus(worker[w])' \/ (row.active /\ tenantStatus = "ACTIVE") \/ MindsEntry(worker[w], v)'
        BY <3>1, <3>3, <2>1, <2>7 DEF PassesOn
      <4> QED BY <4>1, <2>3, <2>7 DEF Cover
    <3> QED BY <3>2, <3>3
  <2> QED BY <2>2, <2>5, <2>6, <2>7 DEF Cover
<1> QED BY <1>1, <1>2, <1>3, <1>4 DEF LifeInv

\* A request that answers for nothing passes everything on.
LEMMA NothingToPass ==
    ASSUME NEW w \in Worker, UNCHANGED tainted, worker[w].pc \notin {"fill", "evict", "reread", "drop", "eligible", "recheck"},
           worker[w].op \notin {"SUSPENDED", "DEACTIVATED"}
    PROVE  PassesOn(w)
BY DEF PassesOn, MindsEntry, MindsStatus

\* What is left behind needs nobody.
LEMMA LeftBehind ==
    ASSUME LifeTypes, K!LeaveBehind, UNCHANGED redis
    PROVE  /\ tainted' \in [K!Value -> BOOLEAN]
           /\ \A v \in K!Value : redis[v].kind = "payload" => tainted'[v]
BY DEF K!LeaveBehind, LifeTypes

-----------------------------------------------------------------------------
(* A key's values: one lemma per step                                       *)

\* A miss starts a validation.
LEMMA MissStep ==
    ASSUME KeySettings, LifeInv, NEW w \in Worker, NEW v \in K!Value, K!ValidateMiss(w, v)
    PROVE  LifeInv'
<1> USE DEF K!ValidateMiss
<1>1. Stands(w, "validate", "lookup", worker[w].copy, worker[w].left, v)
  BY TokenStands DEF LifeInv, Ops, Stages
<1>2. KeyPlace(worker[w])' BY <1>1 DEF KeyPlace, Stands
<1>3. PassesOn(w) BY NothingToPass DEF K!Idle
<1> QED BY <1>1, <1>2, <1>3, KeyQuietStep DEF LifeInv, LifeTypes, Stands

\* The lookup decides between the payload and the tombstone.
LEMMA LookupStep ==
    ASSUME KeySettings, LifeInv, NEW w \in Worker, K!ValidateLookup(w)
    PROVE  LifeInv'
<1> USE DEF K!ValidateLookup
<1>0. worker[w].token \in K!Value BY DEF K!At, LifeInv, KeyPlaces, KeyPlace
<1>1. PassesOn(w) BY NothingToPass DEF K!At
<1>2. CASE K!ReadRow(w, "rehydrate") /\ K!Accepts(row, worker[w].token)
  <2>1. Stands(w, worker[w].op, "rehydrate", row, worker[w].left, worker[w].token)
    BY <1>2, ReadRowStands DEF LifeInv, Stages
  <2>2. KeyPlace(worker[w])' BY <1>0, <1>2, <2>1 DEF KeyPlace, Stands, K!At, K!Accepts, K!ActiveKey
  <2> QED BY <1>1, <2>1, <2>2, KeyQuietStep DEF LifeInv, LifeTypes, Stands
<1>3. CASE K!Goto(w, "tombstone")
  <2>1. Stands(w, worker[w].op, "tombstone", worker[w].copy, worker[w].left, worker[w].token)
    BY <1>3, GotoStands DEF LifeInv, Stages
  <2>2. KeyPlace(worker[w])' BY <1>0, <1>3, <2>1 DEF KeyPlace, Stands, K!At
  <2> QED BY <1>1, <2>1, <2>2, KeyQuietStep DEF LifeInv, LifeTypes, Stands
<1> QED BY <1>2, <1>3

\* The route reads the row.
LEMMA ReadKeyStep ==
    ASSUME KeySettings, LifeInv, NEW w \in Worker, NEW op \in K!KeyRequests, K!ReadKey(w, op)
    PROVE  LifeInv'
<1> USE DEF K!ReadKey
<1>1. Stands(w, op, "begin", row, worker[w].left, worker[w].token)
  BY CopyStands DEF LifeInv, LifeTypes, Ops, Stages
<1>2. KeyPlace(worker[w])' BY <1>1 DEF KeyPlace, K!KeyRequests, Stands
<1>3. PassesOn(w) BY NothingToPass DEF K!Idle
<1> QED BY <1>1, <1>2, <1>3, KeyQuietStep DEF LifeInv, LifeTypes, Stands

\* A request that has finished is in its place.
LEMMA EndsWell ==
    ASSUME KeySettings, LifeTypes, NEW w \in Worker, K!Done(w)
    PROVE  worker' \in [Worker -> Handling] /\ OthersStay(w) /\ KeyPlace(worker[w])'
<1>1. Stands(w, "none", "idle", K!NoCopy, <<>>, K!NoValue) BY DoneStands
<1> QED BY <1>1 DEF Stands, KeyPlace

\* A request that starts deleting answers for the values of its copy.
LEMMA StartsEvict ==
    ASSUME KeySettings, LifeTypes, NEW w \in Worker, NEW c \in KeyRows,
           K!Entries(w, "evict", c, K!HeldValues(c)), worker[w].op \notin {"none", "validate"}
    PROVE  /\ worker' \in [Worker -> Handling] /\ OthersStay(w) /\ KeyPlace(worker[w])'
           /\ \A v \in K!Value : v \in {c.value, c.rotated} => MindsEntry(worker[w], v)'
<1>1. Stands(w, worker[w].op, "evict", c, K!HeldValues(c), worker[w].token)
  BY HeldAre, EntriesStands DEF Stages
<1>2. worker'[w].left # <<>> BY <1>1, HeldAre DEF Stands
<1>3. ASSUME NEW v \in K!Value, v \in {c.value, c.rotated} PROVE MindsEntry(worker[w], v)'
  <2>1. Listed(K!HeldValues(c), v) BY <1>3, HeldAre
  <2> QED BY <1>1, <2>1 DEF Stands, MindsEntry, Listed
<1> QED BY <1>1, <1>2, <1>3 DEF Stands, KeyPlace

\* A request that starts writing answers for the live values of its copy.
LEMMA StartsFill ==
    ASSUME KeySettings, LifeTypes, NEW w \in Worker, NEW c \in KeyRows,
           K!Entries(w, "fill", c, K!CacheKeyValues(c)), worker[w].op \notin {"none", "validate"},
           c.active \/ worker[w].op = "rotate"
    PROVE  /\ Stands(w, worker[w].op, "fill", c, K!CacheKeyValues(c), worker[w].token)
           /\ KeyPlace(worker[w])'
           /\ \A v \in K!Value : v = c.value \/ (v = c.rotated /\ K!LiveRotatedKey(c)) => MindsEntry(worker[w], v)'
<1>1. Stands(w, worker[w].op, "fill", c, K!CacheKeyValues(c), worker[w].token)
  BY CachedAre, EntriesStands DEF Stages
<1>2. worker'[w].left # <<>> BY <1>1, CachedAre DEF Stands
<1>3. ASSUME NEW v \in K!Value, v = c.value \/ (v = c.rotated /\ K!LiveRotatedKey(c)) PROVE MindsEntry(worker[w], v)'
  <2>1. Listed(K!CacheKeyValues(c), v) BY <1>3, CachedAre
  <2> QED BY <1>1, <2>1 DEF Stands, MindsEntry, Listed
<1>4. \A v \in K!Value : Listed(worker'[w].left, v) => v \in {c.value, c.rotated}
  BY <1>1, CachedAre DEF Stands
<1>5. KeyPlace(worker[w])'
  BY <1>1, <1>2, <1>4 DEF Stands, KeyPlace, Listed
<1> QED BY <1>1, <1>3, <1>5

\* A revocation re-reads the row and deletes both its entries.
LEMMA RevokeRereadStep ==
    ASSUME KeySettings, LifeInv, NEW w \in Worker, K!RevokeReread(w)
    PROVE  LifeInv'
<1> USE DEF K!RevokeReread
<1>1. row \in KeyRows /\ LifeTypes BY DEF LifeInv, LifeTypes
<1>2. /\ worker' \in [Worker -> Handling] /\ OthersStay(w) /\ KeyPlace(worker[w])'
      /\ \A v \in K!Value : v \in {row.value, row.rotated} => MindsEntry(worker[w], v)'
  BY <1>1, StartsEvict DEF K!At
<1>3. PassesOn(w) BY <1>2 DEF PassesOn, K!At, MindsEntry, Fits
<1> QED BY <1>1, <1>2, <1>3, KeyQuietStep DEF LifeTypes

\* An update deletes or writes the entries of its copy, or leaves them behind.
LEMMA EligibleStep ==
    ASSUME KeySettings, LifeInv, NEW w \in Worker, K!UpdateEligible(w)
    PROVE  LifeInv'
<1> USE DEF K!UpdateEligible
<1> DEFINE c == worker[w].copy
<1>1. c \in KeyRows /\ LifeTypes /\ now \in Nat BY DEF LifeInv, LifeTypes, Handling
<1>2. worker[w].op = "update" /\ worker[w].pc = "eligible" BY DEF K!At
<1>3. CASE K!Entries(w, "evict", c, K!HeldValues(c)) /\ UNCHANGED tainted
  <2>1. /\ worker' \in [Worker -> Handling] /\ OthersStay(w) /\ KeyPlace(worker[w])'
        /\ \A v \in K!Value : v \in {c.value, c.rotated} => MindsEntry(worker[w], v)'
    BY <1>1, <1>2, <1>3, StartsEvict
  <2>2. PassesOn(w) BY <1>2, <1>3, <2>1 DEF PassesOn, MindsEntry, MindsStatus
  <2> QED BY <1>1, <1>3, <2>1, <2>2, KeyQuietStep DEF LifeTypes
<1>4. CASE K!EffectiveIsActive(c) /\ c.expires > now /\ K!Entries(w, "fill", c, K!CacheKeyValues(c)) /\ UNCHANGED tainted
  <2>0. c.active BY <1>4 DEF K!EffectiveIsActive
  <2>1. /\ Stands(w, worker[w].op, "fill", c, K!CacheKeyValues(c), worker[w].token)
        /\ KeyPlace(worker[w])'
        /\ \A v \in K!Value : v = c.value \/ (v = c.rotated /\ K!LiveRotatedKey(c)) => MindsEntry(worker[w], v)'
    BY <1>1, <1>2, <1>4, <2>0, StartsFill
  <2>2. ASSUME NEW v \in K!Value, v = c.rotated, c.window >= c.expires PROVE K!LiveRotatedKey(c)
    <3>1. c.window \in Nat /\ c.expires \in Nat BY <1>1 DEF KeyRows
    <3>2. v # K!NoValue BY DEF K!Value, K!NoValue, KeySettings
    <3> QED BY <2>2, <1>1, <1>4, <3>1, <3>2 DEF K!LiveRotatedKey
  <2>3. PassesOn(w) BY <1>2, <1>4, <2>1, <2>2 DEF PassesOn, MindsEntry, MindsStatus
  <2> QED BY <1>1, <1>4, <2>1, <2>3, KeyQuietStep DEF LifeTypes, Stands
<1>5. CASE K!Done(w) /\ K!LeaveBehind
  <2>1. PassesOn(w) /\ tainted' \in [K!Value -> BOOLEAN] BY <1>1, <1>5, LeftBehind DEF PassesOn
  <2> QED BY <1>1, <1>5, <2>1, EndsWell, KeyQuietStep
<1> QED BY <1>3, <1>4, <1>5

\* A rotation checks its copy.
LEMMA RotateCheckStep ==
    ASSUME KeySettings, LifeInv, NEW w \in Worker, NEW grace \in 0..Lifetime, K!RotateCheck(w, grace)
    PROVE  LifeInv'
<1> USE DEF K!RotateCheck
<1> DEFINE c == worker[w].copy
<1>1. LifeTypes /\ worker[w].op = "rotate" /\ worker[w].pc = "begin" BY DEF LifeInv, K!At
<1>2. PassesOn(w) BY <1>1, NothingToPass
<1>3. CASE K!Done(w) BY <1>1, <1>2, <1>3, EndsWell, KeyQuietStep DEF LifeTypes
<1>4. CASE worker' = [worker EXCEPT ![w].pc = "commit", ![w].until = now + grace, ![w].token = c.value]
  <2>1. now + grace \in Nat /\ c.value \in K!Value BY <1>1 DEF KeySettings, LifeTypes, Handling, KeyRows
  <2>2. worker' \in [Worker -> Handling] /\ OthersStay(w) /\ worker'[w].op = "rotate" /\ worker'[w].pc = "commit"
    <3> HIDE DEF c
    <3>1. "commit" \in Stages BY DEF Stages
    <3> QED BY <1>1, <1>4, <2>1, <3>1 DEF LifeTypes, Handling, OthersStay
  <2>3. KeyPlace(worker[w])' BY <2>2 DEF KeyPlace
  <2> QED BY <1>1, <1>2, <2>2, <2>3, KeyQuietStep DEF LifeTypes
<1> QED BY <1>3, <1>4

\* A rotation re-reads the row: the old value is to be written, dropped, or nobody's.
LEMMA RotateRereadStep ==
    ASSUME KeySettings, LifeInv, NEW w \in Worker, K!RotateReread(w)
    PROVE  LifeInv'
<1> USE DEF K!RotateReread
<1> DEFINE old == worker[w].token
<1>1. LifeTypes /\ EntriesInv /\ worker[w].op = "rotate" /\ worker[w].pc = "reread" BY DEF LifeInv, K!At
<1>2. /\ row \in KeyRows /\ now \in Nat /\ row.window \in Nat /\ row.expires \in Nat
      /\ \A v \in K!Value : redis[v].exp \in Nat
  BY <1>1 DEF LifeTypes, KeyRows, CacheEntries
<1>3. /\ tainted' \in [K!Value -> BOOLEAN]
      /\ \A v \in K!Value : ~tainted'[v] => ~tainted[v]
      /\ \A v \in K!Value : v = old /\ row.rotated # old /\ redis[v].kind = "payload" => tainted'[v]
  BY <1>1 DEF LifeTypes
<1>4. \A v \in K!Value : MindsEntry(worker[w], v) =>
          v = old /\ (row.rotated # v \/ row.window <= row.expires \/ redis[v].exp <= row.expires)
  BY <1>1 DEF MindsEntry
<1>5. CASE row.expires > now /\ K!Entries(w, "fill", row, K!CacheKeyValues(row))
  <2>1. /\ Stands(w, "rotate", "fill", row, K!CacheKeyValues(row), old)
        /\ KeyPlace(worker[w])'
        /\ \A v \in K!Value : v = row.value \/ (v = row.rotated /\ K!LiveRotatedKey(row)) => MindsEntry(worker[w], v)'
    BY <1>1, <1>2, <1>5, StartsFill
  <2>2. MindsStatus(worker[w])' BY <2>1 DEF Stands, MindsStatus
  <2>3. ASSUME NEW v \in K!Value, v = old, row.rotated = old PROVE MindsEntry(worker[w], v)'
    <3>1. CASE row.window > now
      <4>1. v # K!NoValue BY DEF K!Value, K!NoValue, KeySettings
      <4> QED BY <3>1, <4>1, <2>1, <2>3 DEF K!LiveRotatedKey
    <3>2. CASE row.window <= now
      BY <3>2, <2>1, <2>3 DEF Stands, MindsEntry
    <3> QED BY <1>2, <3>1, <3>2
  <2>4. PassesOn(w) BY <1>3, <1>4, <2>2, <2>3 DEF PassesOn
  <2> QED BY <1>1, <1>3, <2>1, <2>4, KeyQuietStep DEF Stands
<1>6. CASE row.expires <= now /\ K!ReadRow(w, "drop")
  <2>1. Stands(w, "rotate", "drop", row, worker[w].left, old)
    BY <1>1, <1>6, ReadRowStands DEF Stages
  <2>2. KeyPlace(worker[w])' /\ MindsStatus(worker[w])' BY <2>1 DEF Stands, KeyPlace, MindsStatus
  <2>3. ASSUME NEW v \in K!Value, v = old, row.rotated = old, redis[v].kind = "payload",
               row.window <= row.expires \/ redis[v].exp <= row.expires
        PROVE MindsEntry(worker[w], v)'
    <3>1. redis[v].exp > now BY <1>1, <2>3 DEF EntriesInv
    <3>2. row.window <= now BY <3>1, <1>2, <1>6, <2>3
    <3> QED BY <3>2, <2>1, <2>3 DEF Stands, MindsEntry
  <2>4. PassesOn(w) BY <1>3, <1>4, <2>2, <2>3 DEF PassesOn
  <2> QED BY <1>1, <1>3, <2>1, <2>2, <2>4, KeyQuietStep DEF Stands
<1> QED BY <1>2, <1>5, <1>6

\* A rotation trusts the row it sees last, or deletes its entries.
LEMMA RotateRecheckStep ==
    ASSUME KeySettings, LifeInv, NEW w \in Worker, K!RotateRecheck(w)
    PROVE  LifeInv'
<1> USE DEF K!RotateRecheck
<1>1. LifeTypes /\ row \in KeyRows /\ worker[w].op = "rotate" /\ worker[w].pc = "recheck" BY DEF LifeInv, LifeTypes, K!At
<1>2. CASE K!EffectiveIsActive(row) /\ K!Done(w)
  <2>1. row.active /\ tenantStatus = "ACTIVE" BY <1>2 DEF K!EffectiveIsActive, K!ApplicationMayUse
  <2>2. PassesOn(w) BY <1>1, <2>1 DEF PassesOn, MindsEntry
  <2> QED BY <1>1, <1>2, <2>2, EndsWell, KeyQuietStep DEF LifeTypes
<1>3. CASE K!Entries(w, "evict", row, K!HeldValues(row))
  <2>1. /\ worker' \in [Worker -> Handling] /\ OthersStay(w) /\ KeyPlace(worker[w])'
        /\ \A v \in K!Value : v \in {row.value, row.rotated} => MindsEntry(worker[w], v)'
    BY <1>1, <1>3, StartsEvict
  <2>2. PassesOn(w) BY <1>1, <2>1 DEF PassesOn, MindsEntry, Fits
  <2> QED BY <1>1, <2>1, <2>2, KeyQuietStep DEF LifeTypes
<1> QED BY <1>2, <1>3

\* A rotation whose cache update fails leaves the entries behind.
LEMMA RotateFailsStep ==
    ASSUME KeySettings, LifeInv, NEW w \in Worker, K!RotateFails(w)
    PROVE  LifeInv'
<1> USE DEF K!RotateFails
<1>1. LifeTypes /\ worker[w].copy \in KeyRows BY DEF LifeInv, LifeTypes, Handling
<1>2. PassesOn(w) /\ tainted' \in [K!Value -> BOOLEAN] BY <1>1, LeftBehind DEF PassesOn
<1>3. worker' \in [Worker -> Handling] /\ OthersStay(w) /\ KeyPlace(worker[w])'
  BY <1>1, StartsEvict
<1> QED BY <1>1, <1>2, <1>3, KeyQuietStep

\* So does a request that dies; a validation answers for nothing.
LEMMA AbortStep ==
    ASSUME KeySettings, LifeInv, NEW w \in Worker, K!Abort(w)
    PROVE  LifeInv'
<1> USE DEF K!Abort
<1>1. LifeTypes /\ KeyPlace(worker[w]) BY DEF LifeInv, KeyPlaces
<1>2. CASE worker[w].op = "validate" /\ UNCHANGED tainted
  <2>1. PassesOn(w) BY <1>1, <1>2, NothingToPass DEF KeyPlace
  <2> QED BY <1>1, <1>2, <2>1, EndsWell, KeyQuietStep DEF LifeTypes
<1>3. CASE K!LeaveBehind
  <2>1. PassesOn(w) /\ tainted' \in [K!Value -> BOOLEAN] BY <1>1, <1>3, LeftBehind DEF PassesOn
  <2> QED BY <1>1, <2>1, EndsWell, KeyQuietStep
<1> QED BY <1>2, <1>3

\* An extension reads the row again, and writes its entries.
LEMMA ExtendRereadStep ==
    ASSUME KeySettings, LifeInv, NEW w \in Worker, K!ExtendReread(w)
    PROVE  LifeInv'
<1> USE DEF K!ExtendReread
<1>1. LifeTypes /\ worker[w].op = "extend" /\ worker[w].pc = "reread" BY DEF LifeInv, K!At
<1>2. Stands(w, "extend", "eligible", row, worker[w].left, worker[w].token)
  BY <1>1, ReadRowStands DEF Stages
<1>3. KeyPlace(worker[w])' BY <1>2 DEF Stands, KeyPlace
<1>4. PassesOn(w) BY <1>1 DEF PassesOn, MindsEntry, MindsStatus
<1> QED BY <1>1, <1>2, <1>3, <1>4, KeyQuietStep DEF LifeTypes, Stands

\* An extension writes the entries of its copy, or ends.
LEMMA ExtendEligibleStep ==
    ASSUME KeySettings, LifeInv, NEW w \in Worker, K!ExtendEligible(w)
    PROVE  LifeInv'
<1> USE DEF K!ExtendEligible
<1> DEFINE c == worker[w].copy
<1>1. LifeTypes /\ worker[w].op = "extend" /\ worker[w].pc = "eligible" BY DEF LifeInv, K!At
<1>2. PassesOn(w) BY <1>1 DEF PassesOn, MindsEntry, MindsStatus
<1>3. CASE K!Done(w) BY <1>1, <1>2, <1>3, EndsWell, KeyQuietStep DEF LifeTypes
<1>4. CASE K!EffectiveIsActive(c) /\ K!Entries(w, "fill", c, K!CacheKeyValues(c))
  <2>1. c \in KeyRows /\ c.active BY <1>1, <1>4 DEF LifeTypes, Handling, K!EffectiveIsActive
  <2>2. Stands(w, worker[w].op, "fill", c, K!CacheKeyValues(c), worker[w].token) /\ KeyPlace(worker[w])'
    BY <1>1, <1>4, <2>1, StartsFill
  <2> QED BY <1>1, <1>2, <2>2, KeyQuietStep DEF LifeTypes, Stands
<1> QED BY <1>3, <1>4

\* A suspension lists the key, if it is still active, and deletes its entries.
LEMMA SuspendStep ==
    ASSUME KeySettings, LifeInv, NEW w \in Worker, K!SuspendList(w)
    PROVE  LifeInv'
<1> USE DEF K!SuspendList
<1>1. LifeTypes /\ row \in KeyRows /\ worker[w].op = "SUSPENDED" /\ worker[w].pc = "begin" BY DEF LifeInv, LifeTypes, K!At
<1>2. CASE ~K!ActiveKey(row) /\ K!Done(w)
  <2>1. PassesOn(w) BY <1>1, <1>2 DEF PassesOn, MindsEntry, MindsStatus, K!ActiveKey, Fits
  <2> QED BY <1>1, <1>2, <2>1, EndsWell, KeyQuietStep DEF LifeTypes
<1>3. CASE K!Entries(w, "evict", row, K!HeldValues(row))
  <2>1. /\ worker' \in [Worker -> Handling] /\ OthersStay(w) /\ KeyPlace(worker[w])'
        /\ \A v \in K!Value : v \in {row.value, row.rotated} => MindsEntry(worker[w], v)'
    BY <1>1, <1>3, StartsEvict
  <2>2. PassesOn(w) BY <1>1, <2>1 DEF PassesOn, MindsEntry, Fits
  <2> QED BY <1>1, <2>1, <2>2, KeyQuietStep DEF LifeTypes
<1> QED BY <1>2, <1>3

\* A resumption looks at the tenant and its applications, ...
LEMMA ResumeReadStep ==
    ASSUME KeySettings, LifeInv, NEW w \in Worker, K!ResumeRead(w)
    PROVE  LifeInv'
<1> USE DEF K!ResumeRead
<1>1. LifeTypes /\ worker[w].op = "ACTIVE" /\ worker[w].pc = "begin" BY DEF LifeInv, K!At
<1>2. PICK pc \in {"refresh", "clear"} : K!Goto(w, pc) OBVIOUS
<1>3. Stands(w, "ACTIVE", pc, worker[w].copy, worker[w].left, worker[w].token)
  BY <1>1, <1>2, GotoStands DEF Stages
<1>4. KeyPlace(worker[w])' BY <1>3 DEF Stands, KeyPlace
<1>5. PassesOn(w) BY <1>1, NothingToPass
<1> QED BY <1>1, <1>3, <1>4, <1>5, KeyQuietStep DEF LifeTypes, Stands

\* ... then at the key.
LEMMA ResumeListStep ==
    ASSUME KeySettings, LifeInv, NEW w \in Worker, K!ResumeList(w)
    PROVE  LifeInv'
<1> USE DEF K!ResumeList
<1>1. LifeTypes /\ row \in KeyRows /\ worker[w].op = "ACTIVE" /\ worker[w].pc \in {"refresh", "clear"} BY DEF LifeInv, LifeTypes
<1>2. PassesOn(w) BY <1>1, NothingToPass
<1>3. CASE K!Done(w) BY <1>1, <1>2, <1>3, EndsWell, KeyQuietStep DEF LifeTypes
<1>4. CASE K!Entries(w, "evict", row, K!HeldValues(row))
  BY <1>1, <1>2, <1>4, StartsEvict, KeyQuietStep DEF LifeTypes
<1>5. CASE K!ActiveKey(row) /\ K!Entries(w, "fill", row, K!CacheKeyValues(row))
  <2>1. Stands(w, worker[w].op, "fill", row, K!CacheKeyValues(row), worker[w].token) /\ KeyPlace(worker[w])'
    BY <1>1, <1>5, StartsFill DEF K!ActiveKey
  <2> QED BY <1>1, <1>2, <2>1, KeyQuietStep DEF LifeTypes, Stands
<1> QED BY <1>3, <1>4, <1>5

-----------------------------------------------------------------------------
(* A key's values: steps that change the row or the tenant                  *)

\* Another request still answers for the entry, unless the row moved away.
LEMMA StillMinds ==
    ASSUME NEW u \in Worker, NEW v \in K!Value, worker'[u] = worker[u],
           redis'[v].exp = redis[v].exp, now \in Nat, now' \in Nat, now' >= now, LifeTypes,
           worker[u].op = "rotate" /\ worker[u].pc = "reread" /\ v = worker[u].token
               => row'.rotated # v \/ row'.window <= row'.expires \/ redis'[v].exp <= row'.expires,
           MindsEntry(worker[u], v)
    PROVE  MindsEntry(worker[u], v)'
<1>1. worker[u].copy.window \in Nat BY DEF LifeTypes, Handling, KeyRows
<1>2. CASE worker[u].pc \in {"fill", "evict"} /\ Listed(worker[u].left, v)
  BY <1>2 DEF MindsEntry, Listed
<1>3. CASE /\ worker[u].op = "update" /\ worker[u].pc = "eligible"
           /\ v = worker[u].copy.value \/ (v = worker[u].copy.rotated /\ worker[u].copy.window >= worker[u].copy.expires)
  BY <1>3 DEF MindsEntry
<1>4. CASE worker[u].op = "rotate" /\ worker[u].pc = "reread" /\ v = worker[u].token
  BY <1>4 DEF MindsEntry
<1>5. CASE worker[u].op = "rotate" /\ worker[u].pc \in {"fill", "drop"} /\ v = worker[u].token /\ worker[u].copy.window <= now
  BY <1>1, <1>5 DEF MindsEntry
<1> QED BY <1>2, <1>3, <1>4, <1>5 DEF MindsEntry

\* A step of one request that leaves the entries and the time alone.
LEMMA RowStep ==
    ASSUME KeySettings, LifeInv, NEW w \in Worker, OthersStay(w), worker' \in [Worker -> Handling],
           tainted' \in [K!Value -> BOOLEAN], UNCHANGED <<redis, now>>,
           row' \in KeyRows, row'.value >= row.value, row'.rotated < row'.value,
           KeyPlace(worker[w])',
           \A v \in K!Value : redis[v].kind = "payload" /\ ~tainted'[v] => Cover(v)'
    PROVE  LifeInv'
<1>1. LifeTypes' BY DEF LifeInv, LifeTypes
<1>2. KeyPlaces' BY PlacesKept DEF LifeInv
<1>3. EntriesInv' BY DEF LifeInv, EntriesInv
<1>4. Minded' BY DEF Minded
<1> QED BY <1>1, <1>2, <1>3, <1>4 DEF LifeInv

\* A revocation commits; it will read the row again.
LEMMA RevokeCommitStep ==
    ASSUME KeySettings, LifeInv, NEW w \in Worker, K!RevokeCommit(w)
    PROVE  LifeInv'
<1> USE DEF K!RevokeCommit
<1>1. LifeTypes /\ EntriesInv /\ row \in KeyRows /\ now \in Nat /\ worker[w].op = "revoke" /\ worker[w].pc = "begin"
  BY DEF LifeInv, LifeTypes, K!At
<1>2. Stands(w, "revoke", "reread", worker[w].copy, worker[w].left, worker[w].token)
  BY <1>1, GotoStands DEF Stages
<1>3. /\ row' \in KeyRows /\ row'.value = row.value /\ row'.rotated = row.rotated
      /\ row'.window = row.window /\ row'.expires = row.expires
  BY <1>1 DEF KeyRows
<1>4. KeyPlace(worker[w])' /\ MindsStatus(worker[w])' BY <1>2 DEF Stands, KeyPlace, MindsStatus
<1>5. ASSUME NEW v \in K!Value, redis[v].kind = "payload", ~tainted'[v] PROVE Cover(v)'
  <2>1. Cover(v) BY <1>5 DEF LifeInv, Minded
  <2>2. CASE Fits(v)
    <3>1. Fits(v)' BY <2>2, <1>3 DEF Fits, K!CacheDeadline
    <3> QED BY <3>1, <1>4 DEF Cover
  <2>3. CASE \E u \in Worker : MindsEntry(worker[u], v)
    <3>1. PICK u \in Worker : MindsEntry(worker[u], v) BY <2>3
    <3>2. u # w BY <3>1, <1>1 DEF MindsEntry
    <3>3. worker'[u] = worker[u] BY <3>2, <1>2 DEF Stands, OthersStay
    <3>4. worker[u].op = "rotate" /\ worker[u].pc = "reread" /\ v = worker[u].token
             => row'.rotated # v \/ row'.window <= row'.expires \/ redis'[v].exp <= row'.expires
      BY <3>1, <1>3 DEF MindsEntry
    <3>5. MindsEntry(worker[u], v)' BY <3>1, <3>3, <3>4, <1>1, StillMinds
    <3> QED BY <3>5 DEF Cover
  <2> QED BY <2>1, <2>2, <2>3 DEF Cover
<1>6. row'.value >= row.value /\ row'.rotated < row'.value
  <2>1. row.value \in Nat BY <1>1 DEF KeyRows, KeySettings, K!Value
  <2> QED BY <2>1, <1>1, <1>3 DEF EntriesInv
<1> QED BY <1>1, <1>2, <1>3, <1>4, <1>5, <1>6, RowStep DEF LifeTypes, Stands

\* A tenant's status is committed; the request will list the key.
LEMMA StatusStep ==
    ASSUME KeySettings, LifeInv, NEW w \in Worker, NEW status \in {"ACTIVE", "SUSPENDED", "DEACTIVATED"},
           K!SetTenantStatus(w, status)
    PROVE  LifeInv'
<1> USE DEF K!SetTenantStatus
<1>1. /\ LifeTypes /\ EntriesInv /\ row \in KeyRows /\ now \in Nat
      /\ worker[w].op = "none" /\ worker[w].pc = "idle"
  BY DEF LifeInv, LifeTypes, K!Idle
<1>2. Stands(w, status, "begin", worker[w].copy, worker[w].left, worker[w].token)
  BY <1>1, OpStands DEF Stages, Ops
<1>3. KeyPlace(worker[w])' BY <1>2 DEF Stands, KeyPlace
<1>4. ASSUME NEW v \in K!Value, redis[v].kind = "payload", ~tainted'[v] PROVE Cover(v)'
  <2>1. Cover(v) BY <1>4 DEF LifeInv, Minded
  <2>2. CASE \E u \in Worker : MindsEntry(worker[u], v)
    <3>1. PICK u \in Worker : MindsEntry(worker[u], v) BY <2>2
    <3>2. u # w BY <3>1, <1>1 DEF MindsEntry
    <3>3. worker'[u] = worker[u] BY <3>2, <1>2 DEF Stands, OthersStay
    <3>4. worker[u].op = "rotate" /\ worker[u].pc = "reread" /\ v = worker[u].token
             => row'.rotated # v \/ row'.window <= row'.expires \/ redis'[v].exp <= row'.expires
      BY <3>1 DEF MindsEntry
    <3>5. redis'[v].exp = redis[v].exp /\ now' \in Nat /\ now' >= now BY <1>1
    <3>6. MindsEntry(worker[u], v)'
      <4> HIDE DEF K!SetTenantStatus
      <4> QED BY <3>1, <3>3, <3>4, <3>5, <1>1, StillMinds
    <3> QED BY <3>6 DEF Cover
  <2>3. CASE Fits(v) /\ row.active
    <3>1. Fits(v)' /\ row'.active BY <2>3 DEF Fits, K!CacheDeadline
    <3>2. status # "ACTIVE" => MindsStatus(worker[w])' BY <3>1, <1>2 DEF Stands, MindsStatus
    <3> QED BY <3>1, <3>2 DEF Cover
  <2>4. CASE Fits(v) /\ \E u \in Worker : MindsStatus(worker[u])
    <3>1. PICK u \in Worker : MindsStatus(worker[u]) BY <2>4
    <3>2. u # w BY <3>1, <1>1 DEF MindsStatus
    <3>3. worker'[u] = worker[u] BY <3>2, <1>2 DEF Stands, OthersStay
    <3>4. MindsStatus(worker[u])' /\ Fits(v)' BY <2>4, <3>1, <3>3 DEF MindsStatus, Fits, K!CacheDeadline
    <3> QED BY <3>4 DEF Cover
  <2> QED BY <2>1, <2>2, <2>3, <2>4 DEF Cover
<1>5. row'.value >= row.value /\ row'.rotated < row'.value
  <2>1. row.value \in Nat BY <1>1 DEF KeyRows, KeySettings, K!Value
  <2> QED BY <2>1, <1>1 DEF EntriesInv
<1> QED BY <1>1, <1>2, <1>3, <1>4, <1>5, RowStep DEF LifeTypes, Stands

\* A deactivation revokes the key and deletes its entries.
LEMMA DeactivateKeyStep ==
    ASSUME KeySettings, LifeInv, NEW w \in Worker, K!DeactivateRevoke(w)
    PROVE  LifeInv'
<1> USE DEF K!DeactivateRevoke
<1>1. /\ LifeTypes /\ EntriesInv /\ row \in KeyRows /\ now \in Nat
      /\ worker[w].op = "DEACTIVATED" /\ worker[w].pc = "begin"
  BY DEF LifeInv, LifeTypes, K!At
<1>2. CASE ~row.active /\ K!Done(w)
  <2>1. UNCHANGED row
    <3>1. row.active = FALSE BY <1>1, <1>2 DEF KeyRows
    <3>2. DOMAIN row = DOMAIN row' /\ \A f \in DOMAIN row : row'[f] = row[f] BY <1>1, <3>1 DEF KeyRows
    <3>3. row = [f \in DOMAIN row |-> row[f]] /\ row' = [f \in DOMAIN row |-> row'[f]]
      BY <1>1, <3>2 DEF KeyRows
    <3> QED BY <3>2, <3>3, Zenon
  <2>2. PassesOn(w) BY <1>1, <1>2 DEF PassesOn, MindsEntry, MindsStatus
  <2> QED BY <1>1, <1>2, <2>1, <2>2, EndsWell, KeyQuietStep DEF LifeTypes
<1>3. CASE row.active /\ K!Entries(w, "evict", row', K!HeldValues(row))
  <2>1. /\ row' \in KeyRows /\ row'.value = row.value /\ row'.rotated = row.rotated
        /\ row'.window = row.window /\ row'.expires = row.expires
    BY <1>1 DEF KeyRows
  <2>2. K!HeldValues(row) \in Seq(K!Value) /\ K!HeldValues(row) # <<>> BY <1>1, HeldAre
  <2>3. Stands(w, "DEACTIVATED", "evict", row', K!HeldValues(row), worker[w].token)
    <3> DEFINE copy == row'
    <3>1. copy \in KeyRows /\ K!Entries(w, "evict", copy, K!HeldValues(row)) BY <1>3, <2>1
    <3> HIDE DEF copy
    <3>2. "evict" \in Stages BY DEF Stages
    <3>3. Stands(w, worker[w].op, "evict", copy, K!HeldValues(row), worker[w].token)
      BY <1>1, <2>2, <3>1, <3>2 DEF LifeTypes, Handling, K!Entries, Stands, OthersStay
    <3> QED BY <1>1, <3>3 DEF copy
  <2>4. KeyPlace(worker[w])'
    BY <2>2, <2>3 DEF Stands, KeyPlace
  <2>5. ASSUME NEW v \in K!Value, redis[v].kind = "payload", ~tainted'[v] PROVE Cover(v)'
    <3>1. Cover(v) BY <2>5 DEF LifeInv, Minded
    <3>2. CASE Fits(v)
      <4>1. Listed(K!HeldValues(row), v) BY <3>2, <1>1, HeldAre DEF Fits
      <4>2. MindsEntry(worker[w], v)' BY <4>1, <2>3 DEF Stands, MindsEntry, Listed
      <4> QED BY <4>2 DEF Cover
    <3>3. CASE \E u \in Worker : MindsEntry(worker[u], v)
      <4>1. PICK u \in Worker : MindsEntry(worker[u], v) BY <3>3
      <4>2. u # w BY <4>1, <1>1 DEF MindsEntry
      <4>3. worker'[u] = worker[u] BY <4>2, <2>3 DEF Stands, OthersStay
      <4>4. worker[u].op = "rotate" /\ worker[u].pc = "reread" /\ v = worker[u].token
               => row'.rotated # v \/ row'.window <= row'.expires \/ redis'[v].exp <= row'.expires
        BY <4>1, <2>1 DEF MindsEntry
      <4>5. MindsEntry(worker[u], v)' BY <4>1, <4>3, <4>4, <1>1, StillMinds
      <4> QED BY <4>5 DEF Cover
    <3> QED BY <3>1, <3>2, <3>3 DEF Cover
  <2>6. row'.value >= row.value /\ row'.rotated < row'.value
    <3>1. row.value \in Nat BY <1>1 DEF KeyRows, KeySettings, K!Value
    <3> QED BY <3>1, <1>1, <2>1 DEF EntriesInv
  <2> QED BY <1>1, <2>1, <2>3, <2>4, <2>5, <2>6, RowStep DEF LifeTypes, Stands
<1> QED BY <1>2, <1>3

\* What an update makes of a row, the window compared in its copy.
UpdatedRow(c, until, r) ==
    IF until = 0 THEN r
    ELSE [r EXCEPT !.expires = until, !.window = IF c.window > until THEN until ELSE @]

\* An update changes the deadlines only, and clamps the window of its own copy.
LEMMA UpdatedAre ==
    ASSUME NEW c \in KeyRows, NEW r \in KeyRows, NEW until \in Nat, until # 0
    PROVE  LET x == UpdatedRow(c, until, r) IN
           /\ x \in KeyRows /\ x.active = r.active /\ x.value = r.value /\ x.rotated = r.rotated
           /\ x.expires = until /\ x.window = IF c.window > until THEN until ELSE r.window
BY DEF UpdatedRow, KeyRows

\* Where an update stands after its commit.
LEMMA UpdateStands ==
    ASSUME KeySettings, LifeTypes, NEW w \in Worker, NEW until \in Nat, K!UpdateCommit(w, until)
    PROVE  /\ row' = UpdatedRow(worker[w].copy, until, row)
           /\ Stands(w, "update", "eligible", UpdatedRow(worker[w].copy, until, worker[w].copy),
                     worker[w].left, worker[w].token)
<1> DEFINE c == worker[w].copy
           new == UpdatedRow(c, until, c)
<1>1. c \in KeyRows /\ worker[w].op = "update" BY DEF LifeTypes, Handling, K!UpdateCommit, K!At
<1>2. new \in KeyRows
  <2>1. CASE until = 0 BY <1>1, <2>1 DEF UpdatedRow
  <2>2. CASE until # 0 BY <1>1, <2>2, UpdatedAre
  <2> QED BY <2>1, <2>2
<1>3. row' = UpdatedRow(c, until, row) BY DEF K!UpdateCommit, UpdatedRow
<1>4. worker' = [worker EXCEPT ![w].copy = new, ![w].pc = "eligible"]
  <2>1. new = IF until = 0 THEN c
              ELSE [c EXCEPT !.expires = until, !.window = IF c.window > until THEN until ELSE @]
    BY DEF UpdatedRow
  <2> QED BY <2>1 DEF K!UpdateCommit
<1>5. Stands(w, "update", "eligible", new, worker[w].left, worker[w].token)
  <2> HIDE DEF new, c
  <2>1. "eligible" \in Stages BY DEF Stages
  <2> QED BY <1>1, <1>2, <1>4, <2>1 DEF LifeTypes, Handling, Stands, OthersStay
<1> QED BY <1>3, <1>5

\* An update of a current copy answers for the entries whose deadline moved.
LEMMA UpdateCommitStep ==
    ASSUME KeySettings, LifeInv, NEW w \in Worker, NEW until \in Nat, K!UpdateCommit(w, until)
    PROVE  LifeInv'
<1> DEFINE c == worker[w].copy
           new == UpdatedRow(c, until, c)
<1>1. /\ LifeTypes /\ EntriesInv /\ row \in KeyRows /\ c \in KeyRows /\ now \in Nat
      /\ worker[w].op = "update" /\ worker[w].pc = "begin" /\ (until = 0 \/ until > now)
      /\ UNCHANGED <<tenantStatus, redis, now>>
  BY DEF LifeInv, LifeTypes, Handling, K!UpdateCommit, K!At
<1>2. row' = UpdatedRow(c, until, row) /\ Stands(w, "update", "eligible", new, worker[w].left, worker[w].token)
  BY <1>1, UpdateStands
<1>3. KeyPlace(worker[w])' BY <1>2 DEF Stands, KeyPlace
<1>4. row.value \in Nat /\ row.value >= row.value BY <1>1 DEF KeyRows, KeySettings, K!Value
<1>5. row' \in KeyRows /\ row'.value = row.value /\ row'.rotated = row.rotated /\ row'.active = row.active
  <2>1. CASE until = 0 BY <1>1, <1>2, <2>1 DEF UpdatedRow
  <2>2. CASE until # 0 BY <1>1, <1>2, <2>2, UpdatedAre
  <2> QED BY <2>1, <2>2
<1>6. row'.value >= row.value /\ row'.rotated < row'.value BY <1>1, <1>4, <1>5 DEF EntriesInv
<1>7. CASE K!LeaveBehind
  <2>1. /\ tainted' \in [K!Value -> BOOLEAN]
        /\ \A v \in K!Value : redis[v].kind = "payload" => tainted'[v]
    BY <1>1, <1>7, LeftBehind
  <2> QED BY <1>1, <1>2, <1>3, <1>5, <1>6, <2>1, RowStep DEF Stands
<1>8. CASE c = row /\ UNCHANGED tainted
  <2>1. new = row' BY <1>2, <1>8
  <2>2. ASSUME NEW v \in K!Value, redis[v].kind = "payload", ~tainted'[v] PROVE Cover(v)'
    <3>1. Cover(v) BY <1>8, <2>2 DEF LifeInv, Minded
    <3>2. redis'[v].exp = redis[v].exp /\ now' \in Nat /\ now' >= now /\ redis[v].exp \in Nat
      BY <1>1 DEF LifeTypes, CacheEntries
    <3>3. row.window \in Nat /\ row.expires \in Nat BY <1>1 DEF KeyRows
    <3>4. until # 0 => row'.window <= row'.expires
      <4>1. ASSUME until # 0
            PROVE  row'.window = (IF row.window > until THEN until ELSE row.window) /\ row'.expires = until
        BY <1>1, <1>2, <1>8, <4>1, UpdatedAre
      <4> QED BY <4>1, <3>3
    <3>5. CASE \E u \in Worker : MindsEntry(worker[u], v)
      <4>1. PICK u \in Worker : MindsEntry(worker[u], v) BY <3>5
      <4>2. u # w BY <4>1, <1>1 DEF MindsEntry
      <4>3. worker'[u] = worker[u] BY <4>2, <1>2 DEF Stands, OthersStay
      <4>4. worker[u].op = "rotate" /\ worker[u].pc = "reread" /\ v = worker[u].token
               => row'.rotated # v \/ row'.window <= row'.expires \/ redis'[v].exp <= row'.expires
        <5>1. CASE until # 0 BY <3>4, <5>1
        <5>2. CASE until = 0
          <6>1. row' = row BY <1>2, <5>2 DEF UpdatedRow
          <6> QED BY <4>1, <6>1, <3>2 DEF MindsEntry
        <5> QED BY <5>1, <5>2
      <4>5. MindsEntry(worker[u], v)' BY <4>1, <4>3, <4>4, <3>2, <1>1, StillMinds
      <4> QED BY <4>5 DEF Cover
    <3>6. CASE Fits(v) /\ ((row.active /\ tenantStatus = "ACTIVE") \/ \E u \in Worker : MindsStatus(worker[u]))
      <4>1. (row.active /\ tenantStatus = "ACTIVE")' \/ \E u \in Worker : MindsStatus(worker[u])'
        <5>1. CASE row.active /\ tenantStatus = "ACTIVE" BY <5>1, <1>1, <1>5
        <5>2. CASE \E u \in Worker : MindsStatus(worker[u])
          <6>1. PICK u \in Worker : MindsStatus(worker[u]) BY <5>2
          <6>2. u # w BY <6>1, <1>1 DEF MindsStatus
          <6>3. worker'[u] = worker[u] BY <6>2, <1>2 DEF Stands, OthersStay
          <6>4. MindsStatus(worker[u])' BY <6>1, <6>3, <1>5 DEF MindsStatus
          <6> QED BY <6>4
        <5> QED BY <3>6, <5>1, <5>2
      <4>2. CASE until = 0
        <5>1. row' = row BY <1>2, <4>2 DEF UpdatedRow
        <5>2. Fits(v)' BY <5>1, <3>6, <3>2, <1>1 DEF Fits, K!CacheDeadline
        <5> QED BY <5>2, <4>1 DEF Cover
      <4>3. CASE until # 0 /\ (v = row.value \/ row.window > until)
        <5>1. row'.window = (IF row.window > until THEN until ELSE row.window) /\ row'.expires = until
          BY <1>1, <1>2, <1>8, <4>3, UpdatedAre
        <5>2. v = row'.value \/ (v = row'.rotated /\ row'.window >= row'.expires)
          BY <4>3, <5>1, <3>6, <1>5 DEF Fits
        <5>3. MindsEntry(worker[w], v)' BY <5>2, <1>2, <2>1 DEF Stands, MindsEntry
        <5> QED BY <5>3 DEF Cover
      <4>4. CASE until # 0 /\ v # row.value /\ row.window <= until
        <5>1. row'.window = row.window /\ row'.expires = until
          BY <1>1, <1>2, <1>8, <4>4, <3>3, UpdatedAre
        <5>2. Fits(v)' BY <5>1, <1>1, <1>5, <3>2, <3>3, <3>6, <4>4 DEF Fits, K!CacheDeadline
        <5> QED BY <5>2, <4>1 DEF Cover
      <4> QED BY <4>2, <4>3, <4>4, <3>3
    <3> QED BY <3>1, <3>5, <3>6 DEF Cover
  <2> QED BY <1>1, <1>2, <1>3, <1>5, <1>6, <1>8, <2>2, RowStep DEF Stands, LifeTypes
<1> QED BY <1>7, <1>8 DEF K!UpdateCommit

\* Who answers for the status after a step that leaves it alone.
LEMMA StatusKept ==
    ASSUME NEW w \in Worker, OthersStay(w), ~MindsStatus(worker[w]), row'.active = row.active, tenantStatus' = tenantStatus,
           (row.active /\ tenantStatus = "ACTIVE") \/ \E u \in Worker : MindsStatus(worker[u])
    PROVE  (row.active /\ tenantStatus = "ACTIVE")' \/ \E u \in Worker : MindsStatus(worker[u])'
<1>1. CASE row.active /\ tenantStatus = "ACTIVE" BY <1>1
<1>2. CASE \E u \in Worker : MindsStatus(worker[u])
  <2>1. PICK u \in Worker : MindsStatus(worker[u]) BY <1>2
  <2>2. u # w BY <2>1
  <2>3. worker'[u] = worker[u] BY <2>2 DEF OthersStay
  <2>4. MindsStatus(worker[u])' BY <2>1, <2>3 DEF MindsStatus
  <2> QED BY <2>4
<1> QED BY <1>1, <1>2

\* A rotation stores its value, guarded by the value it was read with.
LEMMA RotateCommitStep ==
    ASSUME KeySettings, LifeInv, NEW w \in Worker, K!RotateCommit(w)
    PROVE  LifeInv'
<1> DEFINE old == worker[w].token
           until == worker[w].until
<1>1. /\ LifeTypes /\ EntriesInv /\ KeyPlaces /\ row \in KeyRows /\ now \in Nat /\ until \in Nat
      /\ worker[w].op = "rotate" /\ worker[w].pc = "commit" /\ UNCHANGED <<tenantStatus, redis, tainted, now>>
  BY DEF LifeInv, LifeTypes, Handling, K!RotateCommit, K!At
<1>2. ~MindsStatus(worker[w]) /\ \A v \in K!Value : ~MindsEntry(worker[w], v)
  BY <1>1 DEF MindsStatus, MindsEntry
<1>3. CASE UNCHANGED row /\ K!Done(w)
  <2>1. PassesOn(w) BY <1>1, NothingToPass
  <2> QED BY <1>1, <1>3, <2>1, EndsWell, KeyQuietStep DEF LifeTypes
<1>4. CASE /\ K!MayRotate(row, old)
           /\ row' = [row EXCEPT !.rotated = row.value, !.value = row.value + 1, !.window = until]
           /\ K!Goto(w, "reread")
  <2>1. row.value \in Nat /\ row.value + 1 \in K!Value /\ row.value < MaxValues
    BY <1>1 DEF KeyRows, KeySettings, K!Value, K!RotateCommit
  <2>2. /\ row' \in KeyRows /\ row'.active = row.active /\ row'.expires = row.expires
        /\ row'.rotated = row.value /\ row'.value = row.value + 1 /\ row'.window = until
    BY <1>1, <1>4, <2>1 DEF KeyRows
  <2>3. Stands(w, "rotate", "reread", worker[w].copy, worker[w].left, old)
    BY <1>1, <1>4, GotoStands DEF Stages
  <2>4. old = row.value BY <1>4 DEF K!MayRotate
  <2>5. KeyPlace(worker[w])' BY <2>1, <2>2, <2>3, <2>4 DEF Stands, KeyPlace
  <2>6. row'.value >= row.value /\ row'.rotated < row'.value BY <2>1, <2>2
  <2>7. ASSUME NEW v \in K!Value, redis[v].kind = "payload", ~tainted'[v] PROVE Cover(v)'
    <3>1. Cover(v) BY <1>1, <2>7 DEF LifeInv, Minded
    <3>2. redis'[v].exp = redis[v].exp /\ now' \in Nat /\ now' >= now /\ redis[v].exp \in Nat
      BY <1>1 DEF LifeTypes, CacheEntries
    <3>3. CASE \E u \in Worker : MindsEntry(worker[u], v)
      <4>1. PICK u \in Worker : MindsEntry(worker[u], v) BY <3>3
      <4>2. u # w BY <4>1, <1>2
      <4>3. worker'[u] = worker[u] BY <4>2, <2>3 DEF Stands, OthersStay
      <4>4. worker[u].op = "rotate" /\ worker[u].pc = "reread" /\ v = worker[u].token
               => row'.rotated # v \/ row'.window <= row'.expires \/ redis'[v].exp <= row'.expires
        BY <1>1, <2>1, <2>2 DEF KeyPlaces, KeyPlace
      <4>5. MindsEntry(worker[u], v)' BY <4>1, <4>3, <4>4, <3>2, <1>1, StillMinds
      <4> QED BY <4>5 DEF Cover
    <3>4. CASE Fits(v)
      <4>1. ~K!LiveRotatedKey(row) BY <1>4 DEF K!MayRotate
      <4>2. v # K!NoValue BY DEF K!Value, K!NoValue, KeySettings
      <4>3. v = row.value BY <3>4, <4>1, <4>2 DEF Fits, K!LiveRotatedKey
      <4>4. redis[v].exp <= row.expires BY <3>4, <4>3 DEF Fits, K!CacheDeadline
      <4>5. MindsEntry(worker[w], v)' BY <2>2, <2>3, <2>4, <3>2, <4>3, <4>4 DEF Stands, MindsEntry
      <4> QED BY <4>5 DEF Cover
    <3> QED BY <3>1, <3>3, <3>4 DEF Cover
  <2> QED BY <1>1, <2>2, <2>3, <2>5, <2>6, <2>7, RowStep DEF Stands, LifeTypes
<1> QED BY <1>3, <1>4 DEF K!RotateCommit

\* Ending a rotation deletes the entry of the value it ends.
LEMMA EndCommitStep ==
    ASSUME KeySettings, LifeInv, NEW w \in Worker, K!EndCommit(w)
    PROVE  LifeInv'
<1> DEFINE c == worker[w].copy
<1>1. /\ LifeTypes /\ EntriesInv /\ row \in KeyRows /\ c \in KeyRows /\ now \in Nat
      /\ worker[w].op = "end" /\ worker[w].pc = "begin" /\ UNCHANGED <<tenantStatus, redis, tainted, now>>
  BY DEF LifeInv, LifeTypes, Handling, K!EndCommit, K!At
<1>2. ~MindsStatus(worker[w]) /\ \A v \in K!Value : ~MindsEntry(worker[w], v)
  BY <1>1 DEF MindsStatus, MindsEntry
<1>3. CASE UNCHANGED row /\ K!Done(w)
  <2>1. PassesOn(w) BY <1>1, NothingToPass
  <2> QED BY <1>1, <1>3, <2>1, EndsWell, KeyQuietStep DEF LifeTypes
<1>4. CASE /\ K!PreviousWorks(c) /\ K!MayEnd(row, c.rotated)
           /\ row' = [row EXCEPT !.rotated = K!NoValue, !.window = 0]
           /\ K!Entries(w, "evict", row', <<c.rotated>>)
  <2>1. row.value \in Nat /\ row.value > 0 BY <1>1 DEF KeyRows, KeySettings, K!Value
  <2>2. /\ row' \in KeyRows /\ row'.active = row.active /\ row'.expires = row.expires
        /\ row'.rotated = K!NoValue /\ row'.value = row.value /\ row'.window = 0
    BY <1>1, <1>4, <2>1 DEF KeyRows
  <2>3. c.rotated \in K!Value /\ c.rotated = row.rotated
    BY <1>1, <1>4 DEF K!PreviousWorks, K!LiveRotatedKey, K!MayEnd, KeyRows
  <2>4. <<c.rotated>> \in Seq(K!Value) /\ <<c.rotated>> # <<>> /\ Listed(<<c.rotated>>, c.rotated)
    BY <2>3 DEF Listed
  <2>5. Stands(w, "end", "evict", row', <<c.rotated>>, worker[w].token)
    <3> DEFINE copy == row'
               list == <<c.rotated>>
    <3>1. copy \in KeyRows /\ list \in Seq(K!Value) /\ K!Entries(w, "evict", copy, list) BY <1>4, <2>2, <2>4
    <3> HIDE DEF copy, list
    <3>2. "evict" \in Stages BY DEF Stages
    <3>3. Stands(w, worker[w].op, "evict", copy, list, worker[w].token)
      BY <1>1, <3>1, <3>2 DEF LifeTypes, Handling, K!Entries, Stands, OthersStay
    <3> QED BY <1>1, <3>3 DEF copy, list
  <2>6. KeyPlace(worker[w])' BY <2>4, <2>5 DEF Stands, KeyPlace
  <2>7. row'.value >= row.value /\ row'.rotated < row'.value BY <2>1, <2>2 DEF K!NoValue
  <2>8. ASSUME NEW v \in K!Value, redis[v].kind = "payload", ~tainted'[v] PROVE Cover(v)'
    <3>1. Cover(v) BY <1>1, <2>8 DEF LifeInv, Minded
    <3>2. redis'[v].exp = redis[v].exp /\ now' \in Nat /\ now' >= now /\ redis[v].exp \in Nat
      BY <1>1 DEF LifeTypes, CacheEntries
    <3>3. CASE \E u \in Worker : MindsEntry(worker[u], v)
      <4>1. PICK u \in Worker : MindsEntry(worker[u], v) BY <3>3
      <4>2. u # w BY <4>1, <1>2
      <4>3. worker'[u] = worker[u] BY <4>2, <2>5 DEF Stands, OthersStay
      <4>4. v # K!NoValue BY DEF K!Value, K!NoValue, KeySettings
      <4>5. row'.rotated # v BY <2>2, <4>4
      <4>6. MindsEntry(worker[u], v)' BY <4>1, <4>3, <4>5, <3>2, <1>1, StillMinds
      <4> QED BY <4>6 DEF Cover
    <3>4. CASE v = row.rotated
      <4>1. MindsEntry(worker[w], v)' BY <2>3, <2>4, <2>5, <3>4 DEF Stands, MindsEntry, Listed
      <4> QED BY <4>1 DEF Cover
    <3>5. CASE v = row.value /\ Fits(v) /\ ((row.active /\ tenantStatus = "ACTIVE") \/ \E u \in Worker : MindsStatus(worker[u]))
      <4>1. Fits(v)' BY <1>1, <2>2, <3>2, <3>5 DEF Fits, K!CacheDeadline
      <4>2. (row.active /\ tenantStatus = "ACTIVE")' \/ \E u \in Worker : MindsStatus(worker[u])'
        BY <1>1, <1>2, <2>2, <2>5, <3>5, StatusKept DEF Stands
      <4> QED BY <4>1, <4>2 DEF Cover
    <3> QED BY <3>1, <3>3, <3>4, <3>5 DEF Cover, Fits
  <2> QED BY <1>1, <2>2, <2>5, <2>6, <2>7, <2>8, RowStep DEF Stands, LifeTypes
<1> QED BY <1>3, <1>4 DEF K!EndCommit

\* Extending a rotation only ever gives an entry more time.
LEMMA ExtendCommitStep ==
    ASSUME KeySettings, LifeInv, NEW w \in Worker, NEW until \in Nat, K!ExtendCommit(w, until)
    PROVE  LifeInv'
<1> DEFINE c == worker[w].copy
<1>1. /\ LifeTypes /\ EntriesInv /\ row \in KeyRows /\ c \in KeyRows /\ now \in Nat
      /\ worker[w].op = "extend" /\ worker[w].pc = "begin" /\ UNCHANGED <<tenantStatus, redis, tainted, now>>
  BY DEF LifeInv, LifeTypes, Handling, K!ExtendCommit, K!At
<1>2. ~MindsStatus(worker[w]) /\ \A v \in K!Value : ~MindsEntry(worker[w], v)
  BY <1>1 DEF MindsStatus, MindsEntry
<1>3. CASE UNCHANGED row /\ K!Done(w)
  <2>1. PassesOn(w) BY <1>1, NothingToPass
  <2> QED BY <1>1, <1>3, <2>1, EndsWell, KeyQuietStep DEF LifeTypes
<1>4. CASE /\ K!MayExtend(row, c.rotated, until)
           /\ row' = [row EXCEPT !.window = until] /\ K!Goto(w, "reread")
  <2>1. row.value \in Nat /\ row.window \in Nat /\ row.expires \in Nat BY <1>1 DEF KeyRows, KeySettings, K!Value
  <2>2. /\ row' \in KeyRows /\ row'.active = row.active /\ row'.expires = row.expires
        /\ row'.rotated = row.rotated /\ row'.value = row.value /\ row'.window = until
    BY <1>1, <1>4 DEF KeyRows
  <2>3. row.window < until /\ until <= row.expires /\ row.window > now BY <1>4, <2>1 DEF K!MayExtend
  <2>4. Stands(w, "extend", "reread", worker[w].copy, worker[w].left, worker[w].token)
    BY <1>1, <1>4, GotoStands DEF Stages
  <2>5. KeyPlace(worker[w])' BY <2>4 DEF Stands, KeyPlace
  <2>6. row'.value >= row.value /\ row'.rotated < row'.value BY <1>1, <2>1, <2>2 DEF EntriesInv
  <2>7. ASSUME NEW v \in K!Value, redis[v].kind = "payload", ~tainted'[v] PROVE Cover(v)'
    <3>1. Cover(v) BY <1>1, <2>7 DEF LifeInv, Minded
    <3>2. redis'[v].exp = redis[v].exp /\ now' \in Nat /\ now' >= now /\ redis[v].exp \in Nat
      BY <1>1 DEF LifeTypes, CacheEntries
    <3>3. CASE \E u \in Worker : MindsEntry(worker[u], v)
      <4>1. PICK u \in Worker : MindsEntry(worker[u], v) BY <3>3
      <4>2. u # w BY <4>1, <1>2
      <4>3. worker'[u] = worker[u] BY <4>2, <2>4 DEF Stands, OthersStay
      <4>4. row'.window <= row'.expires BY <2>2, <2>3
      <4>5. MindsEntry(worker[u], v)' BY <4>1, <4>3, <4>4, <3>2, <1>1, StillMinds
      <4> QED BY <4>5 DEF Cover
    <3>4. CASE Fits(v) /\ ((row.active /\ tenantStatus = "ACTIVE") \/ \E u \in Worker : MindsStatus(worker[u]))
      <4>1. Fits(v)' BY <1>1, <2>1, <2>2, <2>3, <3>2, <3>4 DEF Fits, K!CacheDeadline
      <4>2. (row.active /\ tenantStatus = "ACTIVE")' \/ \E u \in Worker : MindsStatus(worker[u])'
        BY <1>1, <1>2, <2>2, <2>4, <3>4, StatusKept DEF Stands
      <4> QED BY <4>1, <4>2 DEF Cover
    <3> QED BY <3>1, <3>3, <3>4 DEF Cover
  <2> QED BY <1>1, <2>2, <2>4, <2>5, <2>6, <2>7, RowStep DEF Stands, LifeTypes
<1> QED BY <1>3, <1>4 DEF K!ExtendCommit

-----------------------------------------------------------------------------
(* A key's values: steps that change an entry                               *)

\* A step of one request that touches the entry of x only.
LEMMA EntryStep ==
    ASSUME KeySettings, LifeInv, NEW w \in Worker, OthersStay(w), worker' \in [Worker -> Handling], NEW x \in K!Value,
           redis' \in [K!Value -> CacheEntries], tainted' \in [K!Value -> BOOLEAN], UNCHANGED <<row, tenantStatus, now>>,
           \A v \in K!Value : v # x => redis'[v] = redis[v] /\ tainted'[v] = tainted[v],
           redis'[x].kind = "payload" => redis'[x].exp > now,
           KeyPlace(worker[w])',
           \A v \in K!Value : v # x /\ MindsEntry(worker[w], v) => MindsEntry(worker[w], v)',
           MindsStatus(worker[w]) => MindsStatus(worker[w])',
           redis'[x].kind = "payload" /\ ~tainted'[x] => Cover(x)'
    PROVE  LifeInv'
<1>1. LifeTypes' BY DEF LifeInv, LifeTypes
<1>2. row' \in KeyRows /\ row'.value >= row.value /\ now \in Nat /\ LifeTypes
  <2>1. row \in KeyRows /\ now \in Nat BY DEF LifeInv, LifeTypes
  <2>2. row.value \in Nat BY <2>1 DEF KeySettings, KeyRows, K!Value
  <2> QED BY <2>1, <2>2 DEF LifeInv
<1>3. KeyPlaces' BY <1>2, PlacesKept DEF LifeInv
<1>4. EntriesInv'
  <2>1. row'.rotated < row'.value BY DEF LifeInv, EntriesInv
  <2>2. ASSUME NEW v \in K!Value, redis'[v].kind = "payload" PROVE redis'[v].exp > now'
    <3>1. CASE v = x BY <2>2, <3>1
    <3>2. CASE v # x BY <2>2, <3>2 DEF LifeInv, EntriesInv
    <3> QED BY <3>1, <3>2
  <2> QED BY <2>1, <2>2 DEF EntriesInv
<1>5. ASSUME NEW v \in K!Value, v # x, redis'[v].kind = "payload", ~tainted'[v] PROVE Cover(v)'
  <2>1. redis'[v] = redis[v] /\ tainted'[v] = tainted[v] BY <1>5
  <2>2. Cover(v) BY <1>5, <2>1 DEF LifeInv, Minded
  <2>3. Fits(v)' = Fits(v) BY <2>1 DEF Fits, K!CacheDeadline
  <2>4. redis'[v].exp = redis[v].exp /\ now' \in Nat /\ now' >= now BY <2>1, <1>2
  <2>5. ASSUME NEW u \in Worker, MindsEntry(worker[u], v) PROVE MindsEntry(worker[u], v)'
    <3>1. CASE u = w BY <2>5, <1>5, <3>1
    <3>2. CASE u # w
      <4>1. worker'[u] = worker[u] BY <3>2 DEF OthersStay
      <4>2. worker[u].op = "rotate" /\ worker[u].pc = "reread" /\ v = worker[u].token
               => row'.rotated # v \/ row'.window <= row'.expires \/ redis'[v].exp <= row'.expires
        BY <2>1, <2>5 DEF MindsEntry
      <4> QED BY <4>1, <4>2, <2>4, <2>5, <1>2, StillMinds
    <3> QED BY <3>1, <3>2
  <2>6. ASSUME NEW u \in Worker, MindsStatus(worker[u]) PROVE MindsStatus(worker[u])'
    <3>1. CASE u = w BY <2>6, <3>1
    <3>2. CASE u # w
      <4>1. worker'[u] = worker[u] BY <3>2 DEF OthersStay
      <4> QED BY <4>1, <2>6 DEF MindsStatus
    <3> QED BY <3>1, <3>2
  <2> QED BY <2>2, <2>3, <2>5, <2>6 DEF Cover
<1>6. Minded' BY <1>5 DEF Minded
<1> QED BY <1>1, <1>3, <1>4, <1>6 DEF LifeInv

\* Deleting an entry.
LEMMA DeletedIs ==
    ASSUME KeySettings, LifeTypes, NEW x \in K!Value, redis' = K!DeleteEntry(x), tainted' = [tainted EXCEPT ![x] = FALSE]
    PROVE  /\ redis' \in [K!Value -> CacheEntries] /\ tainted' \in [K!Value -> BOOLEAN]
           /\ \A v \in K!Value : v # x => redis'[v] = redis[v] /\ tainted'[v] = tainted[v]
           /\ redis'[x].kind # "payload"
BY DEF LifeTypes, K!DeleteEntry, K!NoEntry, CacheEntries

\* A payload is written for no longer than the copy allows, or not at all.
LEMMA WrittenIs ==
    ASSUME KeySettings, LifeTypes, EntriesInv, NEW w \in Worker, NEW x \in K!Value, K!WritePayload(w, x)
    PROVE  /\ redis' \in [K!Value -> CacheEntries] /\ tainted' \in [K!Value -> BOOLEAN]
           /\ \A v \in K!Value : v # x => redis'[v] = redis[v] /\ tainted'[v] = tainted[v]
           /\ redis'[x].kind = "payload" => redis'[x].exp > now
           /\ redis'[x].kind = "payload" /\ ~tainted'[x] =>
                 ~K!Outdated(w) /\ redis'[x].exp = K!CacheDeadline(worker[w].copy, x) /\ redis'[x].exp > now
<1> DEFINE exp == K!CacheDeadline(worker[w].copy, x)
<1>1. worker[w].copy \in KeyRows /\ now \in Nat BY DEF LifeTypes, Handling
<1>2. exp \in Nat BY <1>1 DEF K!CacheDeadline, KeyRows
<1>3. K!Outdated(w) \in BOOLEAN BY DEF K!Outdated
<1>4. /\ redis' = K!SetEntry(x, "payload", exp)
      /\ tainted' = [tainted EXCEPT ![x] = IF exp > now THEN K!Outdated(w) ELSE @ \/ redis[x].kind = "payload"]
  BY DEF K!WritePayload
<1> HIDE DEF exp
<1>5. CASE exp > now
  <2>1. redis' = [redis EXCEPT ![x] = [kind |-> "payload", exp |-> exp]] /\ tainted' = [tainted EXCEPT ![x] = K!Outdated(w)]
    BY <1>4, <1>5 DEF K!SetEntry
  <2>2. redis' \in [K!Value -> CacheEntries] /\ tainted' \in [K!Value -> BOOLEAN]
    BY <2>1, <1>2, <1>3 DEF LifeTypes, CacheEntries
  <2>3. \A v \in K!Value : v # x => redis'[v] = redis[v] /\ tainted'[v] = tainted[v] BY <2>1 DEF LifeTypes
  <2>4. redis'[x].exp = exp /\ tainted'[x] = K!Outdated(w) BY <2>1 DEF LifeTypes
  <2> QED BY <2>2, <2>3, <2>4, <1>5 DEF exp
<1>6. CASE ~(exp > now)
  <2>1. redis' = redis /\ tainted' = [tainted EXCEPT ![x] = tainted[x] \/ redis[x].kind = "payload"]
    BY <1>4, <1>6 DEF K!SetEntry, LifeTypes
  <2>2. (tainted[x] \/ redis[x].kind = "payload") \in BOOLEAN OBVIOUS
  <2>3. redis' \in [K!Value -> CacheEntries] /\ tainted' \in [K!Value -> BOOLEAN] BY <2>1, <2>2 DEF LifeTypes
  <2>4. \A v \in K!Value : v # x => redis'[v] = redis[v] /\ tainted'[v] = tainted[v] BY <2>1 DEF LifeTypes
  <2>5. redis'[x].kind = "payload" => tainted'[x] BY <2>1 DEF LifeTypes
  <2>6. redis'[x].kind = "payload" => redis'[x].exp > now BY <2>1 DEF EntriesInv
  <2> QED BY <2>3, <2>4, <2>5, <2>6
<1> QED BY <1>5, <1>6

\* An entry that ends in time fits the row it was written from.
LEMMA WrittenFits ==
    ASSUME KeySettings, row \in KeyRows, now \in Nat, row.rotated < row.value, NEW x \in K!Value,
           x \in {row.value, row.rotated}, NEW exp \in Nat, exp > now, exp = K!CacheDeadline(row, x)
    PROVE  row.expires > now /\ (x = row.value \/ (x = row.rotated /\ row.window > now))
<1>1. row.window \in Nat /\ row.expires \in Nat BY DEF KeyRows
<1> QED BY <1>1 DEF K!CacheDeadline

\* A refused token gets a tombstone.
LEMMA TombstoneStep ==
    ASSUME KeySettings, LifeInv, NEW w \in Worker, K!ValidateTombstone(w)
    PROVE  LifeInv'
<1>1. /\ LifeTypes /\ now \in Nat /\ worker[w].op = "validate" /\ worker[w].pc = "tombstone"
      /\ UNCHANGED <<row, tenantStatus, now>> /\ K!Done(w)
  BY DEF LifeInv, LifeTypes, K!At, K!ValidateTombstone
<1>5. PICK x \in K!Value : x = worker[w].token BY <1>1 DEF LifeInv, KeyPlaces, KeyPlace
<1>2. redis' = [redis EXCEPT ![x] = [kind |-> "tombstone", exp |-> now + 1]] /\ tainted' = [tainted EXCEPT ![x] = FALSE]
  BY <1>1, <1>5 DEF K!ValidateTombstone, K!SetEntry
<1>3. worker' \in [Worker -> Handling] /\ OthersStay(w) /\ KeyPlace(worker[w])' BY <1>1, EndsWell
<1>4. ~MindsStatus(worker[w]) /\ \A v \in K!Value : ~MindsEntry(worker[w], v)
  BY <1>1 DEF MindsStatus, MindsEntry
<1>6. /\ redis' \in [K!Value -> CacheEntries] /\ tainted' \in [K!Value -> BOOLEAN]
      /\ \A v \in K!Value : v # x => redis'[v] = redis[v] /\ tainted'[v] = tainted[v]
      /\ redis'[x].kind # "payload"
  BY <1>1, <1>2, <1>5 DEF LifeTypes, CacheEntries
<1> QED BY <1>1, <1>3, <1>4, <1>5, <1>6, EntryStep

\* A validation writes what the row it saw allows.
LEMMA RehydrateStep ==
    ASSUME KeySettings, LifeInv, NEW w \in Worker, K!ValidateRehydrate(w)
    PROVE  LifeInv'
<1> DEFINE c == worker[w].copy
<1>1. /\ LifeTypes /\ EntriesInv /\ now \in Nat /\ worker[w].op = "validate" /\ worker[w].pc = "rehydrate"
      /\ UNCHANGED <<row, tenantStatus, now>> /\ K!Done(w) /\ K!WritePayload(w, worker[w].token)
  BY DEF LifeInv, LifeTypes, K!At, K!ValidateRehydrate
<1>0. worker[w].token \in K!Value /\ c.active /\ worker[w].token \in {c.value, c.rotated}
  BY <1>1 DEF LifeInv, KeyPlaces, KeyPlace
<1>2. PICK x \in K!Value : x = worker[w].token /\ x \in {c.value, c.rotated} BY <1>0
<1>3. worker' \in [Worker -> Handling] /\ OthersStay(w) /\ KeyPlace(worker[w])' BY <1>1, EndsWell
<1>4. ~MindsStatus(worker[w]) /\ \A v \in K!Value : ~MindsEntry(worker[w], v)
  BY <1>1 DEF MindsStatus, MindsEntry
<1>5. /\ redis' \in [K!Value -> CacheEntries] /\ tainted' \in [K!Value -> BOOLEAN]
      /\ \A v \in K!Value : v # x => redis'[v] = redis[v] /\ tainted'[v] = tainted[v]
      /\ redis'[x].kind = "payload" => redis'[x].exp > now
      /\ redis'[x].kind = "payload" /\ ~tainted'[x] =>
             ~K!Outdated(w) /\ redis'[x].exp = K!CacheDeadline(c, x) /\ redis'[x].exp > now
  BY <1>1, <1>2, WrittenIs
<1>6. ASSUME redis'[x].kind = "payload", ~tainted'[x] PROVE Cover(x)'
  <2>1. c = row /\ tenantStatus = "ACTIVE" BY <1>1, <1>5, <1>6 DEF K!Outdated
  <2>2. row \in KeyRows /\ row.rotated < row.value BY <1>1 DEF LifeTypes, EntriesInv
  <2>3. redis'[x].exp \in Nat BY <1>2, <1>5 DEF CacheEntries
  <2>4. row.expires > now /\ (x = row.value \/ (x = row.rotated /\ row.window > now))
    BY <1>1, <1>2, <1>5, <1>6, <2>1, <2>2, <2>3, WrittenFits
  <2>5. redis'[x].exp <= K!CacheDeadline(row, x) BY <1>5, <1>6, <2>1, <2>3
  <2>6. K!CacheDeadline(row, x)' = K!CacheDeadline(row, x) BY <1>1 DEF K!CacheDeadline
  <2>7. Fits(x)' BY <1>1, <2>4, <2>5, <2>6 DEF Fits
  <2> QED BY <1>0, <1>1, <2>1, <2>7 DEF Cover
<1> QED BY <1>1, <1>2, <1>3, <1>4, <1>5, <1>6, EntryStep

\* A rotation writes the values in turn, and will check the row again.
LEMMA FillStep ==
    ASSUME KeySettings, LifeInv, NEW w \in Worker, K!Fill(w)
    PROVE  LifeInv'
<1> DEFINE left == worker[w].left
           c == worker[w].copy
<1>1. /\ LifeTypes /\ EntriesInv /\ now \in Nat /\ row \in KeyRows /\ c \in KeyRows /\ left \in Seq(K!Value)
      /\ KeyPlace(worker[w]) /\ worker[w].pc = "fill" /\ UNCHANGED <<row, tenantStatus, now>> /\ K!WritePayload(w, Head(left))
  BY DEF LifeInv, LifeTypes, Handling, K!Fill, KeyPlaces
<1>2. left # <<>> BY <1>1 DEF KeyPlace
<1>0. Head(left) \in K!Value BY <1>1, <1>2, TailLists
<1>a. PICK x \in K!Value : x = Head(left) BY <1>0
<1>3. /\ x \in K!Value /\ Listed(left, x)
      /\ Len(left) > 1 => Tail(left) \in Seq(K!Value) /\ Tail(left) # <<>>
      /\ \A v \in K!Value : Len(left) > 1 /\ Listed(Tail(left), v) => Listed(left, v)
      /\ \A v \in K!Value : Listed(left, v) /\ v # x => Len(left) > 1 /\ Listed(Tail(left), v)
  BY <1>1, <1>2, <1>a, TailLists
<1>4. x \in {c.value, c.rotated} /\ (worker[w].op # "rotate" => c.active) BY <1>1, <1>3 DEF KeyPlace
<1>5. /\ redis' \in [K!Value -> CacheEntries] /\ tainted' \in [K!Value -> BOOLEAN]
      /\ \A v \in K!Value : v # x => redis'[v] = redis[v] /\ tainted'[v] = tainted[v]
      /\ redis'[x].kind = "payload" => redis'[x].exp > now
      /\ redis'[x].kind = "payload" /\ ~tainted'[x] =>
             ~K!Outdated(w) /\ redis'[x].exp = K!CacheDeadline(c, x) /\ redis'[x].exp > now
  BY <1>1, <1>a, WrittenIs
<1>6. /\ worker' \in [Worker -> Handling] /\ OthersStay(w) /\ KeyPlace(worker[w])'
      /\ \A v \in K!Value : v # x /\ MindsEntry(worker[w], v) => MindsEntry(worker[w], v)'
      /\ worker[w].op = "rotate" => MindsStatus(worker[w])'
  <2>1. CASE Len(left) > 1 /\ worker' = [worker EXCEPT ![w].left = Tail(left)]
    <3>1. Stands(w, worker[w].op, "fill", c, Tail(left), worker[w].token)
      BY <1>1, <1>3, <2>1, LeftStands
    <3>2. \A v \in K!Value : Listed(worker'[w].left, v) => v \in {c.value, c.rotated}
      BY <1>1, <1>3, <2>1, <3>1 DEF Stands, KeyPlace
    <3>3. KeyPlace(worker[w])' BY <1>1, <1>3, <2>1, <3>1, <3>2 DEF Stands, KeyPlace, Listed
    <3>4. ASSUME NEW v \in K!Value, v # x, MindsEntry(worker[w], v) PROVE MindsEntry(worker[w], v)'
      <4>1. CASE Listed(left, v)
        <5>1. Listed(worker'[w].left, v) BY <1>3, <3>1, <3>4, <4>1 DEF Stands
        <5> QED BY <5>1, <3>1 DEF Stands, MindsEntry, Listed
      <4>2. CASE worker[w].op = "rotate" /\ v = worker[w].token /\ c.window <= now
        BY <1>1, <3>1, <4>2 DEF Stands, MindsEntry
      <4> QED BY <1>1, <3>4, <4>1, <4>2 DEF MindsEntry
    <3>5. worker[w].op = "rotate" => MindsStatus(worker[w])' BY <3>1 DEF Stands, MindsStatus
    <3> QED BY <3>1, <3>3, <3>4, <3>5 DEF Stands
  <2>2. CASE ~(Len(left) > 1) /\ worker[w].op = "rotate" /\ K!Goto(w, "drop")
    <3>1. Stands(w, "rotate", "drop", c, left, worker[w].token) BY <1>1, <2>2, GotoStands DEF Stages
    <3>2. KeyPlace(worker[w])' /\ MindsStatus(worker[w])' BY <3>1 DEF Stands, KeyPlace, MindsStatus
    <3>3. ASSUME NEW v \in K!Value, v # x, MindsEntry(worker[w], v) PROVE MindsEntry(worker[w], v)'
      <4>1. ~Listed(left, v) BY <1>3, <2>2, <3>3
      <4>2. v = worker[w].token /\ c.window <= now BY <1>1, <2>2, <3>3, <4>1 DEF MindsEntry
      <4> QED BY <1>1, <3>1, <4>2 DEF Stands, MindsEntry
    <3> QED BY <3>1, <3>2, <3>3 DEF Stands
  <2>3. CASE ~(Len(left) > 1) /\ worker[w].op # "rotate" /\ K!Done(w)
    <3>1. ASSUME NEW v \in K!Value, v # x PROVE ~MindsEntry(worker[w], v)
      <4>1. ~Listed(left, v) BY <1>3, <2>3, <3>1
      <4> QED BY <1>1, <2>3, <4>1 DEF MindsEntry
    <3>2. worker' \in [Worker -> Handling] /\ OthersStay(w) /\ KeyPlace(worker[w])' BY <1>1, <2>3, EndsWell
    <3> QED BY <2>3, <3>1, <3>2
  <2> QED BY <2>1, <2>2, <2>3 DEF K!Fill
<1>7. MindsStatus(worker[w]) => MindsStatus(worker[w])' BY <1>1, <1>6 DEF MindsStatus
<1>8. ASSUME redis'[x].kind = "payload", ~tainted'[x] PROVE Cover(x)'
  <2>1. ~K!Outdated(w) /\ redis'[x].exp = K!CacheDeadline(c, x) /\ redis'[x].exp > now BY <1>5, <1>8
  <2>2. /\ c.value = row.value /\ c.rotated = row.rotated /\ c.window = row.window /\ c.expires = row.expires
        /\ worker[w].op # "rotate" => c.active = row.active /\ tenantStatus = "ACTIVE"
    <3>1. CASE worker[w].op = "rotate"
      <4>1. [c EXCEPT !.active = row.active] = row BY <2>1, <3>1 DEF K!Outdated
      <4> QED BY <1>1, <3>1, <4>1 DEF KeyRows
    <3>2. CASE worker[w].op # "rotate"
      <4>1. c = row /\ tenantStatus = "ACTIVE" BY <2>1, <3>2 DEF K!Outdated
      <4> QED BY <4>1
    <3> QED BY <3>1, <3>2
  <2>3. K!CacheDeadline(c, x) = K!CacheDeadline(row, x) BY <2>2 DEF K!CacheDeadline
  <2>4. redis'[x].exp \in Nat BY <1>3, <1>5 DEF CacheEntries
  <2>5. row.rotated < row.value BY <1>1 DEF EntriesInv
  <2>6. row.expires > now /\ (x = row.value \/ (x = row.rotated /\ row.window > now))
    <3> HIDE DEF c
    <3> QED BY <1>1, <1>3, <1>4, <2>1, <2>2, <2>3, <2>4, <2>5, WrittenFits
  <2>7. redis'[x].exp <= K!CacheDeadline(row, x) BY <2>1, <2>3, <2>4
  <2>8. K!CacheDeadline(row, x)' = K!CacheDeadline(row, x) BY <1>1 DEF K!CacheDeadline
  <2>9. Fits(x)' BY <1>1, <2>6, <2>7, <2>8 DEF Fits
  <2>10. MindsStatus(worker[w])' \/ (row.active /\ tenantStatus = "ACTIVE")'
    BY <1>1, <1>4, <1>6, <2>2
  <2> QED BY <2>9, <2>10 DEF Cover
<1> QED BY <1>1, <1>3, <1>5, <1>6, <1>7, <1>8, EntryStep

\* The entries are deleted in turn.
LEMMA EvictStep ==
    ASSUME KeySettings, LifeInv, NEW w \in Worker, K!Evict(w)
    PROVE  LifeInv'
<1> DEFINE left == worker[w].left
<1>1. /\ LifeTypes /\ now \in Nat /\ left \in Seq(K!Value) /\ KeyPlace(worker[w]) /\ worker[w].pc = "evict"
      /\ UNCHANGED <<row, tenantStatus, now>>
      /\ redis' = K!DeleteEntry(Head(left)) /\ tainted' = [tainted EXCEPT ![Head(left)] = FALSE]
  BY DEF LifeInv, LifeTypes, Handling, K!Evict, KeyPlaces
<1>2. left # <<>> BY <1>1 DEF KeyPlace
<1>3. PICK x \in K!Value : x = Head(left) BY <1>1, <1>2, TailLists
<1>4. /\ Len(left) > 1 => Tail(left) \in Seq(K!Value) /\ Tail(left) # <<>>
      /\ \A v \in K!Value : Listed(left, v) /\ v # x => Len(left) > 1 /\ Listed(Tail(left), v)
  BY <1>1, <1>2, <1>3, TailLists
<1>5. /\ redis' \in [K!Value -> CacheEntries] /\ tainted' \in [K!Value -> BOOLEAN]
      /\ \A v \in K!Value : v # x => redis'[v] = redis[v] /\ tainted'[v] = tainted[v]
      /\ redis'[x].kind # "payload"
  BY <1>1, <1>3, DeletedIs
<1>6. /\ worker' \in [Worker -> Handling] /\ OthersStay(w) /\ KeyPlace(worker[w])'
      /\ \A v \in K!Value : v # x /\ MindsEntry(worker[w], v) => MindsEntry(worker[w], v)'
  <2>0. \A v \in K!Value : MindsEntry(worker[w], v) => Listed(left, v) BY <1>1 DEF MindsEntry
  <2>1. CASE Len(left) > 1 /\ worker' = [worker EXCEPT ![w].left = Tail(left)]
    <3>1. Stands(w, worker[w].op, "evict", worker[w].copy, Tail(left), worker[w].token)
      BY <1>1, <1>4, <2>1, LeftStands
    <3>2. KeyPlace(worker[w])' BY <1>1, <1>4, <2>1, <3>1 DEF Stands, KeyPlace
    <3>3. ASSUME NEW v \in K!Value, v # x, MindsEntry(worker[w], v) PROVE MindsEntry(worker[w], v)'
      <4>1. Listed(worker'[w].left, v) BY <1>4, <2>0, <3>1, <3>3 DEF Stands
      <4> QED BY <4>1, <3>1 DEF Stands, MindsEntry, Listed
    <3> QED BY <3>1, <3>2, <3>3 DEF Stands
  <2>2. CASE ~(Len(left) > 1) /\ K!Done(w)
    <3>1. worker' \in [Worker -> Handling] /\ OthersStay(w) /\ KeyPlace(worker[w])' BY <1>1, <2>2, EndsWell
    <3> QED BY <1>4, <2>0, <2>2, <3>1
  <2> QED BY <2>1, <2>2 DEF K!Evict
<1>7. ~MindsStatus(worker[w]) BY <1>1 DEF MindsStatus
<1> QED BY <1>1, <1>3, <1>5, <1>6, <1>7, EntryStep

\* A rotation with no window drops the old value's entry.
LEMMA RotateDropStep ==
    ASSUME KeySettings, LifeInv, NEW w \in Worker, K!RotateDrop(w)
    PROVE  LifeInv'
<1> DEFINE old == worker[w].token
           c == worker[w].copy
<1>1. /\ LifeTypes /\ now \in Nat /\ c \in KeyRows /\ worker[w].op = "rotate" /\ worker[w].pc = "drop"
      /\ UNCHANGED <<row, tenantStatus, now>> /\ K!Goto(w, "recheck") /\ old \in K!Value \cup {K!NoValue}
  BY DEF LifeInv, LifeTypes, Handling, K!RotateDrop, K!At
<1>2. Stands(w, "rotate", "recheck", c, worker[w].left, old) BY <1>1, GotoStands DEF Stages
<1>3. KeyPlace(worker[w])' /\ MindsStatus(worker[w])' BY <1>2 DEF Stands, KeyPlace, MindsStatus
<1>4. \A v \in K!Value : MindsEntry(worker[w], v) => v = old /\ c.window <= now BY <1>1 DEF MindsEntry
<1>5. CASE UNCHANGED <<redis, tainted>> /\ (K!LiveRotatedKey(c) \/ old = K!NoValue)
  <2>1. c.window \in Nat BY <1>1 DEF KeyRows
  <2>2. K!NoValue \notin K!Value BY DEF KeySettings, K!NoValue, K!Value
  <2>3. \A v \in K!Value : ~MindsEntry(worker[w], v)
    BY <1>1, <1>4, <1>5, <2>1, <2>2 DEF K!LiveRotatedKey
  <2>4. PassesOn(w) BY <1>3, <1>5, <2>3 DEF PassesOn
  <2> QED BY <1>1, <1>2, <1>3, <1>5, <2>4, KeyQuietStep DEF Stands, LifeTypes
<1>6. CASE old \in K!Value /\ redis' = K!DeleteEntry(old) /\ tainted' = [tainted EXCEPT ![old] = FALSE]
  <2>1. PICK x \in K!Value : x = old BY <1>6
  <2>2. /\ redis' \in [K!Value -> CacheEntries] /\ tainted' \in [K!Value -> BOOLEAN]
        /\ \A v \in K!Value : v # x => redis'[v] = redis[v] /\ tainted'[v] = tainted[v]
        /\ redis'[x].kind # "payload"
    BY <1>1, <1>6, <2>1, DeletedIs
  <2> QED BY <1>1, <1>2, <1>3, <1>4, <2>1, <2>2, EntryStep DEF Stands
<1>7. ASSUME old = K!NoValue, redis' = K!DeleteEntry(old), tainted' = [tainted EXCEPT ![old] = FALSE]
      PROVE  UNCHANGED <<redis, tainted>>
  <2>1. K!NoValue \notin K!Value BY DEF KeySettings, K!NoValue, K!Value
  <2> QED BY <1>1, <1>7, <2>1 DEF LifeTypes, K!DeleteEntry
<1> QED BY <1>1, <1>5, <1>6, <1>7 DEF K!RotateDrop

\* What is due expires; what is left still has its time.
LEMMA TickStep ==
    ASSUME KeySettings, LifeInv, K!Tick
    PROVE  LifeInv'
<1> USE DEF K!Tick
<1>1. /\ LifeTypes /\ row \in KeyRows /\ now \in Nat /\ now' = now + 1
      /\ row.window \in Nat /\ row.expires \in Nat /\ row.rotated < row.value
      /\ redis \in [K!Value -> CacheEntries] /\ tainted \in [K!Value -> BOOLEAN]
  BY DEF LifeInv, LifeTypes, KeyRows, EntriesInv
<1>2. K!NoEntry \in CacheEntries /\ K!NoEntry.kind # "payload" BY DEF K!NoEntry, CacheEntries
<1>3. \A v \in K!Value : redis'[v] = IF redis[v].exp > now' THEN redis[v] ELSE K!NoEntry OBVIOUS
<1>4. redis' \in [K!Value -> CacheEntries] BY <1>1, <1>2
<1>5. tainted' \in [K!Value -> BOOLEAN] BY <1>1
<1>6. ASSUME NEW v \in K!Value, redis'[v].kind = "payload"
      PROVE  redis'[v] = redis[v] /\ redis[v].exp > now' /\ redis[v].exp \in Nat /\ (tainted[v] => tainted'[v])
  <2>1. redis'[v] = redis[v] /\ redis[v].exp > now' /\ redis[v].exp \in Nat BY <1>1, <1>2, <1>3, <1>6 DEF CacheEntries
  <2>2. redis'[v] # K!NoEntry BY <1>2, <1>6
  <2>3. tainted'[v] = (tainted[v] /\ redis'[v] # K!NoEntry) OBVIOUS
  <2> QED BY <2>1, <2>2, <2>3
<1>7. LifeTypes' BY <1>1, <1>4, <1>5 DEF LifeTypes
<1>8. KeyPlaces' BY DEF LifeInv, KeyPlaces, KeyPlace, Listed
<1>9. EntriesInv' BY <1>1, <1>6 DEF EntriesInv
<1>10. ASSUME NEW v \in K!Value, redis'[v].kind = "payload", ~tainted'[v] PROVE Cover(v)'
  <2>1. redis'[v] = redis[v] /\ redis[v].exp > now' /\ redis[v].exp \in Nat /\ ~tainted[v] BY <1>6, <1>10
  <2>2. Cover(v) BY <1>10, <2>1 DEF LifeInv, Minded
  <2>3. redis'[v].exp = redis[v].exp /\ now' \in Nat /\ now' >= now BY <1>1, <2>1
  <2>4. Fits(v) => Fits(v)'
    BY <1>1, <2>1 DEF Fits, K!CacheDeadline
  <2>5. ASSUME NEW u \in Worker, MindsEntry(worker[u], v) PROVE MindsEntry(worker[u], v)'
    <3>1. worker'[u] = worker[u] OBVIOUS
    <3>2. worker[u].op = "rotate" /\ worker[u].pc = "reread" /\ v = worker[u].token
             => row'.rotated # v \/ row'.window <= row'.expires \/ redis'[v].exp <= row'.expires
      BY <2>1, <2>5 DEF MindsEntry
    <3> HIDE DEF K!Tick
    <3> QED BY <1>1, <2>3, <2>5, <3>1, <3>2, StillMinds
  <2>6. \A u \in Worker : MindsStatus(worker[u]) => MindsStatus(worker[u])' BY DEF MindsStatus
  <2> QED BY <2>2, <2>4, <2>5, <2>6 DEF Cover
<1>11. Minded' BY <1>10 DEF Minded
<1> QED BY <1>7, <1>8, <1>9, <1>11 DEF LifeInv

-----------------------------------------------------------------------------
(* A key's values: the invariant and the theorems                           *)

\* The entries of a new key, or of one being rotated, are its own.
LEMMA LifeInit ==
    ASSUME KeySettings, K!Init
    PROVE  LifeInv
<1> USE DEF KeySettings
<1>0. 1 \in K!Value /\ 2 \in K!Value /\ Lifetime \in Nat BY DEF K!Value
<1>1. row \in KeyRows /\ row.active /\ row.expires = Lifetime /\ now = 0 /\ tenantStatus = "ACTIVE"
  <2>1. K!Created \in KeyRows /\ K!Created.active /\ K!Created.expires = Lifetime
    BY <1>0 DEF K!Created, KeyRows, K!NoValue
  <2>2. K!BeingRotated \in KeyRows /\ K!BeingRotated.active /\ K!BeingRotated.expires = Lifetime
    BY <1>0, <2>1 DEF K!Created, K!BeingRotated, KeyRows
  <2> QED BY <2>1, <2>2 DEF K!Init
<1>2. \/ row.value = 1 /\ row.rotated = 0 /\ row.window = 0
      \/ row.value = 2 /\ row.rotated = 1 /\ row.window = 1
  <2>1. K!Created.value = 1 /\ K!Created.rotated = 0 /\ K!Created.window = 0 BY DEF K!Created, K!NoValue
  <2>2. K!BeingRotated.value = 2 /\ K!BeingRotated.rotated = 1 /\ K!BeingRotated.window = 1
    BY DEF K!Created, K!BeingRotated
  <2> QED BY <2>1, <2>2 DEF K!Init
<1>3. \A v \in K!Value : redis[v] = IF v = row.value THEN [kind |-> "payload", exp |-> Lifetime]
                                  ELSE IF v = row.rotated THEN [kind |-> "payload", exp |-> row.window]
                                  ELSE K!NoEntry
  BY DEF K!Init
<1>4. redis \in [K!Value -> CacheEntries] BY <1>1, <1>2 DEF K!Init, CacheEntries, K!NoEntry
<1>5. K!Idle \in Handling /\ \A w \in Worker : worker[w] = K!Idle
  <2>1. K!NoCopy \in KeyRows BY DEF K!NoCopy, KeyRows, K!Value, K!NoValue
  <2>2. <<>> \in Seq(K!Value) OBVIOUS
  <2>3. ASSUME NEW c \in KeyRows, NEW l \in Seq(K!Value)
        PROVE  [op |-> "none", pc |-> "idle", copy |-> c, left |-> l, token |-> K!NoValue, until |-> 0]
                   \in Handling
    BY DEF Handling, Ops, Stages
  <2>4. K!Idle \in Handling BY <2>1, <2>2, <2>3, Zenon DEF K!Idle
  <2> QED BY <2>4 DEF K!Init
<1>6. LifeTypes
  <2>1. worker \in [Worker -> Handling] BY <1>5, Zenon DEF K!Init
  <2>2. tainted \in [K!Value -> BOOLEAN] /\ now \in Nat BY <1>1 DEF K!Init
  <2> QED BY <1>1, <1>4, <2>1, <2>2 DEF LifeTypes
<1>7. KeyPlaces
  <2>1. K!Idle.op = "none" /\ K!Idle.pc = "idle" BY DEF K!Idle
  <2>2. \A w \in Worker : worker[w].op = "none" /\ worker[w].pc = "idle" BY <1>5, <2>1, Zenon
  <2> QED BY <2>2 DEF KeyPlaces, KeyPlace
<1>8. ASSUME NEW v \in K!Value, redis[v].kind = "payload"
      PROVE  redis[v].exp > now /\ Fits(v)
  <2>1. v \in {row.value, row.rotated} BY <1>3, <1>8 DEF K!NoEntry
  <2>2. v = row.value => redis[v].exp = Lifetime BY <1>3
  <2>3. v # row.value => v = row.rotated /\ redis[v].exp = row.window BY <1>3, <2>1
  <2>4. v \in Nat /\ v > 0 BY DEF K!Value
  <2> QED BY <1>1, <1>2, <2>1, <2>2, <2>3, <2>4 DEF Fits, K!CacheDeadline
<1>9. EntriesInv BY <1>2, <1>8 DEF EntriesInv
<1>10. Minded BY <1>1, <1>8 DEF Minded, Cover
<1> QED BY <1>6, <1>7, <1>9, <1>10 DEF LifeInv

\* What the invariant speaks of is all that matters to it.
LEMMA LifeStutter ==
    ASSUME LifeInv, UNCHANGED <<row, tenantStatus, redis, tainted, worker, now>>
    PROVE  LifeInv'
BY DEF LifeInv, LifeTypes, KeyPlaces, KeyPlace, Listed, EntriesInv, Minded, Cover, Fits, K!CacheDeadline,
       MindsStatus, MindsEntry

\* Every step keeps the invariant.
LEMMA LifeNext ==
    ASSUME KeySettings, LifeInv, [K!Next]_K!vars
    PROVE  LifeInv'
<1>1. CASE UNCHANGED K!vars BY <1>1, LifeStutter DEF K!vars
<1>2. CASE K!SetApplicationStatus BY <1>2, LifeStutter DEF K!SetApplicationStatus
<1>3. CASE K!Tick BY <1>3, TickStep
<1>4. ASSUME NEW w \in Worker, K!Validate(w) PROVE LifeInv'
  BY <1>4, MissStep, LookupStep, RehydrateStep, TombstoneStep DEF K!Validate
<1>5. ASSUME NEW w \in Worker, K!KeyRequest(w) PROVE LifeInv'
  <2>1. now \in Nat /\ Lifetime \in Nat BY DEF LifeInv, LifeTypes, KeySettings
  <2>2. {0} \cup (now + 1)..(now + Lifetime) \subseteq Nat /\ (now + 1)..(now + Lifetime) \subseteq Nat BY <2>1
  <2>3. CASE \E op \in K!KeyRequests : K!ReadKey(w, op) BY <2>3, ReadKeyStep
  <2>4. CASE K!RevokeCommit(w) \/ K!RevokeReread(w) BY <2>4, RevokeCommitStep, RevokeRereadStep
  <2>5. CASE \E until \in {0} \cup (now + 1)..(now + Lifetime) : K!UpdateCommit(w, until)
    BY <2>2, <2>5, UpdateCommitStep
  <2>6. CASE K!UpdateEligible(w) BY <2>6, EligibleStep
  <2>7. CASE \E grace \in 0..Lifetime : K!RotateCheck(w, grace) BY <2>7, RotateCheckStep
  <2>8. CASE K!RotateCommit(w) \/ K!RotateReread(w) \/ K!RotateDrop(w) \/ K!RotateRecheck(w) \/ K!RotateFails(w)
    BY <2>8, RotateCommitStep, RotateRereadStep, RotateDropStep, RotateRecheckStep, RotateFailsStep
  <2>9. CASE K!EndCommit(w) BY <2>9, EndCommitStep
  <2>10. CASE \E until \in (now + 1)..(now + Lifetime) : K!ExtendCommit(w, until)
    BY <2>2, <2>10, ExtendCommitStep
  <2>11. CASE K!ExtendReread(w) \/ K!ExtendEligible(w) BY <2>11, ExtendRereadStep, ExtendEligibleStep
  <2> QED BY <1>5, <2>3, <2>4, <2>5, <2>6, <2>7, <2>8, <2>9, <2>10, <2>11 DEF K!KeyRequest
<1>6. ASSUME NEW w \in Worker, K!TenantRequest(w) PROVE LifeInv'
  BY <1>6, StatusStep, SuspendStep, DeactivateKeyStep, ResumeReadStep, ResumeListStep DEF K!TenantRequest
<1>7. ASSUME NEW w \in Worker, K!Fill(w) \/ K!Evict(w) \/ K!Abort(w) PROVE LifeInv'
  BY <1>7, FillStep, EvictStep, AbortStep
<1> QED BY <1>1, <1>2, <1>3, <1>4, <1>5, <1>6, <1>7 DEF K!Next

\* With no administrative request in flight nobody minds, so every entry fits.
LEMMA NobodyMinds ==
    ASSUME LifeInv
    PROVE  K!EntryBacked
<1> SUFFICES ASSUME \A w \in Worker : worker[w].op \in {"none", "validate"},
                    NEW v \in K!Value, redis[v].kind = "payload", ~tainted[v]
             PROVE  K!Accepts(row, v) /\ tenantStatus = "ACTIVE" /\ redis[v].exp <= K!CacheDeadline(row, v)
  BY DEF K!EntryBacked
<1>1. Cover(v) BY DEF LifeInv, Minded
<1>2. \A w \in Worker : ~MindsStatus(worker[w]) /\ ~MindsEntry(worker[w], v)
  BY DEF LifeInv, KeyPlaces, KeyPlace, MindsStatus, MindsEntry
<1> QED BY <1>1, <1>2 DEF Cover, Fits, K!Accepts, K!ActiveKey

\* Whatever the interleaving of revocations, updates, rotations, validations and
\* tenant changes: once they are over, every entry that was not written from an
\* outdated copy, nor left by a fault, stands for a value the row accepts.
THEOREM EntryBackedAlways ==
    ASSUME KeySettings
    PROVE  K!Spec => []EntryBacked
<1>1. K!Init => LifeInv BY LifeInit
<1>2. LifeInv /\ [K!Next]_K!vars => LifeInv' BY LifeNext
<1>3. LifeInv => EntryBacked BY NobodyMinds DEF EntryBacked
<1> QED BY <1>1, <1>2, <1>3, PTL DEF K!Spec

\* Which rows a step may make of the row.
LEMMA RowKeeps ==
    ASSUME KeySettings, LifeInv, [K!Next]_K!vars, NEW v \in K!Value, K!Accepts(row, v), ~K!Accepts(row', v)
    PROVE  \/ ~row'.active
           \/ row'.rotated = v
           \/ \E w \in Worker : K!At(w, "end", "begin") /\ worker[w].copy.rotated = v /\ worker'[w].pc = "evict"
<1>1. /\ LifeTypes /\ row \in KeyRows /\ now \in Nat /\ Lifetime \in Nat
      /\ row.window \in Nat /\ row.expires \in Nat /\ v # K!NoValue
  BY DEF LifeInv, LifeTypes, KeyRows, KeySettings, K!Value, K!NoValue
<1>2. row' # row OBVIOUS
<1>3. PICK w \in Worker :
         \/ K!RevokeCommit(w) \/ K!RotateCommit(w) \/ K!EndCommit(w) \/ K!DeactivateRevoke(w)
         \/ \E until \in {0} \cup (now + 1)..(now + Lifetime) : K!UpdateCommit(w, until)
         \/ \E until \in (now + 1)..(now + Lifetime) : K!ExtendCommit(w, until)
  <2> USE <1>2
  <2>1. ~UNCHANGED K!vars /\ ~K!SetApplicationStatus /\ ~K!Tick BY DEF K!vars, K!SetApplicationStatus, K!Tick
  <2>2. ASSUME NEW u \in Worker PROVE ~K!Validate(u)
    BY DEF K!Validate, K!ValidateMiss, K!ValidateLookup, K!ValidateRehydrate, K!ValidateTombstone
  <2>3. ASSUME NEW u \in Worker PROVE ~K!Fill(u) /\ ~K!Evict(u) /\ ~K!Abort(u)
    BY DEF K!Fill, K!Evict, K!Abort
  <2>4. ASSUME NEW u \in Worker, K!TenantRequest(u) PROVE K!DeactivateRevoke(u)
    BY <2>4 DEF K!TenantRequest, K!SetTenantStatus, K!SuspendList, K!ResumeRead, K!ResumeList
  <2>5. ASSUME NEW u \in Worker, K!KeyRequest(u)
        PROVE  \/ K!RevokeCommit(u) \/ K!RotateCommit(u) \/ K!EndCommit(u)
               \/ \E until \in {0} \cup (now + 1)..(now + Lifetime) : K!UpdateCommit(u, until)
               \/ \E until \in (now + 1)..(now + Lifetime) : K!ExtendCommit(u, until)
    <3>1. \A op \in K!KeyRequests : ~K!ReadKey(u, op) BY DEF K!ReadKey
    <3>2. \A grace \in 0..Lifetime : ~K!RotateCheck(u, grace) BY DEF K!RotateCheck
    <3>3. ~K!RevokeReread(u) /\ ~K!UpdateEligible(u) /\ ~K!RotateReread(u) /\ ~K!RotateDrop(u)
      BY DEF K!RevokeReread, K!UpdateEligible, K!RotateReread, K!RotateDrop
    <3>4. ~K!RotateRecheck(u) /\ ~K!RotateFails(u) /\ ~K!ExtendReread(u) /\ ~K!ExtendEligible(u)
      BY DEF K!RotateRecheck, K!RotateFails, K!ExtendReread, K!ExtendEligible
    <3> QED BY <2>5, <3>1, <3>2, <3>3, <3>4 DEF K!KeyRequest
  <2> QED BY <2>1, <2>2, <2>3, <2>4, <2>5 DEF K!Next
<1>4. CASE K!RevokeCommit(w) \/ K!DeactivateRevoke(w)
  BY <1>1, <1>4 DEF K!RevokeCommit, K!DeactivateRevoke, KeyRows
<1>5. CASE K!RotateCommit(w)
  <2>1. K!MayRotate(row, worker[w].token) /\ row' = [row EXCEPT !.rotated = row.value, !.value = row.value + 1,
                                                                !.window = worker[w].until]
    BY <1>2, <1>5 DEF K!RotateCommit
  <2>2. row'.rotated = row.value BY <1>1, <2>1 DEF KeyRows
  <2>3. ~K!LiveRotatedKey(row) BY <2>1 DEF K!MayRotate
  <2> QED BY <1>1, <2>2, <2>3 DEF K!Accepts, K!LiveRotatedKey
<1>6. CASE K!EndCommit(w)
  <2> DEFINE c == worker[w].copy
  <2>1. /\ K!At(w, "end", "begin") /\ K!MayEnd(row, c.rotated)
        /\ row' = [row EXCEPT !.rotated = K!NoValue, !.window = 0]
        /\ K!Entries(w, "evict", row', <<c.rotated>>)
    BY <1>2, <1>6 DEF K!EndCommit
  <2>2. row'.active = row.active /\ row'.value = row.value /\ row'.expires = row.expires
    BY <1>1, <2>1 DEF KeyRows
  <2>3. v = c.rotated BY <1>1, <2>1, <2>2 DEF K!Accepts, K!ActiveKey, K!MayEnd
  <2>4. worker'[w].pc = "evict"
    <3>1. worker \in [Worker -> Handling] BY <1>1 DEF LifeTypes
    <3> QED BY <2>1, <3>1 DEF K!Entries, Handling
  <2> QED BY <2>1, <2>3, <2>4
<1>7. CASE \E until \in {0} \cup (now + 1)..(now + Lifetime) : K!UpdateCommit(w, until)
  <2>1. PICK until \in {0} \cup (now + 1)..(now + Lifetime) : K!UpdateCommit(w, until) BY <1>7
  <2>2. until \in Nat /\ (until = 0 \/ until > now) BY <1>1
  <2>3. row' = UpdatedRow(worker[w].copy, until, row) BY <1>1, <2>1, <2>2, UpdateStands
  <2>4. until # 0 BY <1>2, <2>3 DEF UpdatedRow
  <2>5. worker[w].copy \in KeyRows /\ worker[w].copy.window \in Nat BY <1>1 DEF LifeTypes, Handling, KeyRows
  <2>6. /\ row'.active = row.active /\ row'.value = row.value /\ row'.rotated = row.rotated
        /\ row'.expires = until /\ row'.window = IF worker[w].copy.window > until THEN until ELSE row.window
    <3> DEFINE c == worker[w].copy
    <3>1. c \in KeyRows /\ row' = UpdatedRow(c, until, row) BY <2>3, <2>5
    <3>2. /\ row'.active = row.active /\ row'.value = row.value /\ row'.rotated = row.rotated
          /\ row'.expires = until /\ row'.window = IF c.window > until THEN until ELSE row.window
      <4> HIDE DEF c
      <4> QED BY <1>1, <2>2, <2>4, <3>1 DEF UpdatedRow, KeyRows
    <3> QED BY <3>2
  <2> QED BY <1>1, <2>2, <2>4, <2>5, <2>6 DEF K!Accepts, K!ActiveKey
<1>8. CASE \E until \in (now + 1)..(now + Lifetime) : K!ExtendCommit(w, until)
  <2>1. PICK until \in (now + 1)..(now + Lifetime) : K!ExtendCommit(w, until) BY <1>8
  <2>2. row' = [row EXCEPT !.window = until] BY <1>2, <2>1 DEF K!ExtendCommit
  <2>3. /\ row'.active = row.active /\ row'.value = row.value /\ row'.rotated = row.rotated
        /\ row'.expires = row.expires /\ row'.window = until /\ until > now
    <3>1. until \in Nat /\ until > now BY <1>1
    <3> QED BY <1>1, <2>2, <3>1 DEF KeyRows
  <2> QED BY <1>1, <2>3 DEF K!Accepts, K!ActiveKey
<1> QED BY <1>3, <1>4, <1>5, <1>6, <1>7, <1>8

\* No race of rotations, updates or ends takes a value away from its holder: it
\* stops by time, by revocation, by its own rotation or by its own end.
THEOREM PreviousKeepsWorkingAlways ==
    ASSUME KeySettings
    PROVE  K!Spec => PreviousKeepsWorking
<1>1. K!Init => LifeInv BY LifeInit
<1>2. LifeInv /\ [K!Next]_K!vars => LifeInv' BY LifeNext
<1> DEFINE Kept == \A v \in K!Value :
                      K!Accepts(row, v) /\ ~K!Accepts(row', v)
                          => \/ now' # now
                             \/ ~row'.active
                             \/ row'.rotated = v
                             \/ \E w \in Worker : /\ K!At(w, "end", "begin")
                                                  /\ worker[w].copy.rotated = v
                                                  /\ worker'[w].pc = "evict"
<1>3. LifeInv /\ [K!Next]_K!vars => [Kept]_K!vars BY RowKeeps
<1> QED BY <1>1, <1>2, <1>3, PTL DEF K!Spec, PreviousKeepsWorking, K!PreviousKeepsWorking

-----------------------------------------------------------------------------
(* Quota changes: types                                                     *)

Quota == Limit \cup {NoQuota}
QuotaRow == [monthly : Quota, pending : Quota]
Announcement == [from : Quota, to : Quota, effective : Nat]

\* The model value for the absence of news is no announcement.
NoNewsIsNone == NoNews \notin Announcement

Pcs == {"idle", "edit", "cancel", "cron", "lookup", "claim", "recipients", "deliver"}

QuotaRequest ==
    [pc : Pcs, copy : QuotaRow \cup {NoQuota}, limit : Quota, cancels : BOOLEAN,
     news : Announcement \cup {NoNews}, won : SUBSET Q!Audience]

\* A request that will commit holds the row it read, and one that announces its news.
Holds(r) ==
    /\ r.pc \in {"edit", "cancel", "cron"} => r.copy \in QuotaRow
    /\ r.pc \in {"lookup", "claim", "recipients", "deliver"} => r.news \in Announcement

QuotaTypes ==
    /\ month \in Nat /\ quota \in QuotaRow /\ enabled \subseteq Q!Audience
    /\ qreq \in [Worker -> QuotaRequest]
    /\ \A w \in Worker : Holds(qreq[w])
    /\ told \in [Q!Audience -> Announcement \cup {NoNews}]
    /\ missed \in [Q!Audience -> SUBSET Announcement]
    /\ since \in [effective : Nat, sound : BOOLEAN]

-----------------------------------------------------------------------------
(* Quota changes: the invariant                                             *)

\* A quota other than the present one is scheduled.
Live == quota.pending \notin {NoQuota, quota.monthly}

\* Somebody heard the news last, or it is accounted for.
Heard(a, news) == told[a] = news \/ news \in missed[a]

\* While nothing has disturbed it, one announcement at a time is on its way.
OneVoice ==
    since.sound => \A v, w \in Worker : Q!Announcing(v) /\ Q!Announcing(w) => v = w

\* It is of the date, and of the quota if that is still scheduled.
SaysSo ==
    since.sound => \A w \in Worker : Q!Announcing(w) =>
        /\ qreq[w].news.effective = since.effective
        /\ Live => qreq[w].news = Q!News(quota.monthly, quota.pending, since.effective)
        /\ Q!At(w, "lookup") => since.effective = month + 1
        /\ qreq[w].pc \in {"lookup", "claim"} => Q!Agreed

\* Whoever is not waiting for it has heard.
OthersHeard ==
    since.sound => \A w \in Worker : qreq[w].pc \in {"recipients", "deliver"} =>
        \A a \in enabled : a \in qreq[w].won \/ a = Admin \/ Heard(a, qreq[w].news)

QuotaInv == QuotaTypes /\ OneVoice /\ SaysSo /\ OthersHeard /\ Q!ScheduledIsTold

-----------------------------------------------------------------------------
(* Quota changes: a step of a request                                       *)

\* The request of w is now r, and the others are what they were.
QuotaBecomes(w, r) ==
    /\ qreq'[w] = r
    /\ \A v \in Worker \ {w} : qreq'[v] = qreq[v]

\* A request that is replaced by one of the right form leaves all of them so.
LEMMA QuotaRequestStep ==
    ASSUME QuotaTypes, NEW w \in Worker, NEW r \in QuotaRequest, Holds(r),
           qreq' = [qreq EXCEPT ![w] = r]
    PROVE  /\ qreq' \in [Worker -> QuotaRequest]
           /\ \A v \in Worker : Holds(qreq'[v])
           /\ QuotaBecomes(w, r)
  BY DEF QuotaTypes, QuotaBecomes

\* The form of a request that is doing nothing.
LEMMA IdleRequest == Q!Idle \in QuotaRequest /\ Holds(Q!Idle) /\ Q!Idle.pc = "idle"
  BY DEF Q!Idle, QuotaRequest, Holds, Pcs, Quota

\* What the news of an announcement and a pending quota are made of.
LEMMA NewsTypes ==
    ASSUME NEW from \in Quota, NEW to \in Quota, NEW effective \in Nat
    PROVE  /\ Q!News(from, to, effective) \in Announcement
           /\ Q!News(from, to, effective).effective = effective
           /\ Q!News(from, to, effective).from = from
           /\ Q!News(from, to, effective).to = to
  BY DEF Q!News, Announcement

\* What a request sets aside for the next month is a quota, or none.
LEMMA PendingTypes ==
    ASSUME QuotaTypes, NEW w \in Worker, Holds(qreq[w]), qreq[w].pc \in {"edit", "cancel", "cron"}
    PROVE  Q!Pending(w) \in Quota
  BY DEF QuotaTypes, Q!Pending, QuotaRow, Quota, QuotaRequest

\* The request after each step, and that it has the form of its place.
LEMMA BeginBecomes ==
    ASSUME QuotaTypes, NEW w \in Worker, NEW pc \in {"edit", "cancel", "cron"},
           NEW limit \in Quota, NEW cancels \in BOOLEAN, Q!Begin(w, pc, limit, cancels)
    PROVE  \E r \in QuotaRequest :
             Holds(r) /\ r.pc = pc /\ qreq' = [qreq EXCEPT ![w] = r]
  <1> DEFINE r == [Q!Idle EXCEPT !.pc = pc, !.copy = quota, !.limit = limit, !.cancels = cancels]
  <1>1. r \in QuotaRequest /\ Holds(r) /\ r.pc = pc
    BY DEF QuotaTypes, Q!Idle, QuotaRequest, Holds, Pcs, Quota
  <1>2. qreq' = [qreq EXCEPT ![w] = r]
    BY DEF Q!Begin
  <1> QED BY <1>1, <1>2

\* An edit that changes the quota goes on to announce it; another one ends.
LEMMA EditBecomes ==
    ASSUME QuotaTypes, NEW w \in Worker, Q!EditCommit(w)
    PROVE  \E r \in QuotaRequest :
             /\ Holds(r) /\ qreq' = [qreq EXCEPT ![w] = r]
             /\ IF Q!Changes(qreq[w].copy, qreq[w].limit)
                THEN /\ r.pc = "lookup"
                     /\ r.news = Q!News(qreq[w].copy.monthly, qreq[w].limit, month + 1)
                ELSE r.pc = "idle"
  <1> DEFINE news == Q!News(qreq[w].copy.monthly, qreq[w].limit, month + 1)
             r == [Q!Idle EXCEPT !.pc = "lookup", !.news = news]
  <1>1. qreq[w].copy.monthly \in Quota /\ qreq[w].limit \in Quota /\ month + 1 \in Nat
    BY DEF QuotaTypes, Q!EditCommit, Q!At, Holds, QuotaRow, QuotaRequest
  <1>2. news \in Announcement
    BY <1>1, NewsTypes
  <1> HIDE DEF news
  <1>3. r \in QuotaRequest /\ Holds(r) /\ r.pc = "lookup" /\ r.news = news
    BY <1>2 DEF Q!Idle, QuotaRequest, Holds, Pcs, Quota
  <1>4. CASE Q!Changes(qreq[w].copy, qreq[w].limit)
    <2>1. qreq' = [qreq EXCEPT ![w] = r]
      BY <1>4 DEF Q!EditCommit, news
    <2> QED BY <1>3, <1>4, <2>1 DEF news
  <1>5. CASE ~Q!Changes(qreq[w].copy, qreq[w].limit)
    BY <1>5, IdleRequest DEF Q!EditCommit
  <1> QED BY <1>4, <1>5

\* With no tenant to tell the announcement ends.
LEMMA LookupBecomes ==
    ASSUME QuotaTypes, NEW w \in Worker, Q!Lookup(w)
    PROVE  \E r \in QuotaRequest :
             /\ Holds(r) /\ qreq' = [qreq EXCEPT ![w] = r]
             /\ IF enabled \intersect Tenant = {} THEN r.pc = "idle"
                ELSE /\ r.pc = "claim"
                     /\ r.news = [qreq[w].news EXCEPT !.effective = month + 1]
  <1> DEFINE r == [qreq[w] EXCEPT !.pc = "claim", !.news.effective = month + 1]
  <1>1. qreq[w] \in QuotaRequest /\ qreq[w].news \in Announcement /\ month + 1 \in Nat
    BY DEF QuotaTypes, Q!Lookup, Q!At, Holds
  <1>2. [qreq[w].news EXCEPT !.effective = month + 1] \in Announcement
    BY <1>1 DEF Announcement
  <1>3. r \in QuotaRequest /\ Holds(r) /\ r.pc = "claim"
        /\ r.news = [qreq[w].news EXCEPT !.effective = month + 1]
    BY <1>1, <1>2 DEF QuotaRequest, Holds, Pcs
  <1>4. CASE enabled \intersect Tenant = {}
    BY <1>4, IdleRequest DEF Q!Lookup
  <1>5. CASE enabled \intersect Tenant # {}
    <2>1. qreq' = [qreq EXCEPT ![w] = r]
      BY <1>5 DEF Q!Lookup
    <2> QED BY <1>3, <1>5, <2>1
  <1> QED BY <1>4, <1>5

\* An announcement whose every claim was lost ends.
LEMMA ClaimBecomes ==
    ASSUME QuotaTypes, NEW w \in Worker, Q!Claim(w)
    PROVE  \E r \in QuotaRequest :
             /\ Holds(r) /\ qreq' = [qreq EXCEPT ![w] = r]
             /\ IF Q!Won(w) = {} THEN r.pc = "idle"
                ELSE r.pc = "recipients" /\ r.news = qreq[w].news /\ r.won = Q!Won(w)
  <1> DEFINE r == [qreq[w] EXCEPT !.pc = "recipients", !.won = Q!Won(w)]
  <1>1. qreq[w] \in QuotaRequest /\ qreq[w].news \in Announcement /\ Q!Won(w) \subseteq Q!Audience
    BY DEF QuotaTypes, Q!Claim, Q!At, Holds, Q!Won, Q!Audience
  <1>3. r \in QuotaRequest /\ Holds(r) /\ r.pc = "recipients" /\ r.news = qreq[w].news
        /\ r.won = Q!Won(w)
    BY <1>1 DEF QuotaRequest, Holds, Pcs
  <1>4. CASE Q!Won(w) = {}
    BY <1>4, IdleRequest DEF Q!Claim
  <1>5. CASE Q!Won(w) # {}
    <2>1. qreq' = [qreq EXCEPT ![w] = r]
      BY <1>5 DEF Q!Claim
    <2> QED BY <1>3, <1>5, <2>1
  <1> QED BY <1>4, <1>5

\* The recipients are read, and the delivery begins.
LEMMA RecipientsBecomes ==
    ASSUME QuotaTypes, NEW w \in Worker, Q!Recipients(w)
    PROVE  \E r \in QuotaRequest :
             /\ Holds(r) /\ qreq' = [qreq EXCEPT ![w] = r]
             /\ r.pc = "deliver" /\ r.news = qreq[w].news /\ r.won = qreq[w].won
  <1> DEFINE r == [qreq[w] EXCEPT !.pc = "deliver"]
  <1>1. qreq[w] \in QuotaRequest /\ qreq[w].news \in Announcement
    BY DEF QuotaTypes, Q!Recipients, Q!At, Holds
  <1>2. r \in QuotaRequest /\ Holds(r) /\ r.pc = "deliver" /\ r.news = qreq[w].news
        /\ r.won = qreq[w].won
    BY <1>1 DEF QuotaRequest, Holds, Pcs
  <1>3. qreq' = [qreq EXCEPT ![w] = r]
    BY DEF Q!Recipients
  <1> QED BY <1>2, <1>3

\* After one of the audience is served the others are due.
LEMMA ServedForm ==
    ASSUME QuotaTypes, NEW w \in Worker, Q!At(w, "deliver"), NEW a \in Q!Audience
    PROVE  /\ Q!Served(w, a) \in QuotaRequest /\ Holds(Q!Served(w, a))
           /\ IF Q!Due(w) = {a} /\ (a = Admin \/ Admin \notin enabled) THEN Q!Served(w, a).pc = "idle"
              ELSE /\ Q!Served(w, a).pc = "deliver" /\ Q!Served(w, a).news = qreq[w].news
                   /\ Q!Served(w, a).won = qreq[w].won \ {a}
  <1> DEFINE r == [qreq[w] EXCEPT !.won = @ \ {a}]
  <1>1. qreq[w] \in QuotaRequest /\ qreq[w].news \in Announcement /\ qreq[w].pc = "deliver"
    BY DEF QuotaTypes, Q!At, Holds
  <1>2. r \in QuotaRequest /\ Holds(r) /\ r.pc = "deliver" /\ r.news = qreq[w].news
        /\ r.won = qreq[w].won \ {a}
    BY <1>1 DEF QuotaRequest, Holds, Pcs
  <1> QED BY <1>2, IdleRequest DEF Q!Served

\* The audience a failure is noted for has heard in a manner of speaking, and nobody
\* else has heard less.
LEMMA MissFacts ==
    ASSUME QuotaTypes, NEW w \in Worker, Q!Announcing(w), NEW S \in SUBSET Q!Audience
    PROVE  /\ Q!Miss(w, S) \in [Q!Audience -> SUBSET Announcement]
           /\ \A a \in Q!Audience : missed[a] \subseteq Q!Miss(w, S)[a]
           /\ \A a \in S : qreq[w].news \in Q!Miss(w, S)[a]
  BY DEF QuotaTypes, Q!Announcing, Holds, Q!Miss

\* Types are kept by every step.
LEMMA QuotaTypesStep ==
    ASSUME QuotaTypes, [Q!Next]_Q!vars
    PROVE  QuotaTypes'
  <1> USE DEF QuotaTypes
  <1> DEFINE Requests == qreq' \in [Worker -> QuotaRequest] /\ \A w \in Worker : Holds(qreq'[w])
             Others == /\ month' \in Nat /\ quota' \in QuotaRow /\ enabled' \subseteq Q!Audience
                       /\ told' \in [Q!Audience -> Announcement \cup {NoNews}]
                       /\ missed' \in [Q!Audience -> SUBSET Announcement]
                       /\ since' \in [effective : Nat, sound : BOOLEAN]
  <1>0. Q!Audience' = Q!Audience
    BY DEF Q!Audience
  <1>1. ASSUME NEW w \in Worker, NEW pc \in {"edit", "cancel", "cron"},
               NEW limit \in Quota, NEW cancels \in BOOLEAN, Q!Begin(w, pc, limit, cancels)
        PROVE  Requests /\ Others
    <2>1. Requests
      BY <1>1, BeginBecomes, QuotaRequestStep
    <2> QED BY <1>1, <2>1 DEF Q!Begin
  <1>2. ASSUME NEW w \in Worker, Q!EditCommit(w)
        PROVE  Requests /\ Others
    <2>1. Q!Pending(w) \in Quota /\ month + 1 \in Nat
      BY <1>2, PendingTypes DEF Q!EditCommit, Q!At
    <2>2. quota' \in QuotaRow
      BY <1>2, <2>1 DEF Q!EditCommit, QuotaRow
    <2>3. Requests
      BY <1>2, EditBecomes, QuotaRequestStep
    <2>4. since' \in [effective : Nat, sound : BOOLEAN]
      <3> DEFINE sound == /\ ~Q!Stale(w) /\ Q!Agreed
                          /\ \A v \in Worker \ {w} : ~Q!Announcing(v)
                 still == since.sound /\ ~Q!Stale(w)
      <3>1. sound \in BOOLEAN /\ still \in BOOLEAN
        BY Zenon
      <3>2. \/ since' = [effective |-> month + 1, sound |-> sound]
            \/ since' = [since EXCEPT !.sound = still]
        BY <1>2 DEF Q!EditCommit
      <3> HIDE DEF sound, still
      <3> QED BY <2>1, <3>1, <3>2
    <2> QED BY <1>2, <2>2, <2>3, <2>4 DEF Q!EditCommit
  <1>3. ASSUME NEW w \in Worker, Q!CancelCommit(w) \/ Q!CronCommit(w)
        PROVE  Requests /\ Others
    <2>1. Q!Pending(w) \in Quota /\ qreq[w].copy \in QuotaRow
      BY <1>3, PendingTypes DEF Q!CancelCommit, Q!CronCommit, Q!At, Holds
    <2>2. quota' \in QuotaRow
      BY <1>3, <2>1 DEF Q!CancelCommit, Q!CronCommit, QuotaRow
    <2>3. Requests
      BY <1>3, IdleRequest, QuotaRequestStep DEF Q!CancelCommit, Q!CronCommit
    <2>4. since' \in [effective : Nat, sound : BOOLEAN]
      BY <1>3 DEF Q!CancelCommit, Q!CronCommit
    <2> QED BY <1>3, <2>2, <2>3, <2>4 DEF Q!CancelCommit, Q!CronCommit
  <1>4. ASSUME NEW w \in Worker, Q!Lookup(w) \/ Q!Claim(w) \/ Q!Recipients(w)
        PROVE  Requests /\ Others
    <2>1. Requests
      BY <1>4, LookupBecomes, ClaimBecomes, RecipientsBecomes, QuotaRequestStep
    <2> QED BY <1>4, <2>1 DEF Q!Lookup, Q!Claim, Q!Recipients
  <1>5. ASSUME NEW w \in Worker, Q!Deliver(w) \/ Q!DeliverFails(w)
        PROVE  Requests /\ Others
    <2>0. Q!At(w, "deliver") /\ Q!Announcing(w)
      BY <1>5 DEF Q!Deliver, Q!DeliverFails, Q!At, Q!Announcing
    <2>1. qreq[w].news \in Announcement /\ Q!Due(w) \subseteq Q!Audience
      BY <2>0 DEF Q!At, Holds, Q!Due, QuotaRequest
    <2>2. PICK a \in Q!Due(w) : /\ qreq' = [qreq EXCEPT ![w] = Q!Served(w, a)]
                                /\ \/ told' = [told EXCEPT ![a] = qreq[w].news] /\ missed' = missed
                                   \/ told' = told /\ missed' = Q!Miss(w, {a})
      BY <1>5 DEF Q!Deliver, Q!DeliverFails
    <2>3. Requests
      BY <2>0, <2>1, <2>2, ServedForm, QuotaRequestStep
    <2>4. Q!Miss(w, {a}) \in [Q!Audience -> SUBSET Announcement]
      BY <2>0, <2>1, <2>2, MissFacts
    <2> QED BY <1>5, <2>1, <2>2, <2>3, <2>4 DEF Q!Deliver, Q!DeliverFails
  <1>6. ASSUME NEW w \in Worker, Q!Fails(w) \/ Q!ClaimFails(w)
        PROVE  Requests /\ Others
    <2>1. Q!Announcing(w) /\ Q!Waiting(w) \subseteq Q!Audience
      BY <1>6 DEF Q!Fails, Q!ClaimFails, Q!At, Q!Announcing, Q!Waiting, Q!Due, QuotaRequest
    <2>2. missed' \in [Q!Audience -> SUBSET Announcement]
      BY <1>6, <2>1, MissFacts DEF Q!Fails, Q!ClaimFails
    <2>3. Requests
      BY <1>6, IdleRequest, QuotaRequestStep DEF Q!Fails, Q!ClaimFails
    <2> QED BY <1>6, <2>2, <2>3 DEF Q!Fails, Q!ClaimFails
  <1>7. CASE Q!Tick \/ UNCHANGED Q!vars
    <2> DEFINE still == since.sound /\ \A w \in Worker : ~Q!At(w, "lookup")
    <2>1. still \in BOOLEAN
      BY Zenon
    <2>2. CASE Q!Tick
      <3>1. since' = [since EXCEPT !.sound = still] /\ month' \in Nat
        BY <2>2 DEF Q!Tick
      <3> HIDE DEF still
      <3>2. since' \in [effective : Nat, sound : BOOLEAN]
        BY <2>1, <3>1
      <3> QED BY <1>0, <2>2, <3>1, <3>2 DEF Q!Tick
    <2>3. CASE UNCHANGED Q!vars
      BY <1>0, <2>3 DEF Q!vars
    <2> QED BY <1>7, <2>2, <2>3
  <1>8. ASSUME NEW w \in Worker, Q!EditRead(w) \/ Q!CancelRead(w) \/ Q!CronRead(w)
        PROVE  Requests /\ Others
    BY <1>1, <1>8 DEF Q!EditRead, Q!CancelRead, Q!CronRead, Quota
  <1> QED BY <1>0, <1>2, <1>3, <1>4, <1>5, <1>6, <1>7, <1>8 DEF Q!Next

-----------------------------------------------------------------------------
(* Quota changes: the invariant is kept                                     *)

\* What a commit says of the announcement.
LEMMA CommitSince ==
    ASSUME QuotaTypes, NEW w \in Worker
    PROVE  /\ Q!EditCommit(w) /\ Q!Changes(qreq[w].copy, qreq[w].limit) =>
                /\ since'.effective = month + 1
                /\ since'.sound => /\ qreq[w].copy = quota /\ Q!Agreed
                                   /\ \A v \in Worker \ {w} : ~Q!Announcing(v)
           /\ \/ Q!EditCommit(w) /\ ~Q!Changes(qreq[w].copy, qreq[w].limit)
              \/ Q!CancelCommit(w) \/ Q!CronCommit(w)
              => /\ since'.effective = since.effective
                 /\ since'.sound => since.sound /\ qreq[w].copy = quota
           /\ Q!Tick => /\ since'.effective = since.effective
                        /\ since'.sound => since.sound /\ \A v \in Worker : ~Q!At(v, "lookup")
  <1> DEFINE sound == /\ ~Q!Stale(w) /\ Q!Agreed
                      /\ \A v \in Worker \ {w} : ~Q!Announcing(v)
             still == since.sound /\ ~Q!Stale(w)
             ticks == since.sound /\ \A v \in Worker : ~Q!At(v, "lookup")
  <1>1. ASSUME Q!EditCommit(w), Q!Changes(qreq[w].copy, qreq[w].limit)
        PROVE  since' = [effective |-> month + 1, sound |-> sound]
    BY <1>1 DEF Q!EditCommit
  <1>2. ASSUME \/ Q!EditCommit(w) /\ ~Q!Changes(qreq[w].copy, qreq[w].limit)
               \/ Q!CancelCommit(w) \/ Q!CronCommit(w)
        PROVE  since' = [since EXCEPT !.sound = still]
    BY <1>2 DEF Q!EditCommit, Q!CancelCommit, Q!CronCommit
  <1>3. ASSUME Q!Tick
        PROVE  since' = [since EXCEPT !.sound = ticks]
    BY <1>3 DEF Q!Tick
  <1>4. sound => /\ qreq[w].copy = quota /\ Q!Agreed
                 /\ \A v \in Worker \ {w} : ~Q!Announcing(v)
    BY DEF Q!Stale
  <1>5. still => since.sound /\ qreq[w].copy = quota
    BY DEF Q!Stale
  <1>6. ticks => since.sound /\ \A v \in Worker : ~Q!At(v, "lookup")
    OBVIOUS
  <1>7. since \in [effective : Nat, sound : BOOLEAN]
    BY DEF QuotaTypes
  <1> HIDE DEF sound, still, ticks
  <1> QED BY <1>1, <1>2, <1>3, <1>4, <1>5, <1>6, <1>7

\* A commit from a current copy leaves a quota scheduled as it was, or announces it.
LEMMA QuotaAfterCommit ==
    ASSUME QuotaTypes, NEW w \in Worker, qreq[w].copy = quota
    PROVE  /\ Q!EditCommit(w) /\ Q!Changes(qreq[w].copy, qreq[w].limit) /\ Live' =>
                quota' = [monthly |-> quota.monthly, pending |-> qreq[w].limit]
           /\ Q!EditCommit(w) /\ ~Q!Changes(qreq[w].copy, qreq[w].limit) /\ Live' => quota' = quota
           /\ Q!CancelCommit(w) \/ Q!CronCommit(w) => ~Live'
  <1> USE DEF QuotaTypes, QuotaRow, QuotaRequest
  <1>1. Q!EditCommit(w) /\ Q!Changes(qreq[w].copy, qreq[w].limit) /\ Live' =>
                quota' = [monthly |-> quota.monthly, pending |-> qreq[w].limit]
    BY DEF Q!EditCommit, Q!Changes, Q!Scheduled, Live, Q!Pending, Q!At
  <1>2. Q!EditCommit(w) /\ ~Q!Changes(qreq[w].copy, qreq[w].limit) /\ Live' => quota' = quota
    BY DEF Q!EditCommit, Q!Changes, Q!Scheduled, Live, Q!Pending, Q!At
  <1>3. Q!CancelCommit(w) \/ Q!CronCommit(w) => ~Live'
    BY DEF Q!CancelCommit, Q!CronCommit, Live, Q!Pending, Q!At
  <1> QED BY <1>1, <1>2, <1>3

\* A request that announces nothing, before and after, while all else stays.
LEMMA QuotaQuietStep ==
    ASSUME QuotaInv, NEW w \in Worker, NEW r, ~Q!Announcing(w), QuotaBecomes(w, r),
           r.pc \in {"idle", "edit", "cancel", "cron"},
           UNCHANGED <<month, enabled, alerts, told, missed>>,
           since'.effective = since.effective, since'.sound => since.sound,
           since'.sound /\ Live' => quota' = quota
    PROVE  OneVoice' /\ SaysSo' /\ OthersHeard' /\ Q!ScheduledIsTold'
  <1>1. ~Q!Announcing(w)' /\ \A v \in Worker \ {w} : qreq'[v] = qreq[v]
    BY DEF Q!Announcing, QuotaBecomes
  <1>2. \A v \in Worker : Q!Announcing(v)' <=> Q!Announcing(v)
    BY <1>1 DEF Q!Announcing
  <1>3. Q!Agreed' <=> Q!Agreed
    BY DEF Q!Agreed, Q!Fingerprint
  <1>4. OneVoice'
    BY <1>2 DEF QuotaInv, OneVoice
  <1>5. SaysSo'
    BY <1>1, <1>2, <1>3 DEF QuotaInv, SaysSo, Q!At, Live, Q!News, Q!Announcing
  <1>6. OthersHeard'
    BY <1>1, <1>2 DEF QuotaInv, OthersHeard, Heard, Q!Announcing
  <1>7. Q!ScheduledIsTold'
    BY <1>2 DEF QuotaInv, Q!ScheduledIsTold, Live
  <1> QED BY <1>4, <1>5, <1>6, <1>7

\* An announcement that goes on or ends, quota and month being what they were.
LEMMA AnnouncingStep ==
    ASSUME QuotaInv, NEW w \in Worker, NEW r, NEW news, news = qreq[w].news,
           Q!Announcing(w), QuotaBecomes(w, r),
           UNCHANGED <<month, quota, enabled, since>>,
           r.pc \in {"claim", "recipients", "deliver", "idle"},
           since.sound /\ r.pc # "idle" =>
               /\ r.news = news
               /\ r.pc = "claim" => Q!Agreed'
               /\ r.pc \in {"recipients", "deliver"} =>
                     \A a \in enabled : a \in r.won \/ a = Admin \/ Heard(a, news)',
           since.sound /\ r.pc = "idle" =>
               \/ enabled \intersect Tenant = {}
               \/ \A a \in enabled : Heard(a, news)'
    PROVE  OneVoice' /\ SaysSo' /\ OthersHeard' /\ Q!ScheduledIsTold'
  <1>1. SUFFICES ASSUME since.sound
                 PROVE  OneVoice' /\ SaysSo' /\ OthersHeard' /\ Q!ScheduledIsTold'
    BY DEF OneVoice, SaysSo, OthersHeard, Q!ScheduledIsTold
  <1>2. \A v \in Worker \ {w} : qreq'[v] = qreq[v] /\ ~Q!Announcing(v) /\ ~Q!Announcing(v)'
    BY <1>1 DEF QuotaInv, OneVoice, QuotaBecomes, Q!Announcing
  <1>3. qreq'[w] = r
    BY DEF QuotaBecomes
  <1>4. OneVoice'
    BY <1>2 DEF OneVoice
  <1>5. /\ qreq[w].news.effective = since.effective
        /\ Live => qreq[w].news = Q!News(quota.monthly, quota.pending, since.effective)
    BY <1>1 DEF QuotaInv, SaysSo
  <1>6. SaysSo'
    <2>1. SUFFICES ASSUME Q!Announcing(w)'
                   PROVE  /\ qreq'[w].news.effective = since'.effective
                          /\ Live' => qreq'[w].news
                                        = Q!News(quota.monthly, quota.pending, since.effective)
                          /\ Q!At(w, "lookup")' => since'.effective = month' + 1
                          /\ qreq'[w].pc \in {"lookup", "claim"} => Q!Agreed'
      BY <1>2 DEF SaysSo, Q!News
    <2> QED BY <1>1, <1>3, <1>5, <2>1 DEF Q!Announcing, Q!At, Live, Q!News
  <1>7. OthersHeard'
    <2>1. \A v \in Worker \ {w} : qreq'[v].pc \notin {"recipients", "deliver"}
      BY <1>2 DEF Q!Announcing
    <2>2. qreq'[w].pc \in {"recipients", "deliver"} =>
            \A a \in enabled' : a \in qreq'[w].won \/ a = Admin \/ Heard(a, news)'
      BY <1>1, <1>3
    <2> QED BY <1>1, <1>3, <2>1, <2>2 DEF OthersHeard, Heard
  <1>8. Q!ScheduledIsTold'
    <2>1. SUFFICES ASSUME Live, ~Q!Announcing(w)', enabled \intersect Tenant # {}
                   PROVE  \A a \in enabled : Heard(a, news)'
      BY <1>1, <1>5 DEF Q!ScheduledIsTold, Live, Heard, Q!News
    <2> QED BY <1>1, <1>3, <2>1 DEF Q!Announcing
  <1> QED BY <1>4, <1>6, <1>7, <1>8

\* An announcement that finds its fingerprint in the ledger tells nobody what they have
\* not heard.
LEMMA DuplicatesHeard ==
    ASSUME NoNewsIsNone, QuotaInv, NEW w \in Worker, Q!At(w, "claim"), since.sound,
           NEW n \in (enabled \intersect Tenant) \ Q!Won(w), NEW a \in enabled
    PROVE  Heard(a, qreq[w].news)
  <1>1. Q!Agreed /\ qreq[w].news \in Announcement /\ qreq[w].news # NoNews
    BY DEF QuotaInv, QuotaTypes, SaysSo, Q!Announcing, Q!At, Holds, NoNewsIsNone
  <1>2. alerts[n] = qreq[w].news
    BY DEF Q!Won, Q!Fingerprint
  <1> QED BY <1>1, <1>2 DEF Q!Agreed, Heard, Q!Fingerprint

\* The invariant is kept by the steps of an announcement that meet no failure.
LEMMA AnnouncementStep ==
    ASSUME NoNewsIsNone, QuotaInv, NEW w \in Worker, Q!Lookup(w) \/ Q!Claim(w) \/ Q!Recipients(w)
    PROVE  OneVoice' /\ SaysSo' /\ OthersHeard' /\ Q!ScheduledIsTold'
  <1> DEFINE news == qreq[w].news
  <1>0. QuotaTypes /\ UNCHANGED <<month, quota, enabled, since, told, missed>> /\ Q!Announcing(w)
    BY DEF QuotaInv, Q!Lookup, Q!Claim, Q!Recipients, Q!At, Q!Announcing
  <1>1. news \in Announcement
    BY <1>0 DEF QuotaTypes, Holds, Q!Announcing
  <1>2. CASE Q!Lookup(w)
    <2>1. PICK r \in QuotaRequest :
             /\ Holds(r) /\ qreq' = [qreq EXCEPT ![w] = r]
             /\ IF enabled \intersect Tenant = {} THEN r.pc = "idle"
                ELSE /\ r.pc = "claim"
                     /\ r.news = [news EXCEPT !.effective = month + 1]
      BY <1>0, <1>2, LookupBecomes
    <2>2. QuotaBecomes(w, r)
      BY <1>0, <2>1, QuotaRequestStep
    <2>3. since.sound => month + 1 = news.effective /\ Q!Agreed
      BY <1>0, <1>2 DEF QuotaInv, SaysSo, Q!Lookup, Q!At
    <2>4. since.sound => [news EXCEPT !.effective = month + 1] = news
      BY <1>1, <2>3 DEF Announcement
    <2>5. Q!Agreed' <=> Q!Agreed
      BY <1>0, <1>2 DEF Q!Lookup, Q!Agreed, Q!Fingerprint
    <2> HIDE DEF news
    <2>6. r.pc \in {"claim", "idle"} /\ (r.pc = "idle" => enabled \intersect Tenant = {})
      BY <2>1
    <2> QED BY <1>0, <2>1, <2>2, <2>3, <2>4, <2>5, <2>6, AnnouncingStep DEF news
  <1>3. CASE Q!Claim(w)
    <2>1. PICK r \in QuotaRequest :
             /\ Holds(r) /\ qreq' = [qreq EXCEPT ![w] = r]
             /\ IF Q!Won(w) = {} THEN r.pc = "idle"
                ELSE r.pc = "recipients" /\ r.news = qreq[w].news /\ r.won = Q!Won(w)
      BY <1>0, <1>3, ClaimBecomes
    <2>2. QuotaBecomes(w, r)
      BY <1>0, <2>1, QuotaRequestStep
    <2>3. \A a \in enabled : \A n \in enabled \intersect Tenant :
             since.sound /\ n \notin Q!Won(w) => Heard(a, news)
      BY <1>3, DuplicatesHeard DEF Q!Claim
    <2> HIDE DEF news
    <2>4. \A a \in enabled : Heard(a, news) <=> told'[a] = news \/ news \in missed'[a]
      BY <1>0 DEF Heard
    <2>5. since.sound /\ r.pc = "idle" =>
               \/ enabled \intersect Tenant = {}
               \/ \A a \in enabled : told'[a] = news \/ news \in missed'[a]
      BY <2>1, <2>3, <2>4
    <2>6. since.sound /\ r.pc # "idle" =>
             \A a \in enabled : a \in r.won \/ a = Admin \/ told'[a] = news \/ news \in missed'[a]
      BY <1>0, <2>1, <2>3, <2>4 DEF QuotaTypes, Q!Audience
    <2>7. r.pc \in {"recipients", "idle"} /\ (r.pc # "idle" => r.news = qreq[w].news)
      BY <2>1
    <2> QED BY <1>0, <2>2, <2>5, <2>6, <2>7, AnnouncingStep DEF news, Heard
  <1>4. CASE Q!Recipients(w)
    <2>1. PICK r \in QuotaRequest :
             /\ Holds(r) /\ qreq' = [qreq EXCEPT ![w] = r]
             /\ r.pc = "deliver" /\ r.news = qreq[w].news /\ r.won = qreq[w].won
      BY <1>0, <1>4, RecipientsBecomes
    <2>2. QuotaBecomes(w, r)
      BY <1>0, <2>1, QuotaRequestStep
    <2>3. since.sound =>
             \A a \in enabled : a \in r.won \/ a = Admin \/ told'[a] = news \/ news \in missed'[a]
      BY <1>0, <1>4, <2>1 DEF QuotaInv, OthersHeard, Heard, Q!Recipients, Q!At
    <2> HIDE DEF news
    <2> QED BY <1>0, <2>1, <2>2, <2>3, AnnouncingStep DEF news, Heard
  <1> QED BY <1>2, <1>3, <1>4

\* The invariant is kept by a copy that is sent or noted as failed.
LEMMA CopyHeardStep ==
    ASSUME QuotaInv, NEW w \in Worker, Q!Deliver(w) \/ Q!DeliverFails(w)
    PROVE  OneVoice' /\ SaysSo' /\ OthersHeard' /\ Q!ScheduledIsTold'
  <1> DEFINE news == qreq[w].news
             Hears(a) == told'[a] = news \/ news \in missed'[a]
  <1>0. /\ QuotaTypes /\ UNCHANGED <<month, quota, enabled, since>> /\ Q!Announcing(w)
        /\ Q!At(w, "deliver")
    BY DEF QuotaInv, Q!Deliver, Q!DeliverFails, Q!At, Q!Announcing
  <1>1. Q!Due(w) \subseteq Q!Audience /\ enabled \subseteq Q!Audience
    BY <1>0 DEF QuotaTypes, Q!Due, QuotaRequest
  <1>2. PICK a \in Q!Due(w) : /\ qreq' = [qreq EXCEPT ![w] = Q!Served(w, a)]
                              /\ \/ told' = [told EXCEPT ![a] = news] /\ missed' = missed
                                 \/ told' = told /\ missed' = Q!Miss(w, {a})
    BY DEF Q!Deliver, Q!DeliverFails
  <1>3. /\ \A b \in Q!Audience : missed[b] \subseteq Q!Miss(w, {a})[b]
        /\ news \in Q!Miss(w, {a})[a]
    BY <1>0, <1>1, <1>2, MissFacts
  <1>4. Hears(a) /\ \A b \in Q!Audience : Heard(b, news) => Hears(b)
    <2> HIDE DEF news
    <2>1. told \in [Q!Audience -> Announcement \cup {NoNews}]
      BY <1>0 DEF QuotaTypes
    <2> QED BY <1>1, <1>2, <1>3, <2>1 DEF Heard
  <1>5. /\ Q!Served(w, a) \in QuotaRequest /\ Holds(Q!Served(w, a))
        /\ IF Q!Due(w) = {a} /\ (a = Admin \/ Admin \notin enabled) THEN Q!Served(w, a).pc = "idle"
           ELSE /\ Q!Served(w, a).pc = "deliver" /\ Q!Served(w, a).news = news
                /\ Q!Served(w, a).won = qreq[w].won \ {a}
    BY <1>0, <1>1, <1>2, ServedForm
  <1>6. QuotaBecomes(w, Q!Served(w, a))
    BY <1>0, <1>2, <1>5, QuotaRequestStep
  <1>7. since.sound => \A b \in enabled : b \in qreq[w].won \/ b = Admin \/ Heard(b, news)
    BY <1>0 DEF QuotaInv, OthersHeard, Q!At
  <1> HIDE DEF news
  <1>8. since.sound /\ Q!Served(w, a).pc # "idle" =>
           \A b \in enabled : b \in Q!Served(w, a).won \/ b = Admin \/ Hears(b)
    BY <1>1, <1>4, <1>5, <1>7
  <1>9. since.sound /\ Q!Served(w, a).pc = "idle" => \A b \in enabled : Hears(b)
    <2>1. Q!Served(w, a).pc = "idle" => Q!Due(w) = {a} /\ (a = Admin \/ Admin \notin enabled)
      BY <1>5
    <2> QED BY <1>1, <1>4, <1>7, <2>1 DEF Q!Due
  <1>10. /\ Q!Served(w, a).pc \in {"deliver", "idle"}
         /\ Q!Served(w, a).pc # "idle" => Q!Served(w, a).news = news
    BY <1>5
  <1> QED BY <1>0, <1>6, <1>8, <1>9, <1>10, AnnouncingStep DEF news, Heard

\* The invariant is kept by an announcement that fails or is lost with its process.
LEMMA LostStep ==
    ASSUME QuotaInv, NEW w \in Worker, Q!Fails(w) \/ Q!ClaimFails(w)
    PROVE  OneVoice' /\ SaysSo' /\ OthersHeard' /\ Q!ScheduledIsTold'
  <1> DEFINE news == qreq[w].news
  <1>0. /\ QuotaTypes /\ UNCHANGED <<month, quota, enabled, since, told>> /\ Q!Announcing(w)
    BY DEF QuotaInv, Q!Fails, Q!ClaimFails, Q!At, Q!Announcing
  <1>1. Q!Waiting(w) \subseteq Q!Audience /\ enabled \subseteq Q!Audience
    BY <1>0 DEF QuotaTypes, Q!Waiting, Q!Due, QuotaRequest
  <1>2. PICK S \in {Q!Waiting(w), enabled} : missed' = Q!Miss(w, S)
    BY DEF Q!Fails, Q!ClaimFails
  <1>3. /\ \A b \in Q!Audience : missed[b] \subseteq missed'[b]
        /\ \A b \in S : news \in missed'[b]
    BY <1>0, <1>1, <1>2, MissFacts
  <1>4. QuotaBecomes(w, Q!Idle)
    BY <1>0, IdleRequest, QuotaRequestStep DEF Q!Fails, Q!ClaimFails
  <1>5. since.sound => \A b \in enabled : b \in S \/ Heard(b, news)
    BY <1>0, <1>1, <1>2 DEF QuotaInv, OthersHeard, Q!Waiting, Q!Announcing
  <1> HIDE DEF news
  <1>6. since.sound => \A b \in enabled : told'[b] = news \/ news \in missed'[b]
    BY <1>0, <1>1, <1>3, <1>5 DEF Heard
  <1> QED BY <1>0, <1>4, <1>6, IdleRequest, AnnouncingStep DEF news, Heard

\* The invariant is kept by the commit that schedules a quota and starts to announce it.
LEMMA ScheduleStep ==
    ASSUME QuotaInv, NEW w \in Worker, Q!EditCommit(w), Q!Changes(qreq[w].copy, qreq[w].limit)
    PROVE  OneVoice' /\ SaysSo' /\ OthersHeard' /\ Q!ScheduledIsTold'
  <1>0. QuotaTypes /\ UNCHANGED <<month, enabled, alerts, told, missed>> /\ Q!At(w, "edit")
    BY DEF QuotaInv, Q!EditCommit
  <1>1. PICK r \in QuotaRequest :
             /\ Holds(r) /\ qreq' = [qreq EXCEPT ![w] = r] /\ r.pc = "lookup"
             /\ r.news = Q!News(qreq[w].copy.monthly, qreq[w].limit, month + 1)
    BY <1>0, EditBecomes
  <1>2. QuotaBecomes(w, r)
    BY <1>0, <1>1, QuotaRequestStep
  <1>3. Q!Announcing(w)'
    BY <1>1, <1>2 DEF QuotaBecomes, Q!Announcing
  <1>4. SUFFICES ASSUME since'.sound
                 PROVE  OneVoice' /\ SaysSo' /\ OthersHeard' /\ Q!ScheduledIsTold'
    BY DEF OneVoice, SaysSo, OthersHeard, Q!ScheduledIsTold
  <1>5. /\ since'.effective = month + 1 /\ qreq[w].copy = quota /\ Q!Agreed
        /\ \A v \in Worker \ {w} : ~Q!Announcing(v)
    BY <1>0, <1>4, CommitSince
  <1>6. \A v \in Worker \ {w} : ~Q!Announcing(v)'
    BY <1>2, <1>5 DEF QuotaBecomes, Q!Announcing
  <1>7. Live' => quota' = [monthly |-> quota.monthly, pending |-> qreq[w].limit]
    BY <1>0, <1>5, QuotaAfterCommit
  <1>8. Q!Agreed'
    BY <1>0, <1>5 DEF Q!Agreed, Q!Fingerprint
  <1>9. OneVoice'
    BY <1>6 DEF OneVoice
  <1>10. SaysSo'
    <2>1. /\ r.news.effective = since'.effective
          /\ Live' => r.news = Q!News(quota'.monthly, quota'.pending, since'.effective)
      BY <1>0, <1>1, <1>5, <1>7 DEF Q!News
    <2> QED BY <1>0, <1>2, <1>5, <1>6, <1>8, <2>1 DEF SaysSo, QuotaBecomes, Q!News
  <1>11. OthersHeard'
    BY <1>1, <1>2, <1>6 DEF OthersHeard, QuotaBecomes, Q!Announcing
  <1>12. Q!ScheduledIsTold'
    BY <1>3 DEF Q!ScheduledIsTold
  <1> QED BY <1>9, <1>10, <1>11, <1>12

\* The invariant is kept when a month begins.
LEMMA MonthStep ==
    ASSUME QuotaInv, Q!Tick \/ UNCHANGED Q!vars
    PROVE  OneVoice' /\ SaysSo' /\ OthersHeard' /\ Q!ScheduledIsTold'
  <1>0. UNCHANGED <<quota, enabled, qreq, alerts, told, missed>>
    BY DEF Q!Tick, Q!vars
  <1>1. /\ since'.effective = since.effective /\ (since'.sound => since.sound)
        /\ since'.sound => month' = month \/ \A w \in Worker : ~Q!At(w, "lookup")
    <2> DEFINE ticks == since.sound /\ \A v \in Worker : ~Q!At(v, "lookup")
    <2>1. (Q!Tick /\ since' = [since EXCEPT !.sound = ticks]) \/ (since' = since /\ month' = month)
      BY DEF Q!Tick, Q!vars
    <2>2. since \in [effective : Nat, sound : BOOLEAN]
      BY DEF QuotaInv, QuotaTypes
    <2>3. ticks => since.sound /\ \A v \in Worker : ~Q!At(v, "lookup")
      OBVIOUS
    <2> HIDE DEF ticks
    <2> QED BY <2>1, <2>2, <2>3
  <1>2. Q!Agreed' <=> Q!Agreed
    BY <1>0 DEF Q!Agreed, Q!Fingerprint
  <1> QED BY <1>0, <1>1, <1>2
          DEF QuotaInv, OneVoice, SaysSo, OthersHeard, Q!ScheduledIsTold, Heard, Live, Q!News, Q!At, Q!Announcing

\* The invariant is kept by every step.
LEMMA QuotaStep ==
    ASSUME NoNewsIsNone, QuotaInv, [Q!Next]_Q!vars
    PROVE  QuotaInv'
  <1> DEFINE Kept == OneVoice' /\ SaysSo' /\ OthersHeard' /\ Q!ScheduledIsTold'
  <1>0. QuotaTypes /\ QuotaTypes'
    BY QuotaTypesStep DEF QuotaInv
  <1>1. ASSUME NEW w \in Worker, NEW pc \in {"edit", "cancel", "cron"},
               NEW limit \in Quota, NEW cancels \in BOOLEAN, Q!Begin(w, pc, limit, cancels)
        PROVE  Kept
    <2>1. PICK r \in QuotaRequest : Holds(r) /\ r.pc = pc /\ qreq' = [qreq EXCEPT ![w] = r]
      BY <1>0, <1>1, BeginBecomes
    <2>2. QuotaBecomes(w, r) /\ ~Q!Announcing(w)
      BY <1>0, <1>1, <2>1, QuotaRequestStep DEF Q!Begin, Q!At, Q!Announcing
    <2>3. UNCHANGED <<month, quota, enabled, alerts, told, missed, since>>
      BY <1>1 DEF Q!Begin
    <2> QED BY <2>1, <2>2, <2>3, QuotaQuietStep
  <1>2. ASSUME NEW w \in Worker, Q!EditRead(w) \/ Q!CancelRead(w) \/ Q!CronRead(w)
        PROVE  Kept
    BY <1>1, <1>2 DEF Q!EditRead, Q!CancelRead, Q!CronRead, Quota
  <1>3. ASSUME NEW w \in Worker,
               \/ Q!EditCommit(w) /\ ~Q!Changes(qreq[w].copy, qreq[w].limit)
               \/ Q!CancelCommit(w) \/ Q!CronCommit(w)
        PROVE  Kept
    <2>1. \E r \in QuotaRequest : Holds(r) /\ qreq' = [qreq EXCEPT ![w] = r] /\ r.pc = "idle"
      BY <1>0, <1>3, EditBecomes, IdleRequest DEF Q!CancelCommit, Q!CronCommit
    <2>2. PICK r \in QuotaRequest : r.pc = "idle" /\ QuotaBecomes(w, r)
      BY <1>0, <2>1, QuotaRequestStep
    <2>3. /\ since'.effective = since.effective
          /\ since'.sound => since.sound /\ qreq[w].copy = quota
      BY <1>0, <1>3, CommitSince
    <2>4. since'.sound /\ Live' => quota' = quota
      BY <1>0, <1>3, <2>3, QuotaAfterCommit
    <2>5. UNCHANGED <<month, enabled, alerts, told, missed>> /\ ~Q!Announcing(w)
      BY <1>3 DEF Q!EditCommit, Q!CancelCommit, Q!CronCommit, Q!At, Q!Announcing
    <2> QED BY <2>2, <2>3, <2>4, <2>5, QuotaQuietStep
  <1>4. ASSUME NEW w \in Worker, Q!EditCommit(w), Q!Changes(qreq[w].copy, qreq[w].limit)
        PROVE  Kept
    BY <1>4, ScheduleStep
  <1>5. ASSUME NEW w \in Worker,
               \/ Q!Lookup(w) \/ Q!Claim(w) \/ Q!Recipients(w) \/ Q!Deliver(w) \/ Q!DeliverFails(w)
               \/ Q!Fails(w) \/ Q!ClaimFails(w)
        PROVE  Kept
    BY <1>5, AnnouncementStep, CopyHeardStep, LostStep
  <1>6. ASSUME Q!Tick \/ UNCHANGED Q!vars
        PROVE  Kept
    BY <1>6, MonthStep
  <1>7. Kept
    BY <1>2, <1>3, <1>4, <1>5, <1>6 DEF Q!Next
  <1> QED BY <1>0, <1>7 DEF QuotaInv

\* A scheduled quota was announced to all who are to hear of it, or their failure rows and
\* the processes that died account for it, for any tenants, limits and number of requests.
THEOREM ScheduledIsToldAlways ==
    ASSUME NoNewsIsNone
    PROVE  Q!Spec => []ScheduledIsTold
  <1>1. Q!Init => QuotaInv
    <2> SUFFICES ASSUME Q!Init
                 PROVE  QuotaInv
      OBVIOUS
    <2>1. QuotaTypes
      BY IdleRequest DEF Q!Init, QuotaTypes, QuotaRow, Quota
    <2>2. \A w \in Worker : ~Q!Announcing(w)
      BY IdleRequest DEF Q!Init, Q!Announcing
    <2>3. quota.pending = NoQuota
      BY DEF Q!Init
    <2> QED BY <2>1, <2>2, <2>3
            DEF QuotaInv, OneVoice, SaysSo, OthersHeard, Q!ScheduledIsTold, Q!Announcing
  <1>2. QuotaInv /\ [Q!Next]_Q!vars => QuotaInv'
    BY QuotaStep
  <1>3. QuotaInv => ScheduledIsTold
    BY DEF QuotaInv, ScheduledIsTold
  <1> QED BY <1>1, <1>2, <1>3, PTL DEF Q!Spec

=============================================================================
