------------------------ MODULE StakeRegistryProofs ------------------------
(***************************************************************************)
(* Proofs about StakeRegistry, for any registrars, withdrawals and calls.  *)
(*                                                                         *)
(* A call stores what the node answered some time ago, and the list of     *)
(* withdrawals is replaced by such an answer as a whole.  The invariant    *)
(* says what an answer under way still stands for: all withdrawals there   *)
(* are, but for those a call has not finished making, as they are, but for *)
(* those a call has given up completing, as long as no dispatch has made   *)
(* the answer out of date.                                                 *)
(***************************************************************************)
EXTENDS StakeRegistry, TLAPS

Kind == {"create", "list", "redeem", "complete", "switch"}
Pc == {"preparing", "sending", "asked", "answered", "vaults", "switching",
       "done", "failed"}
Status == {"fresh", "burned"}
Answer == UNION {[read -> Status] : read \in SUBSET Withdrawal}
Made == [kind : Kind, pc : Pc, registrar : Registrar, target : Registrar,
         found : BOOLEAN, withdrawal : Withdrawal \cup {None}, sent : 0..3,
         seen : Answer, dirty : BOOLEAN]

TypeOK ==
  /\ IsState(store)
  /\ call \in [Call -> Made \cup {Idle}]
  /\ watched \subseteq Registrar
  /\ pending \subseteq Call
  /\ members \subseteq Registrar
  /\ withdrawals \in
       [Withdrawal -> [registrar : Registrar, status : Status] \cup {None}]
  /\ since \subseteq {"crossed", "outdated", "listLost"}

Begun == {c \in Call : call[c] # Idle}
CallsOf(kind) == {c \in Begun : call[c].kind = kind}
Unfinished ==
  {call[c].withdrawal : c \in {c \in CallsOf("redeem") : call[c].pc # "done"}}
GivenUp ==
  {call[c].withdrawal : c \in {c \in CallsOf("complete") : call[c].pc = "failed"}}

\* Only what sends transactions has any, and sends one before it is confirmed.
CallInv(c) ==
  /\ call[c].pc \in {"preparing", "sending"}
       => call[c].kind \in {"create", "redeem", "complete"}
  /\ c \in pending => /\ call[c].pc \in {"sending", "failed"}
                      /\ call[c].kind \in {"create", "redeem", "complete"}
                      /\ call[c].sent \in 1..3
  /\ call[c].kind \in {"redeem", "complete"} => call[c].withdrawal \in Withdrawal
  /\ call[c].found => Has(store, <<"member", call[c].target>>)
  /\ call[c].pc = "vaults" => Has(store, <<"member", call[c].registrar>>)

\* The withdrawal of an unstaking is made by its transaction.
RedeemInv(c) ==
  call[c].kind = "redeem" =>
    /\ call[c].pc = "preparing" \/ c \in pending
         => withdrawals[call[c].withdrawal] = None
    /\ call[c].pc \in {"asked", "answered", "done"}
         => call[c].withdrawal \in On(call[c].registrar)

\* What an answer stands for.
AnswerInv(c) ==
  call[c].pc = "answered" =>
    /\ DOMAIN call[c].seen \subseteq On(call[c].registrar)
    /\ call[c].kind = "redeem" => DOMAIN call[c].seen = {call[c].withdrawal}
    /\ ~call[c].dirty =>
         /\ call[c].kind = "list"
              => On(call[c].registrar) \subseteq DOMAIN call[c].seen \cup Unfinished
         /\ \A w \in DOMAIN call[c].seen \ GivenUp :
              call[c].seen[w] = withdrawals[w].status

VaultsOnTheWay(r) ==
  \E c \in Call : /\ Is(c, "create", "vaults") \/ Is(c, "create", "failed")
                 /\ call[c].registrar = r

MemberInv ==
  /\ store.member # None => /\ store.member \in watched
                            /\ Has(store, <<"member", store.member>>)
  /\ \A r \in Registrar :
       Has(store, <<"member", r>>) => Has(store, <<"vaults", r>>) \/ VaultsOnTheWay(r)

\* What is missing in the list is under way.
ListInv ==
  /\ \A w \in Listed : Has(store, <<"withdrawal", w>>)
  /\ since = {} =>
       /\ store.pendingWithdrawals # None /\ ~ListUnderWay
            => On(store.registrar) \subseteq Listed \cup Unfinished
       /\ \A w \in Listed \ GivenUp :
            store.accounts[<<"withdrawal", w>>] = withdrawals[w].status

\* An unstaking has its withdrawal to itself.
CallsInv ==
  /\ pending \subseteq Begun
  /\ \A c \in Begun : CallInv(c) /\ RedeemInv(c)
  /\ \A c, d \in CallsOf("redeem") : call[c].withdrawal = call[d].withdrawal => c = d

AnswersInv == \A c \in Begun : AnswerInv(c)

IInv ==
  /\ TypeOK
  /\ CallsInv
  /\ AnswersInv
  /\ RegistryOfRegistrar
  /\ MemberInv
  /\ ListInv

-----------------------------------------------------------------------------
(* What the reducer does to a store.                                       *)

\* What every dispatch keeps.
Grows(s, t) ==
  /\ IsState(t)
  /\ DOMAIN s.accounts \subseteq DOMAIN t.accounts

LEMMA AccountAddIs ==
  ASSUME NEW s, IsState(s), NEW a, DOMAIN a \subseteq Key,
         \A k \in DOMAIN a : a[k] \in Status
  PROVE  LET t == AccountAdd(s, a)
         IN /\ Grows(s, t)
            /\ t.registrar = s.registrar
            /\ t.member = s.member
            /\ t.pendingWithdrawals = s.pendingWithdrawals
            /\ DOMAIN t.accounts = DOMAIN a \cup DOMAIN s.accounts
            /\ \A k \in DOMAIN a : t.accounts[k] = a[k]
            /\ \A k \in DOMAIN s.accounts \ DOMAIN a : t.accounts[k] = s.accounts[k]
<1> DEFINE t == AccountAdd(s, a)
           b == [k \in DOMAIN a \cup DOMAIN s.accounts |->
                   IF k \in DOMAIN a THEN a[k] ELSE s.accounts[k]]
<1>1. t = [s EXCEPT !.accounts = b]
  BY DEF AccountAdd
<1>2. /\ DOMAIN b = DOMAIN a \cup DOMAIN s.accounts
      /\ \A k \in DOMAIN a : b[k] = a[k]
      /\ \A k \in DOMAIN s.accounts \ DOMAIN a : b[k] = s.accounts[k]
  OBVIOUS
<1>3. \A k \in DOMAIN b : b[k] \in {"fresh", "burned"}
  BY <1>2 DEF IsState, Status
<1> HIDE DEF b
<1>4. IsState(t) /\ t.accounts = b
  BY <1>1, <1>2, <1>3 DEF IsState
<1>5. t.registrar = s.registrar /\ t.member = s.member
        /\ t.pendingWithdrawals = s.pendingWithdrawals
  BY <1>1 DEF IsState
<1>6. QED
  BY <1>2, <1>4, <1>5 DEF Grows

\* A single account of a key.
LEMMA EntryAddIs ==
  ASSUME NEW s, IsState(s), NEW key \in Key, NEW x \in Status
  PROVE  LET t == AccountAdd(s, Entry(key, x))
         IN /\ Grows(s, t)
            /\ t.registrar = s.registrar
            /\ t.member = s.member
            /\ t.pendingWithdrawals = s.pendingWithdrawals
            /\ DOMAIN t.accounts = {key} \cup DOMAIN s.accounts
            /\ t.accounts[key] = x
            /\ \A k \in DOMAIN s.accounts \ {key} : t.accounts[k] = s.accounts[k]
<1> DEFINE a == Entry(key, x)
<1>1. DOMAIN a = {key} /\ a[key] = x
  BY DEF Entry
<1>2. DOMAIN a \subseteq Key /\ \A k \in DOMAIN a : a[k] \in Status
  BY <1>1
<1> HIDE DEF a
<1> DEFINE t == AccountAdd(s, a)
<1>3. /\ Grows(s, t)
      /\ t.registrar = s.registrar
      /\ t.member = s.member
      /\ t.pendingWithdrawals = s.pendingWithdrawals
      /\ DOMAIN t.accounts = DOMAIN a \cup DOMAIN s.accounts
      /\ \A k \in DOMAIN a : t.accounts[k] = a[k]
      /\ \A k \in DOMAIN s.accounts \ DOMAIN a : t.accounts[k] = s.accounts[k]
  BY <1>2, AccountAddIs
<1> HIDE DEF t
<1>4. QED
  BY <1>1, <1>3 DEF t, a

\* A withdrawal of a list that there is or is not.
LEMMA CreatePendingIs ==
  ASSUME NEW s, IsState(s), NEW w \in Withdrawal, NEW x \in Status
  PROVE  LET t == RegistryCreatePendingWithdrawal(s, w, x)
             key == <<"withdrawal", w>>
         IN /\ Grows(s, t)
            /\ t.registrar = s.registrar
            /\ t.member = s.member
            /\ t.pendingWithdrawals =
                 (IF s.pendingWithdrawals = None THEN {} ELSE s.pendingWithdrawals)
                   \cup {w}
            /\ DOMAIN t.accounts = {key} \cup DOMAIN s.accounts
            /\ t.accounts[key] = x
            /\ \A k \in DOMAIN s.accounts \ {key} : t.accounts[k] = s.accounts[k]
<1> DEFINE key == <<"withdrawal", w>>
           u == AccountAdd(s, Entry(key, x))
           p == (IF s.pendingWithdrawals = None THEN {} ELSE s.pendingWithdrawals)
                  \cup {w}
           t == [u EXCEPT !.pendingWithdrawals = p]
<1>1. key \in Key
  BY DEF Key
<1>2. /\ Grows(s, u)
      /\ u.registrar = s.registrar
      /\ u.member = s.member
      /\ u.pendingWithdrawals = s.pendingWithdrawals
      /\ DOMAIN u.accounts = {key} \cup DOMAIN s.accounts
      /\ u.accounts[key] = x
      /\ \A k \in DOMAIN s.accounts \ {key} : u.accounts[k] = s.accounts[k]
  BY <1>1, EntryAddIs
<1>3. RegistryCreatePendingWithdrawal(s, w, x)
        = [u EXCEPT !.pendingWithdrawals =
             (IF u.pendingWithdrawals = None THEN {} ELSE u.pendingWithdrawals)
               \cup {w}]
  BY DEF RegistryCreatePendingWithdrawal
<1> HIDE DEF u
<1>4. RegistryCreatePendingWithdrawal(s, w, x) = t
  BY <1>2, <1>3
<1>5. p \in SUBSET Withdrawal
  BY DEF IsState
<1> HIDE DEF p, key
<1>6. /\ IsState(t)
      /\ t.registrar = u.registrar
      /\ t.member = u.member
      /\ t.accounts = u.accounts
      /\ t.pendingWithdrawals = p
  BY <1>2, <1>5 DEF Grows, IsState
<1> HIDE DEF t
<1>7. QED
  BY <1>2, <1>4, <1>6 DEF Grows, p, key

LEMMA SetPendingIs ==
  ASSUME NEW s, IsState(s), NEW read \in SUBSET Withdrawal,
         NEW f \in [read -> Status]
  PROVE  LET t == RegistrySetPendingWithdrawals(s, f)
         IN /\ Grows(s, t)
            /\ t.registrar = s.registrar
            /\ t.member = s.member
            /\ t.pendingWithdrawals = read
            /\ DOMAIN t.accounts = ({"withdrawal"} \X read) \cup DOMAIN s.accounts
            /\ \A w \in read : t.accounts[<<"withdrawal", w>>] = f[w]
<1> DEFINE a == [k \in {"withdrawal"} \X DOMAIN f |-> f[k[2]]]
           u == AccountAdd(s, a)
           t == [u EXCEPT !.pendingWithdrawals = DOMAIN f]
<1>1. /\ DOMAIN a = {"withdrawal"} \X read
      /\ \A w \in read : a[<<"withdrawal", w>>] = f[w]
  OBVIOUS
<1>2. DOMAIN a \subseteq Key /\ \A k \in DOMAIN a : a[k] \in Status
  BY DEF Key
<1>3. RegistrySetPendingWithdrawals(s, f) = t
  BY DEF RegistrySetPendingWithdrawals
<1> HIDE DEF a
<1>4. /\ Grows(s, u)
      /\ u.registrar = s.registrar
      /\ u.member = s.member
      /\ u.pendingWithdrawals = s.pendingWithdrawals
      /\ DOMAIN u.accounts = DOMAIN a \cup DOMAIN s.accounts
      /\ \A k \in DOMAIN a : u.accounts[k] = a[k]
  BY <1>2, AccountAddIs
<1> HIDE DEF u
<1>5. /\ IsState(t)
      /\ t.registrar = u.registrar
      /\ t.member = u.member
      /\ t.accounts = u.accounts
      /\ t.pendingWithdrawals = read
  BY <1>4 DEF Grows, IsState
<1> HIDE DEF t
<1>6. QED
  BY <1>1, <1>3, <1>4, <1>5 DEF Grows

LEMMA SetMemberIs ==
  ASSUME NEW s, IsState(s), NEW m \in Registrar
  PROVE  LET t == RegistrySetMember(s, m)
         IN /\ Grows(s, t)
            /\ t.registrar = s.registrar
            /\ t.member = m
            /\ t.pendingWithdrawals = s.pendingWithdrawals
            /\ t.accounts = s.accounts
BY DEF RegistrySetMember, IsState, Grows

LEMMA SetRegistrarIs ==
  ASSUME NEW s, IsState(s), NEW r \in Registrar, NEW m \in Registrar \cup {None}
  PROVE  LET t == RegistrySetRegistrar(s, r, m)
         IN /\ Grows(s, t)
            /\ t.registrar = r
            /\ t.member = m
            /\ t.pendingWithdrawals = None
            /\ t.accounts = s.accounts
BY DEF RegistrySetRegistrar, IsState, Grows

-----------------------------------------------------------------------------
(* The frame of a step that continues the call c.                          *)

Const(k, l) ==
  /\ l.kind = k.kind
  /\ l.registrar = k.registrar
  /\ l.target = k.target
  /\ l.found = k.found
  /\ l.withdrawal = k.withdrawal

\* Calls keep what they are; the others stay where they are; a withdrawal keeps
\* its registrar and is made by an unstaking that has not ended.
Frame(c) ==
  /\ c \in Begun
  /\ Begun' = Begun
  /\ \A d \in Begun : Const(call[d], call'[d])
  /\ \A d \in Begun \ {c} : /\ call'[d].pc = call[d].pc
                            /\ call'[d].sent = call[d].sent
                            /\ call'[d].seen = call[d].seen
                            /\ call[d].dirty => call'[d].dirty
  /\ call[c].pc = "failed" => call'[c].pc = "failed"
  /\ call[c].pc = "done" => call'[c].pc = "done"
  /\ pending' \subseteq pending \cup {c}
  /\ DOMAIN store.accounts \subseteq DOMAIN store'.accounts
  /\ \A w \in Withdrawal : withdrawals[w] # None =>
       /\ withdrawals'[w] # None
       /\ withdrawals'[w].registrar = withdrawals[w].registrar
  /\ \A w \in Withdrawal : withdrawals[w] = None /\ withdrawals'[w] # None =>
       /\ call[c].kind = "redeem"
       /\ call[c].withdrawal = w
       /\ call'[c].pc # "done"

LEMMA BegunIsMade ==
  ASSUME TypeOK, NEW c \in Begun
  PROVE  c \in Call /\ call[c] \in Made
BY DEF TypeOK, Begun

LEMMA MadeIsNotIdle == \A k \in Made : k # Idle
BY DEF Made, Pc, Idle

\* A step that changes only the call c.
LEMMA Moved ==
  ASSUME TypeOK, NEW c \in Begun, NEW x \in Made, Const(call[c], x),
         call' = [call EXCEPT ![c] = x]
  PROVE  /\ call' \in [Call -> Made \cup {Idle}]
         /\ Begun' = Begun
         /\ call'[c] = x
         /\ \A d \in Begun \ {c} : call'[d] = call[d]
         /\ \A d \in Begun : Const(call[d], call'[d])
<1>1. call \in [Call -> Made \cup {Idle}] /\ c \in Call
  BY DEF TypeOK, Begun
<1>2. /\ call' \in [Call -> Made \cup {Idle}]
      /\ call'[c] = x
      /\ \A d \in Call \ {c} : call'[d] = call[d]
  BY <1>1
<1>3. x # Idle /\ call[c] # Idle
  BY MadeIsNotIdle DEF Begun
<1>4. Begun' = Begun
  BY <1>2, <1>3 DEF Begun
<1>5. \A d \in Begun \ {c} : call'[d] = call[d]
  BY <1>2 DEF Begun
<1>6. \A d \in Begun : Const(call[d], call'[d])
  BY <1>2, <1>5 DEF Const
<1>7. QED
  BY <1>2, <1>4, <1>5, <1>6

\* A step that ends the call c and makes answers out of date.
LEMMA EndedDirty ==
  ASSUME TypeOK, NEW c \in Begun, call' = Dirty([call EXCEPT ![c].pc = "done"])
  PROVE  /\ call' \in [Call -> Made \cup {Idle}]
         /\ Begun' = Begun
         /\ call'[c].pc = "done"
         /\ \A d \in Begun \ {c} :
              /\ call'[d].pc = call[d].pc
              /\ call'[d].sent = call[d].sent
              /\ call'[d].seen = call[d].seen
              /\ call[d].dirty => call'[d].dirty
              /\ call[d].pc = "answered" => call'[d].dirty
         /\ \A d \in Begun : Const(call[d], call'[d])
<1> DEFINE x == [call[c] EXCEPT !.pc = "done"]
           k == [call EXCEPT ![c] = x]
<1>1. call \in [Call -> Made \cup {Idle}] /\ c \in Call /\ call[c] \in Made
  BY BegunIsMade DEF TypeOK
<1>2. x \in Made /\ x.pc = "done" /\ Const(call[c], x)
  BY <1>1 DEF Made, Pc, Const
<1>3. call' = Dirty(k)
  BY <1>1
<1> HIDE DEF x
<1>4. /\ k \in [Call -> Made \cup {Idle}]
      /\ k[c] = x
      /\ \A d \in Call \ {c} : k[d] = call[d]
  BY <1>1, <1>2
<1> HIDE DEF k
<1>5. \A d \in Call : call'[d] = IF k[d].pc = "answered" THEN [k[d] EXCEPT !.dirty = TRUE]
                                                        ELSE k[d]
  BY <1>3 DEF Dirty
<1>6. \A d \in Call : k[d] = Idle => call'[d] = Idle
  BY <1>5 DEF Idle
<1>7. ASSUME NEW d \in Call, k[d] \in Made
      PROVE  /\ call'[d] \in Made
             /\ Const(k[d], call'[d])
             /\ call'[d].pc = k[d].pc
             /\ call'[d].sent = k[d].sent
             /\ call'[d].seen = k[d].seen
             /\ k[d].dirty => call'[d].dirty
             /\ k[d].pc = "answered" => call'[d].dirty
  <2>1. CASE k[d].pc = "answered"
    <3> PICK y \in Made : y = k[d]
      BY <1>7
    <3>1. call'[d] = [y EXCEPT !.dirty = TRUE]
      BY <1>5, <2>1
    <3> HIDE DEF k
    <3>2. QED
      BY <2>1, <3>1 DEF Made, Const
  <2>2. CASE k[d].pc # "answered"
    BY <1>5, <1>7, <2>2 DEF Const
  <2>3. QED
    BY <2>1, <2>2
<1>8. call' \in [Call -> Made \cup {Idle}]
  <2>1. \A d \in Call : call'[d] \in Made \cup {Idle}
    BY <1>4, <1>6, <1>7
  <2>2. call' = [d \in Call |-> call'[d]]
    BY <1>3 DEF Dirty
  <2>3. QED
    BY <2>1, <2>2
<1>9. \A d \in Call : call'[d] = Idle <=> k[d] = Idle
  BY <1>4, <1>6, <1>7, MadeIsNotIdle
<1>10. \A d \in Call : k[d] = Idle <=> call[d] = Idle
  <2>1. k[c] # Idle /\ call[c] # Idle
    BY <1>1, <1>2, <1>4, MadeIsNotIdle
  <2>2. QED
    BY <1>4, <2>1
<1>11. Begun' = Begun
  BY <1>9, <1>10 DEF Begun
<1>12. \A d \in Begun : d \in Call /\ k[d] \in Made
  BY <1>2, <1>4, BegunIsMade
<1>13. \A d \in Begun : Const(call[d], k[d])
  <2>1. \A d \in Begun : d = c \/ k[d] = call[d]
    BY <1>4, <1>12
  <2>2. QED
    BY <1>2, <1>4, <2>1 DEF Const
<1>14. \A d \in Begun : Const(call[d], call'[d])
  <2> TAKE d \in Begun
  <2>1. Const(call[d], k[d]) /\ Const(k[d], call'[d])
    BY <1>7, <1>12, <1>13
  <2>2. QED
    BY <2>1 DEF Const
<1>15. call'[c].pc = "done"
  BY <1>1, <1>2, <1>4, <1>7
<1>16. \A d \in Begun \ {c} : /\ d \in Call
                              /\ k[d] = call[d]
                              /\ k[d] \in Made
  BY <1>4, <1>12
<1>17. ASSUME NEW d \in Begun \ {c}
       PROVE  /\ call'[d].pc = call[d].pc
              /\ call'[d].sent = call[d].sent
              /\ call'[d].seen = call[d].seen
              /\ call[d].dirty => call'[d].dirty
              /\ call[d].pc = "answered" => call'[d].dirty
  <2>1. d \in Call /\ k[d] = call[d] /\ k[d] \in Made
    BY <1>16
  <2> HIDE DEF k
  <2>2. QED
    BY <1>7, <2>1
<1> HIDE DEF k
<1>18. QED
  BY <1>8, <1>11, <1>14, <1>15, <1>17

-----------------------------------------------------------------------------
(* What a step keeps by its frame alone.                                   *)

LEMMA FrameGivenUp ==
  ASSUME TypeOK, NEW c, Frame(c)
  PROVE  GivenUp \subseteq GivenUp'
<1> SUFFICES ASSUME NEW d \in Begun, call[d].kind = "complete", call[d].pc = "failed"
             PROVE  call[d].withdrawal \in GivenUp'
  BY DEF GivenUp, CallsOf
<1>1. /\ d \in Begun'
      /\ call'[d].kind = "complete"
      /\ call'[d].withdrawal = call[d].withdrawal
      /\ call'[d].pc = "failed"
  BY DEF Frame, Const
<1>2. QED
  BY <1>1 DEF GivenUp, CallsOf

\* Only an unstaking that ends is no longer unfinished.
LEMMA FrameUnfinished ==
  ASSUME TypeOK, NEW c, Frame(c)
  PROVE  /\ \A w \in Unfinished : w \in Unfinished'
              \/ (call[c].kind = "redeem" /\ call'[c].pc = "done" /\ call[c].withdrawal = w)
         /\ \A w \in Withdrawal : withdrawals[w] = None /\ withdrawals'[w] # None
              => w \in Unfinished'
<1>1. ASSUME NEW d \in Begun, call[d].kind = "redeem", call'[d].pc # "done"
      PROVE  call[d].withdrawal \in Unfinished'
  <2>1. d \in Begun' /\ call'[d].kind = "redeem"
          /\ call'[d].withdrawal = call[d].withdrawal
    BY <1>1 DEF Frame, Const
  <2>2. QED
    BY <1>1, <2>1 DEF Unfinished, CallsOf
<1>2. ASSUME NEW d \in Begun, call[d].kind = "redeem", call[d].pc # "done"
      PROVE  \/ call[d].withdrawal \in Unfinished'
             \/ d = c /\ call'[c].pc = "done"
  BY <1>1, <1>2 DEF Frame
<1>3. \A w \in Unfinished : \E d \in Begun :
        call[d].kind = "redeem" /\ call[d].pc # "done" /\ call[d].withdrawal = w
  BY DEF Unfinished, CallsOf
<1>4. \A w \in Unfinished : w \in Unfinished'
        \/ (call[c].kind = "redeem" /\ call'[c].pc = "done" /\ call[c].withdrawal = w)
  BY <1>2, <1>3
<1>5. \A w \in Withdrawal : withdrawals[w] = None /\ withdrawals'[w] # None
        => w \in Unfinished'
  BY <1>1 DEF Frame
<1>6. QED
  BY <1>4, <1>5

\* A withdrawal of a registrar stays one.
LEMMA FrameOn ==
  ASSUME TypeOK, NEW c, Frame(c), NEW r
  PROVE  /\ On(r) \subseteq On(r)'
         /\ On(r)' \subseteq On(r) \cup Unfinished'
<1>1. On(r) \subseteq On(r)'
  BY DEF On, Frame
<1>2. ASSUME NEW w \in On(r)', w \notin Unfinished'
      PROVE  w \in On(r)
  <2>1. w \in Withdrawal /\ withdrawals'[w] # None /\ withdrawals'[w].registrar = r
    BY DEF On
  <2>2. withdrawals[w] # None
    BY <1>2, <2>1, FrameUnfinished
  <2>3. QED
    BY <2>1, <2>2 DEF On, Frame
<1>3. QED
  BY <1>1, <1>2

\* What the call c must show of itself, the others keep.
LEMMA CallsStable ==
  ASSUME IInv, NEW c, Frame(c), CallInv(c)', RedeemInv(c)'
  PROVE  CallsInv'
<1>1. c \in Begun /\ Begun' = Begun
  BY DEF Frame
<1>2. pending' \subseteq Begun'
  BY <1>1 DEF IInv, CallsInv, Frame
<1>3. ASSUME NEW d \in Begun, d # c
      PROVE  CallInv(d)'
  <2>1. /\ CallInv(d)
        /\ Const(call[d], call'[d])
        /\ call'[d].pc = call[d].pc
        /\ call'[d].sent = call[d].sent
        /\ d \in pending' => d \in pending
        /\ DOMAIN store.accounts \subseteq DOMAIN store'.accounts
    BY <1>3 DEF IInv, CallsInv, Frame
  <2>2. QED
    BY <2>1 DEF CallInv, Const, Has
<1>4. ASSUME NEW d \in Begun, d # c
      PROVE  RedeemInv(d)'
  <2>1. /\ RedeemInv(d) /\ CallInv(d)
        /\ Const(call[d], call'[d])
        /\ call'[d].pc = call[d].pc
        /\ d \in pending' => d \in pending
    BY <1>4 DEF IInv, CallsInv, Frame
  <2>2. SUFFICES ASSUME call[d].kind = "redeem"
                 PROVE  /\ call[d].pc = "preparing" \/ d \in pending
                             => withdrawals'[call[d].withdrawal] = None
                        /\ call[d].pc \in {"asked", "answered", "done"}
                             => call[d].withdrawal \in On(call[d].registrar)'
    BY <2>1 DEF RedeemInv, Const, On
  <2>3. call[d].withdrawal \in Withdrawal
    BY <2>1, <2>2 DEF CallInv
  <2>4. call[c].kind = "redeem" => call[c].withdrawal # call[d].withdrawal
    BY <1>1, <1>4, <2>2 DEF IInv, CallsInv, CallsOf
  <2>5. withdrawals[call[d].withdrawal] = None
          => withdrawals'[call[d].withdrawal] = None
    BY <2>3, <2>4 DEF Frame
  <2>6. call[d].withdrawal \in On(call[d].registrar)
          => call[d].withdrawal \in On(call[d].registrar)'
    BY <2>1 DEF On, Frame, Const
  <2>7. QED
    BY <2>1, <2>2, <2>5, <2>6 DEF RedeemInv
<1>5. \A d, e \in CallsOf("redeem")' :
        call'[d].withdrawal = call'[e].withdrawal => d = e
  <2>1. \A d \in CallsOf("redeem")' :
          d \in CallsOf("redeem") /\ call'[d].withdrawal = call[d].withdrawal
    BY <1>1 DEF CallsOf, Frame, Const
  <2>2. QED
    BY <2>1 DEF IInv, CallsInv
<1>6. QED
  BY <1>1, <1>2, <1>3, <1>4, <1>5 DEF CallsInv

\* Nothing has become of a withdrawal but what GivenUp and Unfinished say.
Quiet ==
  /\ Unfinished \subseteq Unfinished'
  /\ \A w \in Withdrawal \ GivenUp' :
       withdrawals[w] # None => withdrawals'[w].status = withdrawals[w].status

OthersDirty(c) ==
  \A d \in Begun \ {c} : call[d].pc = "answered" => call'[d].dirty

LEMMA AnswersStable ==
  ASSUME IInv, NEW c, Frame(c), AnswerInv(c)', Quiet \/ OthersDirty(c)
  PROVE  AnswersInv'
<1> SUFFICES ASSUME NEW d \in Begun, d # c, call[d].pc = "answered"
             PROVE  AnswerInv(d)'
  BY DEF AnswersInv, AnswerInv, Frame
<1> PICK r, seen : r = call[d].registrar /\ seen = call[d].seen
  OBVIOUS
<1>1. /\ AnswerInv(d)
      /\ Const(call[d], call'[d])
      /\ call'[d].pc = "answered"
      /\ call'[d].seen = seen
      /\ call[d].dirty => call'[d].dirty
  BY DEF IInv, AnswersInv, Frame
<1>2. /\ On(r) \subseteq On(r)'
      /\ On(r)' \subseteq On(r) \cup Unfinished'
      /\ GivenUp \subseteq GivenUp'
  BY FrameOn, FrameGivenUp DEF IInv
<1>3. DOMAIN seen \subseteq On(r)
  BY <1>1 DEF AnswerInv
<1>4. CASE call'[d].dirty
  BY <1>1, <1>2, <1>3, <1>4 DEF AnswerInv, Const, On
<1>5. CASE ~call'[d].dirty
  <2>1. Quiet /\ ~call[d].dirty
    BY <1>1, <1>5 DEF OthersDirty
  <2>2. call[d].kind = "list" => On(r)' \subseteq DOMAIN seen \cup Unfinished'
    BY <1>1, <1>2, <2>1 DEF AnswerInv, Quiet
  <2>3. \A w \in DOMAIN seen \ GivenUp' : seen[w] = withdrawals'[w].status
    <3> TAKE w \in DOMAIN seen \ GivenUp'
    <3>1. w \in Withdrawal /\ withdrawals[w] # None
      BY <1>3 DEF On
    <3>2. seen[w] = withdrawals[w].status
      BY <1>1, <1>2, <2>1 DEF AnswerInv
    <3>3. QED
      BY <2>1, <3>1, <3>2 DEF Quiet
  <2>4. QED
    BY <1>1, <1>2, <1>3, <2>2, <2>3 DEF AnswerInv, Const, On
<1>6. QED
  BY <1>4, <1>5

LEMMA VaultsStayOnTheWay ==
  ASSUME NEW c, Frame(c), NEW r, VaultsOnTheWay(r),
         call[c].pc = "vaults" =>
           call'[c].pc \in {"vaults", "failed"} \/ call[c].registrar # r
  PROVE  VaultsOnTheWay(r)'
<1>1. PICK d \in Call : /\ Is(d, "create", "vaults") \/ Is(d, "create", "failed")
                        /\ call[d].registrar = r
  BY DEF VaultsOnTheWay
<1>2. d \in Begun
  BY <1>1 DEF Begun, Is, Idle
<1>3. /\ call'[d].kind = "create" /\ call'[d].registrar = r
      /\ call'[d].pc \in {"vaults", "failed"}
  BY <1>1, <1>2 DEF Frame, Const, Is
<1>4. QED
  BY <1>3 DEF VaultsOnTheWay, Is

LEMMA ListStaysUnderWay ==
  ASSUME NEW c, Frame(c), store'.registrar = store.registrar, ListUnderWay,
         call[c].kind = "list" /\ call[c].pc \in {"asked", "answered"}
           => call'[c].pc \in {"asked", "answered"}
  PROVE  ListUnderWay'
<1>1. PICK d \in Call : /\ Is(d, "list", "asked") \/ Is(d, "list", "answered")
                        /\ call[d].registrar = store.registrar
  BY DEF ListUnderWay
<1>2. d \in Begun
  BY <1>1 DEF Begun, Is, Idle
<1>3. /\ call'[d].kind = "list" /\ call'[d].registrar = store'.registrar
      /\ call'[d].pc \in {"asked", "answered"}
  BY <1>1, <1>2 DEF Frame, Const, Is
<1>4. QED
  BY <1>3 DEF ListUnderWay, Is

\* Accounts of members are not added, and none of their vaults is given up
\* quietly.
LEMMA MemberStable ==
  ASSUME IInv, NEW c, Frame(c),
         store'.member = store.member, watched \subseteq watched',
         \A r \in Registrar : Has(store', <<"member", r>>) => Has(store, <<"member", r>>),
         call[c].pc = "vaults" => call'[c].pc \in {"vaults", "failed"}
  PROVE  MemberInv'
<1>1. ASSUME NEW r \in Registrar, VaultsOnTheWay(r)
      PROVE  VaultsOnTheWay(r)'
  BY <1>1, VaultsStayOnTheWay
<1>2. \A k : Has(store, k) => Has(store', k)
  BY DEF Frame, Has
<1>3. MemberInv
  BY DEF IInv
<1>4. ASSUME NEW r \in Registrar, Has(store', <<"member", r>>)
      PROVE  Has(store', <<"vaults", r>>) \/ VaultsOnTheWay(r)'
  BY <1>1, <1>2, <1>3, <1>4 DEF MemberInv
<1>5. store'.member # None => /\ store'.member \in watched'
                              /\ Has(store', <<"member", store'.member>>)
  BY <1>2, <1>3 DEF MemberInv
<1>6. QED
  BY <1>4, <1>5 DEF MemberInv

\* The list is not replaced.
LEMMA ListStable ==
  ASSUME IInv, NEW c, Frame(c), Unfinished \subseteq Unfinished',
         store'.registrar = store.registrar,
         store'.pendingWithdrawals = store.pendingWithdrawals,
         since \subseteq since',
         \A w \in On(store.registrar) \cap Listed : w \notin GivenUp' =>
           \/ store'.accounts[<<"withdrawal", w>>] = withdrawals'[w].status
           \/ /\ store'.accounts[<<"withdrawal", w>>] = store.accounts[<<"withdrawal", w>>]
              /\ withdrawals'[w].status = withdrawals[w].status,
         call[c].kind = "list" /\ call[c].pc \in {"asked", "answered"}
           => call'[c].pc \in {"asked", "answered"} \/ since' # {}
  PROVE  ListInv'
<1>1. Listed' = Listed
  BY DEF Listed
<1>2. \A w \in Listed : Has(store', <<"withdrawal", w>>)
  BY DEF IInv, ListInv, Frame, Has
<1>3. ASSUME since' = {}, ListUnderWay
      PROVE  ListUnderWay'
  BY <1>3, ListStaysUnderWay
<1>4. ASSUME since' = {}, store'.pendingWithdrawals # None, ~ListUnderWay'
      PROVE  On(store.registrar)' \subseteq Listed \cup Unfinished'
  <2>1. On(store.registrar) \subseteq Listed \cup Unfinished
    BY <1>3, <1>4 DEF IInv, ListInv
  <2>2. PICK r : r = store.registrar
    OBVIOUS
  <2>3. On(r)' \subseteq On(r) \cup Unfinished'
    BY FrameOn DEF IInv
  <2>4. On(store.registrar)' = On(r)'
    BY <2>2 DEF On
  <2>5. QED
    BY <2>1, <2>2, <2>3, <2>4
<1>5. ASSUME since' = {}, NEW w \in Listed \ GivenUp'
      PROVE  store'.accounts[<<"withdrawal", w>>] = withdrawals'[w].status
  <2>1. GivenUp \subseteq GivenUp'
    BY FrameGivenUp DEF IInv
  <2>2. store.accounts[<<"withdrawal", w>>] = withdrawals[w].status
    BY <1>5, <2>1 DEF IInv, ListInv
  <2>3. w \in On(store.registrar)
    BY <1>5 DEF IInv, RegistryOfRegistrar
  <2>4. QED
    BY <1>5, <2>2, <2>3
<1>6. QED
  BY <1>1, <1>2, <1>4, <1>5 DEF ListInv, On

LEMMA RegistrarStable ==
  ASSUME IInv, NEW c, Frame(c), since \subseteq since',
         store'.registrar = store.registrar, store'.member = store.member,
         store'.pendingWithdrawals = store.pendingWithdrawals
  PROVE  RegistryOfRegistrar'
<1>1. Listed' = Listed
  BY DEF Listed
<1>2. PICK r : r = store.registrar
  OBVIOUS
<1>3. On(r) \subseteq On(r)'
  BY FrameOn DEF IInv
<1>4. On(store.registrar)' = On(r)'
  BY <1>2 DEF On
<1>5. QED
  BY <1>1, <1>2, <1>3, <1>4 DEF IInv, RegistryOfRegistrar

\* A step of the call c that dispatches nothing.
LEMMA QuietStep ==
  ASSUME IInv, NEW c, Frame(c), TypeOK', Quiet,
         CallInv(c)', RedeemInv(c)', AnswerInv(c)',
         store' = store, watched' = watched, since \subseteq since',
         call[c].pc = "vaults" => call'[c].pc \in {"vaults", "failed"},
         call[c].kind = "list" /\ call[c].pc \in {"asked", "answered"}
           => call'[c].pc \in {"asked", "answered"} \/ since' # {}
  PROVE  IInv'
<1>1. CallsInv' /\ AnswersInv'
  BY CallsStable, AnswersStable
<1>2. RegistryOfRegistrar'
  BY RegistrarStable
<1>3. MemberInv'
  BY MemberStable
<1>4. \A w \in On(store.registrar) \cap Listed : w \notin GivenUp' =>
        withdrawals'[w].status = withdrawals[w].status
  BY DEF Quiet, On
<1>5. Unfinished \subseteq Unfinished'
  BY DEF Quiet
<1>6. ListInv'
  BY <1>4, <1>5, ListStable
<1>7. QED
  BY <1>1, <1>2, <1>3, <1>6 DEF IInv

\* The frame of a step that changes one call and no withdrawal.
LEMMA MovedFrame ==
  ASSUME TypeOK, NEW c \in Begun, NEW x \in Made, Const(call[c], x),
         call' = [call EXCEPT ![c] = x],
         call[c].pc \in {"done", "failed"} => x.pc = call[c].pc,
         pending' \subseteq pending \cup {c},
         DOMAIN store.accounts \subseteq DOMAIN store'.accounts,
         withdrawals' = withdrawals
  PROVE  /\ Frame(c)
         /\ call' \in [Call -> Made \cup {Idle}]
         /\ call'[c] = x
         /\ x.pc # "done" \/ x.kind # "redeem" => Quiet
<1>1. /\ call' \in [Call -> Made \cup {Idle}]
      /\ Begun' = Begun
      /\ call'[c] = x
      /\ \A d \in Begun \ {c} : call'[d] = call[d]
      /\ \A d \in Begun : Const(call[d], call'[d])
  BY Moved
<1>2. Frame(c)
  BY <1>1 DEF Frame
<1>3. x.kind = call[c].kind
  BY DEF Const
<1>4. x.pc # "done" \/ x.kind # "redeem" => Quiet
  BY <1>1, <1>2, <1>3, FrameUnfinished DEF Quiet
<1>5. QED
  BY <1>1, <1>2, <1>4

-----------------------------------------------------------------------------
(* The first state, and the clicks.                                        *)

LEMMA EmptyAnswer == <<>> \in Answer
<1>1. <<>> \in [{} -> Status]
  OBVIOUS
<1>2. QED
  BY <1>1 DEF Answer

LEMMA InitInv == Init => IInv
<1> SUFFICES ASSUME Init PROVE IInv
  OBVIOUS
<1> DEFINE a == [k \in Keys({"registrar", "poolMint"}, Registrar)
                       \cup Keys({"vaults", "member"}, members) |-> "fresh"]
<1>1. /\ DOMAIN a \subseteq Key
      /\ \A k \in DOMAIN a : a[k] = "fresh"
      /\ \A r : <<"member", r>> \in DOMAIN a <=> r \in members
      /\ \A r : <<"vaults", r>> \in DOMAIN a <=> r \in members
  BY DEF Keys, Key, Init
<1> HIDE DEF a
<1>2. /\ store.bootstrapState = "Bootstrapped"
      /\ store.registrar = First[Mainnet]
      /\ store.member = (IF First[Mainnet] \in members THEN First[Mainnet] ELSE None)
      /\ store.pendingWithdrawals = None
      /\ store.accounts = a
  BY DEF Init, InitialState, a
<1>3. First[Mainnet] \in Registrar
  BY ConfigAssumption
<1>4. IsState(store)
  <2>1. PICK m \in Registrar \cup {None} :
          store = [bootstrapState |-> "Bootstrapped", bootstrapTrigger |-> FALSE,
                   shutdownTrigger |-> FALSE, isWalletConnected |-> TRUE,
                   network |-> Mainnet, ownedTokenAccounts |-> Mainnet,
                   vestings |-> {}, shared |-> {}, registrar |-> First[Mainnet],
                   member |-> m, pendingWithdrawals |-> None, accounts |-> a]
    BY <1>3 DEF Init, InitialState, a
  <2>2. Mainnet \in Network
    BY ConfigAssumption
  <2>3. store \in [bootstrapState : {"NeedsBootstrap", "IsBootstrapping", "Bootstrapped"},
                   bootstrapTrigger : BOOLEAN,
                   shutdownTrigger : BOOLEAN,
                   isWalletConnected : BOOLEAN,
                   network : Network,
                   ownedTokenAccounts : Network \cup {None},
                   vestings : {Shared} \cup SUBSET Vesting,
                   shared : SUBSET Vesting,
                   registrar : Registrar,
                   member : Registrar \cup {None},
                   pendingWithdrawals : {None} \cup SUBSET Withdrawal,
                   accounts : {a}]
    BY <1>3, <2>1, <2>2
  <2>4. QED
    BY <1>1, <1>2, <2>3 DEF IsState
<1>5. TypeOK
  <2>1. withdrawals \in [Withdrawal -> [registrar : Registrar, status : Status] \cup {None}]
    BY DEF Init, Status
  <2>2. watched \subseteq Registrar
    BY DEF Init
  <2>3. QED
    BY <1>4, <2>1, <2>2 DEF Init, TypeOK
<1>6. Begun = {}
  BY DEF Init, Begun
<1>7. CallsInv /\ AnswersInv
  BY <1>6 DEF Init, CallsInv, AnswersInv, CallsOf
<1>8. Listed = {}
  BY <1>2 DEF Listed
<1>9. RegistryOfRegistrar
  BY <1>2, <1>8 DEF RegistryOfRegistrar
<1>10. MemberInv
  BY <1>1, <1>2, <1>3, ConfigAssumption DEF Init, MemberInv, Has
<1>11. ListInv
  BY <1>2, <1>8 DEF ListInv
<1>12. QED
  BY <1>5, <1>7, <1>9, <1>10, <1>11 DEF IInv

LEMMA BeginStep ==
  ASSUME IInv, NEW c \in Call, NEW kind \in Kind,
         NEW pc \in {"preparing", "asked", "switching"}, NEW target \in Registrar,
         NEW w \in Withdrawal \cup {None}, Begin(c, kind, pc, target, w),
         pc = "preparing" => kind \in {"create", "redeem", "complete"},
         kind \in {"redeem", "complete"} => w \in Withdrawal,
         kind = "redeem" => /\ pc = "preparing"
                            /\ withdrawals[w] = None
                            /\ \A d \in Call : call[d] # Idle => call[d].withdrawal # w
  PROVE  IInv'
<1> DEFINE x == [kind |-> kind, pc |-> pc, registrar |-> store.registrar,
                 target |-> target, found |-> Has(store, <<"member", target>>),
                 withdrawal |-> w, sent |-> 0, seen |-> <<>>, dirty |-> FALSE]
<1>1. /\ call[c] = Idle /\ call' = [call EXCEPT ![c] = x]
      /\ store' = store /\ watched' = watched /\ since' = since
      /\ pending' = pending /\ members' = members /\ withdrawals' = withdrawals
  BY DEF Begin, chain
<1>2. x \in Made
  BY EmptyAnswer DEF Made, Pc, IInv, TypeOK, IsState, Has
<1>3. /\ x.kind = kind /\ x.pc = pc /\ x.target = target /\ x.withdrawal = w
      /\ x.found => Has(store, <<"member", target>>)
  OBVIOUS
<1> HIDE DEF x
<1>4. /\ call' \in [Call -> Made \cup {Idle}]
      /\ call'[c] = x
      /\ \A d \in Call \ {c} : call'[d] = call[d]
  BY <1>1, <1>2 DEF IInv, TypeOK
<1>5. TypeOK'
  BY <1>1, <1>4 DEF IInv, TypeOK
<1>6. x # Idle
  BY <1>2, MadeIsNotIdle
<1>7. /\ c \notin Begun
      /\ Begun' = Begun \cup {c}
      /\ \A d \in Begun : call'[d] = call[d]
  BY <1>1, <1>4, <1>6 DEF Begun
<1>8. /\ Unfinished \subseteq Unfinished'
      /\ GivenUp \subseteq GivenUp'
  BY <1>7 DEF Unfinished, GivenUp, CallsOf
<1>9. \A r : On(r)' = On(r)
  BY <1>1 DEF On
<1>10. CallsInv'
  <2>1. pending' \subseteq Begun'
    BY <1>1, <1>7 DEF IInv, CallsInv
  <2>2. CallInv(c)' /\ RedeemInv(c)'
    <3>1. c \notin pending'
      BY <1>1, <1>7 DEF IInv, CallsInv
    <3>2. QED
      BY <1>1, <1>3, <1>4, <3>1 DEF CallInv, RedeemInv
  <2>3. ASSUME NEW d \in Begun
        PROVE  CallInv(d)' /\ RedeemInv(d)'
    <3>1. CallInv(d) /\ RedeemInv(d) /\ call'[d] = call[d]
      BY <1>7 DEF IInv, CallsInv
    <3>2. QED
      BY <1>1, <3>1 DEF CallInv, RedeemInv, On
  <2>4. ASSUME NEW d \in CallsOf("redeem")', NEW e \in CallsOf("redeem")',
               call'[d].withdrawal = call'[e].withdrawal
        PROVE  d = e
    <3>1. \A b \in CallsOf("redeem")' : b = c \/ (b \in CallsOf("redeem") /\ call'[b] = call[b])
      BY <1>7 DEF CallsOf
    <3>2. ASSUME kind = "redeem", NEW b \in CallsOf("redeem")
          PROVE  call[b].withdrawal # w
      BY <3>2 DEF CallsOf, Begun
    <3>3. c \in CallsOf("redeem")' => kind = "redeem"
      BY <1>3, <1>4 DEF CallsOf
    <3>4. QED
      BY <1>3, <1>4, <2>4, <3>1, <3>2, <3>3 DEF IInv, CallsInv
  <2>5. QED
    BY <1>7, <2>1, <2>2, <2>3, <2>4 DEF CallsInv
<1>11. AnswersInv'
  <2>1. AnswerInv(c)'
    BY <1>3, <1>4 DEF AnswerInv
  <2>2. ASSUME NEW d \in Begun
        PROVE  AnswerInv(d)'
    <3>1. AnswerInv(d) /\ call'[d] = call[d]
      BY <1>7 DEF IInv, AnswersInv
    <3>2. QED
      BY <1>1, <1>8, <3>1 DEF AnswerInv, On
  <2>3. QED
    BY <1>7, <2>1, <2>2 DEF AnswersInv
<1>12. RegistryOfRegistrar'
  BY <1>1 DEF IInv, RegistryOfRegistrar, Listed, On
<1>13. MemberInv'
  <2>1. ASSUME NEW r, VaultsOnTheWay(r)
        PROVE  VaultsOnTheWay(r)'
    <3>1. PICK d \in Call : /\ Is(d, "create", "vaults") \/ Is(d, "create", "failed")
                            /\ call[d].registrar = r
      BY <2>1 DEF VaultsOnTheWay
    <3>2. call'[d] = call[d]
      BY <1>7, <3>1 DEF Begun, Is, Idle
    <3>3. QED
      BY <3>1, <3>2 DEF VaultsOnTheWay, Is
  <2>2. QED
    BY <1>1, <2>1 DEF IInv, MemberInv
<1>14. ListInv'
  <2>1. ASSUME ListUnderWay
        PROVE  ListUnderWay'
    <3>1. PICK d \in Call : /\ Is(d, "list", "asked") \/ Is(d, "list", "answered")
                            /\ call[d].registrar = store.registrar
      BY <2>1 DEF ListUnderWay
    <3>2. call'[d] = call[d]
      BY <1>7, <3>1 DEF Begun, Is, Idle
    <3>3. QED
      BY <1>1, <3>1, <3>2 DEF ListUnderWay, Is
  <2>2. QED
    BY <1>1, <1>8, <2>1 DEF IInv, ListInv, Listed, On
<1>15. QED
  BY <1>5, <1>10, <1>11, <1>12, <1>13, <1>14 DEF IInv

LEMMA ClickStep ==
  ASSUME IInv, NEW c \in Call, Click(c)
  PROVE  IInv'
<1>1. store.registrar \in Registrar
  BY DEF IInv, TypeOK, IsState
<1>2. CASE CreateStakeAccount(c)
  BY <1>1, <1>2, BeginStep DEF CreateStakeAccount, Kind
<1>3. CASE RequestList(c)
  BY <1>1, <1>3, BeginStep DEF RequestList, Kind
<1>4. ASSUME NEW w \in Withdrawal, RedeemPoolTokens(c, w)
      PROVE  IInv'
  BY <1>1, <1>4, BeginStep DEF RedeemPoolTokens, Kind
<1>5. ASSUME NEW w \in Withdrawal, EndPendingWithdrawal(c, w)
      PROVE  IInv'
  BY <1>1, <1>5, BeginStep DEF EndPendingWithdrawal, Kind
<1>6. ASSUME NEW r \in Registrar, RegistrarSwitch(c, r)
      PROVE  IInv'
  BY <1>6, BeginStep DEF RegistrarSwitch, Kind
<1>7. QED
  BY <1>2, <1>3, <1>4, <1>5, <1>6 DEF Click

-----------------------------------------------------------------------------
(* Requests and transactions that dispatch nothing.                        *)

LEMMA SendTransactionStep ==
  ASSUME IInv, NEW c \in Begun, SendTransaction(c)
  PROVE  IInv'
<1> DEFINE x == [call[c] EXCEPT !.pc = "sending", !.sent = 1]
<1>1. /\ call[c].pc = "preparing" /\ call' = [call EXCEPT ![c] = x]
      /\ pending' = pending \cup {c}
      /\ UNCHANGED <<store, watched, members, withdrawals, since>>
  BY DEF SendTransaction
<1>2. c \in Call /\ call[c] \in Made
  BY BegunIsMade DEF IInv
<1>3. /\ x \in Made /\ Const(call[c], x) /\ x.pc = "sending" /\ x.sent = 1
  <2>1. "sending" \in Pc /\ 1 \in 0..3
    BY DEF Pc
  <2>2. QED
    BY <1>2, <2>1 DEF Made, Const
<1> HIDE DEF x
<1>4. /\ Frame(c) /\ Quiet
      /\ call' \in [Call -> Made \cup {Idle}] /\ call'[c] = x
  BY <1>1, <1>3, MovedFrame DEF IInv
<1>5. TypeOK'
  BY <1>1, <1>2, <1>4 DEF IInv, TypeOK
<1>6. CallInv(c) /\ RedeemInv(c)
  BY DEF IInv, CallsInv
<1>7. CallInv(c)'
  BY <1>1, <1>3, <1>4, <1>6 DEF CallInv, Const
<1>8. RedeemInv(c)'
  BY <1>1, <1>3, <1>4, <1>6 DEF RedeemInv, Const
<1>9. AnswerInv(c)'
  BY <1>3, <1>4 DEF AnswerInv
<1>10. QED
  BY <1>1, <1>4, <1>5, <1>7, <1>8, <1>9, QuietStep

LEMMA NodeReadsStep ==
  ASSUME IInv, NEW c \in Begun, NodeReads(c)
  PROVE  IInv'
<1> DEFINE read == IF call[c].kind = "redeem" THEN {call[c].withdrawal}
                                               ELSE On(call[c].registrar)
           f == [w \in read |-> withdrawals[w].status]
           x == [call[c] EXCEPT !.pc = "answered", !.seen = f]
<1>1. /\ call[c].pc = "asked" /\ call[c].kind \in {"redeem", "list"}
      /\ call' = [call EXCEPT ![c] = x]
      /\ UNCHANGED <<store, watched, pending, members, withdrawals, since>>
  BY DEF NodeReads, Is, chain
<1>2. c \in Call /\ call[c] \in Made
  BY BegunIsMade DEF IInv
<1>3. CallInv(c) /\ RedeemInv(c)
  BY DEF IInv, CallsInv
<1>4. read \subseteq On(call[c].registrar)
  BY <1>1, <1>3 DEF RedeemInv
<1>5. \A w \in On(call[c].registrar) : w \in Withdrawal /\ withdrawals[w].status \in Status
  BY DEF IInv, TypeOK, On
<1>6. f \in Answer /\ DOMAIN f = read /\ \A w \in read : f[w] = withdrawals[w].status
  <2>1. f \in [read -> Status] /\ read \in SUBSET Withdrawal
    BY <1>4, <1>5
  <2>2. QED
    BY <2>1 DEF Answer
<1>7. /\ call[c].kind = "redeem" => read = {call[c].withdrawal}
      /\ call[c].kind = "list" => read = On(call[c].registrar)
  OBVIOUS
<1> HIDE DEF f, read
<1>8. /\ x \in Made /\ Const(call[c], x) /\ x.pc = "answered" /\ x.seen = f
      /\ x.sent = call[c].sent
  BY <1>2, <1>6 DEF Made, Pc, Const
<1> HIDE DEF x
<1>9. /\ Frame(c) /\ Quiet
      /\ call' \in [Call -> Made \cup {Idle}] /\ call'[c] = x
  BY <1>1, <1>8, MovedFrame DEF IInv
<1>10. TypeOK'
  BY <1>1, <1>2, <1>9 DEF IInv, TypeOK
<1>11. CallInv(c)'
  BY <1>1, <1>3, <1>8, <1>9 DEF CallInv, Const
<1>12. RedeemInv(c)'
  BY <1>1, <1>3, <1>8, <1>9 DEF RedeemInv, CallInv, Const, On
<1>13. AnswerInv(c)'
  BY <1>1, <1>4, <1>6, <1>7, <1>8, <1>9 DEF AnswerInv, Const, On
<1>14. QED
  BY <1>1, <1>8, <1>9, <1>10, <1>11, <1>12, <1>13, QuietStep

\* A call ends with an error.
LEMMA FailStep ==
  ASSUME IInv, NEW c \in Begun, Go(c, "failed"), call[c].pc # "done",
         pending' \subseteq pending,
         UNCHANGED <<store, watched, members, withdrawals>>,
         since' \subseteq {"crossed", "outdated", "listLost"}, since \subseteq since',
         call[c].kind = "list" => since' # {}
  PROVE  IInv'
<1> DEFINE x == [call[c] EXCEPT !.pc = "failed"]
<1>1. call' = [call EXCEPT ![c] = x]
  BY DEF Go
<1>2. c \in Call /\ call[c] \in Made
  BY BegunIsMade DEF IInv
<1>3. /\ x \in Made /\ Const(call[c], x) /\ x.pc = "failed"
      /\ x.sent = call[c].sent
  BY <1>2 DEF Made, Pc, Const
<1> HIDE DEF x
<1>4. /\ Frame(c) /\ Quiet
      /\ call' \in [Call -> Made \cup {Idle}] /\ call'[c] = x
  BY <1>1, <1>3, MovedFrame DEF IInv
<1>5. TypeOK'
  BY <1>4 DEF IInv, TypeOK
<1>6. CallInv(c) /\ RedeemInv(c)
  BY DEF IInv, CallsInv
<1>7. CallInv(c)'
  BY <1>3, <1>4, <1>6 DEF CallInv, Const
<1>8. RedeemInv(c)'
  BY <1>3, <1>4, <1>6 DEF RedeemInv, Const
<1>9. AnswerInv(c)'
  BY <1>3, <1>4 DEF AnswerInv
<1>10. QED
  BY <1>3, <1>4, <1>5, <1>7, <1>8, <1>9, QuietStep

LEMMA RequestFailsStep ==
  ASSUME IInv, NEW c \in Begun, RequestFails(c)
  PROVE  IInv'
<1>1. call[c].kind = "list" => since' # {}
  BY DEF RequestFails
<1>2. since' \subseteq {"crossed", "outdated", "listLost"} /\ since \subseteq since'
  BY DEF RequestFails, IInv, TypeOK
<1>3. QED
  BY <1>1, <1>2, FailStep DEF RequestFails, chain

LEMMA TransactionErrsStep ==
  ASSUME IInv, NEW c \in Call, TransactionErrs(c)
  PROVE  IInv'
<1>1. c \in Begun /\ CallInv(c)
  BY DEF IInv, CallsInv, TransactionErrs
<1>2. call[c].pc # "done" /\ call[c].kind # "list"
  BY <1>1 DEF CallInv, TransactionErrs
<1>3. QED
  BY <1>1, <1>2, FailStep DEF TransactionErrs, IInv, TypeOK

\* A step that leaves the calls alone.
LEMMA StillFrame ==
  ASSUME TypeOK, NEW c \in Begun, call' = call, pending' \subseteq pending,
         store' = store, withdrawals' = withdrawals
  PROVE  Frame(c) /\ Quiet
<1>1. Begun' = Begun
  BY DEF Begun
<1>2. Frame(c)
  BY <1>1 DEF Frame, Const
<1>3. Quiet
  BY DEF Quiet, Unfinished, CallsOf, Begun
<1>4. QED
  BY <1>2, <1>3

LEMMA TransactionExpiresStep ==
  ASSUME IInv, NEW c \in Call, TransactionExpires(c)
  PROVE  IInv'
<1>1. /\ call' = call /\ pending' = pending \ {c}
      /\ UNCHANGED <<store, watched, members, withdrawals, since>>
  BY DEF TransactionExpires
<1>2. c \in Begun /\ CallInv(c) /\ RedeemInv(c) /\ AnswerInv(c)
  BY DEF IInv, CallsInv, AnswersInv, TransactionExpires
<1>3. Frame(c) /\ Quiet
  BY <1>1, <1>2, StillFrame DEF IInv
<1>4. TypeOK'
  BY <1>1 DEF IInv, TypeOK
<1>5. CallInv(c)' /\ RedeemInv(c)'
  BY <1>1, <1>2 DEF CallInv, RedeemInv, On
<1>6. AnswerInv(c)'
  BY <1>1, <1>2 DEF AnswerInv, On, Unfinished, GivenUp, CallsOf, Begun
<1>7. QED
  BY <1>1, <1>3, <1>4, <1>5, <1>6, QuietStep

-----------------------------------------------------------------------------
(* A transaction lands.                                                    *)

Account == [registrar : Registrar, status : Status]

LEMMA LandsMeans ==
  ASSUME IInv, NEW c \in Call, TransactionLands(c)
  PROVE  /\ c \in Begun /\ c \in pending
         /\ call[c].kind \in {"create", "redeem", "complete"}
         /\ call[c].pc \in {"sending", "failed"}
         /\ call[c].sent \in 1..3
         /\ members' \subseteq Registrar
         /\ withdrawals' \in [Withdrawal -> Account \cup {None}]
         /\ \A w \in Withdrawal : withdrawals[w] # None =>
              /\ withdrawals'[w] # None
              /\ withdrawals'[w].registrar = withdrawals[w].registrar
              /\ \/ withdrawals'[w].status = withdrawals[w].status
                 \/ /\ call[c].kind = "complete"
                    /\ w = call[c].withdrawal
                    /\ withdrawals'[w].status = "burned"
         /\ \A w \in Withdrawal : withdrawals[w] = None /\ withdrawals'[w] # None =>
              call[c].kind = "redeem" /\ call[c].withdrawal = w
         /\ call[c].kind = "redeem" => call[c].withdrawal \in On(call[c].registrar)'
<1>1. c \in Begun /\ c \in pending
  BY DEF IInv, CallsInv, TransactionLands
<1>2. CallInv(c) /\ RedeemInv(c) /\ call[c] \in Made
  BY <1>1, BegunIsMade DEF IInv, CallsInv
<1>3. /\ call[c].kind \in {"create", "redeem", "complete"}
      /\ call[c].pc \in {"sending", "failed"}
      /\ call[c].sent \in 1..3
  BY <1>1, <1>2 DEF CallInv
<1>4. call[c].registrar \in Registrar
  BY <1>2 DEF Made
<1>5. members' \subseteq Registrar
  BY <1>4 DEF TransactionLands, IInv, TypeOK
<1>6. withdrawals \in [Withdrawal -> Account \cup {None}]
  BY DEF IInv, TypeOK, Account
<1>7. CASE call[c].kind = "create"
  <2>1. withdrawals' = withdrawals
    BY <1>7 DEF TransactionLands
  <2>2. QED
    BY <1>1, <1>3, <1>5, <1>6, <1>7, <2>1
<1>8. CASE call[c].kind = "redeem"
  <2> DEFINE a == [registrar |-> call[c].registrar, status |-> "fresh"]
  <2>1. withdrawals' = [withdrawals EXCEPT ![call[c].withdrawal] = a]
    BY <1>8 DEF TransactionLands
  <2>2. a \in Account /\ a # None /\ a.registrar = call[c].registrar
    BY <1>4, RegistryAssumption DEF Account, Status
  <2> HIDE DEF a
  <2>3. call[c].withdrawal \in Withdrawal /\ withdrawals[call[c].withdrawal] = None
    BY <1>1, <1>2, <1>8 DEF CallInv, RedeemInv
  <2>4. /\ withdrawals' \in [Withdrawal -> Account \cup {None}]
        /\ withdrawals'[call[c].withdrawal] = a
        /\ \A w \in Withdrawal : w # call[c].withdrawal => withdrawals'[w] = withdrawals[w]
    BY <1>6, <2>1, <2>2, <2>3
  <2>5. call' = call \/ Const(call[c], call'[c])
    <3>1. CASE call' = call
      BY <3>1
    <3>2. CASE call' # call
      <4>1. Confirmed(c)
        BY <3>2 DEF TransactionLands
      <4>2. call' = [call EXCEPT ![c].sent = @ + 1] \/ call' = [call EXCEPT ![c].pc = "asked"]
        BY <1>8, <4>1 DEF Confirmed, Go
      <4>3. c \in Call /\ call \in [Call -> Made \cup {Idle}]
        BY DEF IInv, TypeOK
      <4>4. QED
        BY <1>2, <4>2, <4>3 DEF Const, Made
    <3>3. QED
      BY <3>1, <3>2
  <2>6. /\ call'[c].registrar = call[c].registrar
    BY <2>5 DEF Const
  <2>7. call[c].withdrawal \in On(call[c].registrar)'
    BY <2>2, <2>3, <2>4, <2>6 DEF On
  <2>8. QED
    BY <1>1, <1>3, <1>5, <1>8, <2>3, <2>4, <2>7
<1>9. CASE call[c].kind = "complete"
  <2> DEFINE a == [registrar |-> call[c].registrar, status |-> "burned"]
  <2>1. /\ withdrawals' = [withdrawals EXCEPT ![call[c].withdrawal] = a]
        /\ withdrawals[call[c].withdrawal]
             = [registrar |-> call[c].registrar, status |-> "fresh"]
    BY <1>9 DEF TransactionLands, Succeeds
  <2>2. a \in Account /\ a # None /\ a.registrar = call[c].registrar /\ a.status = "burned"
    BY <1>4, RegistryAssumption DEF Account, Status
  <2> HIDE DEF a
  <2>3. call[c].withdrawal \in Withdrawal
    BY <1>2, <1>9 DEF CallInv
  <2>4. /\ withdrawals' \in [Withdrawal -> Account \cup {None}]
        /\ withdrawals'[call[c].withdrawal] = a
        /\ \A w \in Withdrawal : w # call[c].withdrawal => withdrawals'[w] = withdrawals[w]
    BY <1>6, <2>1, <2>2, <2>3
  <2>5. [registrar |-> call[c].registrar, status |-> "fresh"] # None
    BY <1>4, RegistryAssumption
  <2>6. QED
    BY <1>1, <1>3, <1>5, <1>9, <2>1, <2>2, <2>4, <2>5
<1>10. QED
  BY <1>3, <1>7, <1>8, <1>9

\* The sender has given up.
LEMMA LandsLateStep ==
  ASSUME IInv, NEW c \in Call, TransactionLands(c), call[c].pc = "failed"
  PROVE  IInv'
<1>1. /\ c \in Begun /\ call[c].kind \in {"create", "redeem", "complete"}
      /\ members' \subseteq Registrar
      /\ withdrawals' \in [Withdrawal -> Account \cup {None}]
  BY LandsMeans
<1>2. /\ call' = call /\ store' = store /\ pending' = pending \ {c}
      /\ watched' = watched /\ since' = since
  BY DEF TransactionLands
<1>3. Begun' = Begun
  BY <1>2 DEF Begun
<1>4. Frame(c)
  BY <1>1, <1>2, <1>3, LandsMeans DEF Frame, Const
<1>5. TypeOK'
  BY <1>1, <1>2 DEF IInv, TypeOK, Account
<1>6. Unfinished' = Unfinished /\ GivenUp' = GivenUp
  BY <1>2, <1>3 DEF Unfinished, GivenUp, CallsOf
<1>7. call[c].kind = "complete" => call[c].withdrawal \in GivenUp
  BY <1>1 DEF GivenUp, CallsOf
<1>8. Quiet
  BY <1>6, <1>7, LandsMeans DEF Quiet
<1>9. CallInv(c)
  BY <1>1 DEF IInv, CallsInv
<1>10. CallInv(c)' /\ RedeemInv(c)' /\ AnswerInv(c)'
  BY <1>2, <1>9 DEF CallInv, RedeemInv, AnswerInv
<1>11. QED
  BY <1>1, <1>2, <1>4, <1>5, <1>8, <1>10, QuietStep

\* Another transaction of sendAll follows, or the new account is requested.
LEMMA LandsOnStep ==
  ASSUME IInv, NEW c \in Call, TransactionLands(c), call[c].pc = "sending",
         NEW x \in Made, call' = [call EXCEPT ![c] = x], Const(call[c], x),
         store' = store,
         \/ x.pc = "sending" /\ x.sent \in 1..3 /\ pending' = pending
              /\ call[c].kind = "create"
         \/ x.pc = "asked" /\ pending' = pending \ {c} /\ call[c].kind # "complete"
  PROVE  IInv'
<1>1. /\ c \in Begun /\ c \in pending
      /\ call[c].kind \in {"create", "redeem", "complete"}
      /\ members' \subseteq Registrar
      /\ withdrawals' \in [Withdrawal -> Account \cup {None}]
      /\ call[c].kind = "redeem" => call[c].withdrawal \in On(call[c].registrar)'
  BY LandsMeans
<1>2. watched' = watched /\ since' = since
  BY DEF TransactionLands
<1>3. /\ call' \in [Call -> Made \cup {Idle}]
      /\ Begun' = Begun
      /\ call'[c] = x
      /\ \A d \in Begun \ {c} : call'[d] = call[d]
      /\ \A d \in Begun : Const(call[d], call'[d])
  BY <1>1, Moved DEF IInv
<1>4. Frame(c)
  BY <1>1, <1>3, LandsMeans DEF Frame
<1>5. TypeOK'
  BY <1>1, <1>2, <1>3 DEF IInv, TypeOK, Account
<1>6. Unfinished \subseteq Unfinished'
  BY <1>3, <1>4, FrameUnfinished DEF IInv
<1>7. Quiet
  BY <1>6, LandsMeans DEF Quiet
<1>8. CallInv(c)
  BY <1>1 DEF IInv, CallsInv
<1>9. CallInv(c)'
  BY <1>1, <1>3, <1>8 DEF CallInv, Const
<1>10. RedeemInv(c)'
  BY <1>1, <1>3 DEF RedeemInv, Const, On
<1>11. AnswerInv(c)'
  BY <1>3 DEF AnswerInv
<1>12. QED
  BY <1>1, <1>2, <1>3, <1>4, <1>5, <1>7, <1>9, <1>10, <1>11, QuietStep

\* A withdrawal is completed, and marked as burned.
LEMMA LandsCompletedStep ==
  ASSUME IInv, NEW c \in Call, TransactionLands(c), call[c].pc = "sending",
         call[c].kind = "complete",
         store' = RegistryUpdatePendingWithdrawal(store, call[c].withdrawal, "burned"),
         call' = Dirty([call EXCEPT ![c].pc = "done"]),
         pending' = pending \ {c}
  PROVE  IInv'
<1> PICK w : w = call[c].withdrawal
  OBVIOUS
<1> DEFINE key == <<"withdrawal", w>>
<1>1. /\ c \in Begun /\ c \in pending
      /\ members' \subseteq Registrar
      /\ withdrawals' \in [Withdrawal -> Account \cup {None}]
  BY LandsMeans
<1>2. watched' = watched /\ since' = since
  BY DEF TransactionLands
<1>3. CallInv(c) /\ w \in Withdrawal
  BY <1>1 DEF IInv, CallsInv, CallInv
<1>4. /\ Grows(store, store')
      /\ store'.registrar = store.registrar
      /\ store'.member = store.member
      /\ store'.pendingWithdrawals = store.pendingWithdrawals
      /\ DOMAIN store'.accounts = {key} \cup DOMAIN store.accounts
      /\ store'.accounts[key] = "burned"
      /\ \A k \in DOMAIN store.accounts \ {key} : store'.accounts[k] = store.accounts[k]
  <2>1. key \in Key /\ "burned" \in Status
    BY <1>3 DEF Key, Status
  <2>2. store' = AccountAdd(store, Entry(key, "burned"))
    BY DEF RegistryUpdatePendingWithdrawal
  <2>3. QED
    BY <2>1, <2>2, EntryAddIs DEF IInv, TypeOK
<1>5. /\ call' \in [Call -> Made \cup {Idle}]
      /\ Begun' = Begun
      /\ call'[c].pc = "done"
      /\ \A d \in Begun \ {c} : /\ call'[d].pc = call[d].pc
                                /\ call'[d].sent = call[d].sent
                                /\ call'[d].seen = call[d].seen
                                /\ call[d].dirty => call'[d].dirty
      /\ OthersDirty(c)
      /\ \A d \in Begun : Const(call[d], call'[d])
  BY <1>1, EndedDirty DEF IInv, OthersDirty
<1>6. Frame(c)
  BY <1>1, <1>4, <1>5, LandsMeans DEF Frame, Grows
<1>7. TypeOK'
  BY <1>1, <1>2, <1>4, <1>5 DEF IInv, TypeOK, Account, Grows
<1>8. CallInv(c)'
  <2>1. c \notin pending' /\ Const(call[c], call'[c]) /\ call'[c].pc = "done"
    BY <1>1, <1>5
  <2>2. DOMAIN store.accounts \subseteq DOMAIN store'.accounts
    BY <1>4
  <2>3. QED
    BY <1>3, <2>1, <2>2 DEF CallInv, Const, Has
<1>9. RedeemInv(c)' /\ AnswerInv(c)'
  BY <1>1, <1>5 DEF RedeemInv, AnswerInv, Const
<1>10. CallsInv' /\ AnswersInv'
  BY <1>5, <1>6, <1>8, <1>9, CallsStable, AnswersStable
<1>11. RegistryOfRegistrar'
  BY <1>2, <1>4, <1>6, RegistrarStable
<1>12. MemberInv'
  BY <1>2, <1>4, <1>6, MemberStable DEF Has
<1>13. ListInv'
  <2>1. Unfinished \subseteq Unfinished'
    BY <1>6, FrameUnfinished DEF IInv
  <2>2. ASSUME NEW v \in On(store.registrar) \cap Listed
        PROVE  \/ store'.accounts[<<"withdrawal", v>>] = withdrawals'[v].status
               \/ /\ store'.accounts[<<"withdrawal", v>>] = store.accounts[<<"withdrawal", v>>]
                  /\ withdrawals'[v].status = withdrawals[v].status
    <3>1. v \in Withdrawal /\ withdrawals[v] # None /\ <<"withdrawal", v>> \in DOMAIN store.accounts
      BY DEF On, IInv, ListInv, Has
    <3>2. CASE v = w
      <4>1. withdrawals'[w].status = "burned"
        BY <1>3 DEF TransactionLands, IInv, TypeOK
      <4>2. QED
        BY <1>4, <3>2, <4>1
    <3>3. CASE v # w
      BY <1>4, <3>1, <3>3, LandsMeans
    <3>4. QED
      BY <3>2, <3>3
  <2>3. QED
    BY <1>2, <1>4, <1>6, <2>1, <2>2, ListStable
<1>14. QED
  BY <1>7, <1>10, <1>11, <1>12, <1>13 DEF IInv

LEMMA TransactionLandsStep ==
  ASSUME IInv, NEW c \in Call, TransactionLands(c)
  PROVE  IInv'
<1>1. /\ c \in Begun
      /\ call[c].kind \in {"create", "redeem", "complete"}
      /\ call[c].pc \in {"sending", "failed"}
      /\ call[c].sent \in 1..3
  BY LandsMeans
<1>2. call[c] \in Made
  BY <1>1, BegunIsMade DEF IInv
<1>3. CASE call[c].pc = "failed"
  BY <1>3, LandsLateStep
<1>4. CASE call[c].pc = "sending"
  <2>1. Confirmed(c)
    BY <1>4 DEF TransactionLands
  <2>2. CASE call[c].sent < Needed(call[c].kind)
    <3> DEFINE x == [call[c] EXCEPT !.sent = @ + 1]
    <3>1. /\ call' = [call EXCEPT ![c] = x]
          /\ store' = store /\ pending' = pending
      BY <2>1, <2>2 DEF Confirmed
    <3>2. call[c].kind = "create" /\ call[c].sent + 1 \in 1..3
      BY <1>1, <2>2 DEF Needed
    <3>3. x \in Made /\ Const(call[c], x) /\ x.pc = "sending" /\ x.sent \in 1..3
      <4>1. call[c].sent + 1 \in 0..3
        BY <3>2
      <4>2. QED
        BY <1>2, <1>4, <3>2, <4>1 DEF Made, Const
    <3> HIDE DEF x
    <3>4. QED
      BY <1>4, <3>1, <3>2, <3>3, LandsOnStep
  <2>3. CASE ~(call[c].sent < Needed(call[c].kind)) /\ call[c].kind = "complete"
    BY <1>4, <2>1, <2>3, LandsCompletedStep DEF Confirmed
  <2>4. CASE ~(call[c].sent < Needed(call[c].kind)) /\ call[c].kind # "complete"
    <3> DEFINE x == [call[c] EXCEPT !.pc = "asked"]
    <3>1. /\ call' = [call EXCEPT ![c] = x]
          /\ store' = store /\ pending' = pending \ {c}
      BY <2>1, <2>4 DEF Confirmed, Go
    <3>2. x \in Made /\ Const(call[c], x) /\ x.pc = "asked"
      BY <1>2 DEF Made, Pc, Const
    <3> HIDE DEF x
    <3>3. QED
      BY <1>4, <2>4, <3>1, <3>2, LandsOnStep
  <2>5. QED
    BY <2>2, <2>3, <2>4
<1>5. QED
  BY <1>1, <1>3, <1>4

-----------------------------------------------------------------------------
(* Answers are dispatched.                                                 *)

\* What the marks say if there are none.
LEMMA Unmarked ==
  ASSUME NEW c, since' = since \cup Marks(c)
  PROVE  /\ since \subseteq since'
         /\ "crossed" \notin since' =>
              "crossed" \notin since /\ call[c].registrar = store.registrar
         /\ since' = {} =>
              /\ since = {}
              /\ call[c].registrar = store.registrar
              /\ ~call[c].dirty
              /\ call[c].kind = "redeem" =>
                   store.pendingWithdrawals # None \/ ListUnderWay
BY DEF Marks

LEMMA MarksType ==
  ASSUME IInv, NEW c, since' = since \cup Marks(c)
  PROVE  since' \subseteq {"crossed", "outdated", "listLost"}
BY DEF Marks, IInv, TypeOK

LEMMA WithdrawalFetchedStep ==
  ASSUME IInv, NEW c \in Begun, WithdrawalFetched(c)
  PROVE  IInv'
<1> PICK w : w = call[c].withdrawal
  OBVIOUS
<1> PICK r : r = call[c].registrar
  OBVIOUS
<1> DEFINE key == <<"withdrawal", w>>
<1>1. /\ call[c].pc = "answered" /\ call[c].kind = "redeem"
      /\ store' = RegistryCreatePendingWithdrawal(store, w, call[c].seen[w])
      /\ call' = Dirty([call EXCEPT ![c].pc = "done"])
      /\ since' = since \cup Marks(c)
      /\ UNCHANGED <<watched, pending, members, withdrawals>>
  BY DEF WithdrawalFetched, Is, chain
<1>2. c \in Call /\ call[c] \in Made
  BY BegunIsMade DEF IInv
<1>3. CallInv(c) /\ RedeemInv(c) /\ AnswerInv(c)
  BY DEF IInv, CallsInv, AnswersInv
<1>4. /\ w \in Withdrawal
      /\ w \in On(r)
      /\ DOMAIN call[c].seen = {w}
      /\ ~call[c].dirty => w \in GivenUp \/ call[c].seen[w] = withdrawals[w].status
  BY <1>1, <1>3 DEF CallInv, RedeemInv, AnswerInv
<1>5. call[c].seen[w] \in Status
  <2>1. call[c].seen \in Answer
    BY <1>2 DEF Made
  <2>2. QED
    BY <1>4, <2>1 DEF Answer
<1> PICK y : y = call[c].seen[w]
  OBVIOUS
<1> DEFINE t == RegistryCreatePendingWithdrawal(store, w, y)
<1> store' = t /\ IsState(store)
  BY <1>1 DEF IInv, TypeOK
<1>a. w \in Withdrawal /\ y \in Status
  BY <1>4, <1>5
<1>b. /\ Grows(store, t)
      /\ t.registrar = store.registrar
      /\ t.member = store.member
      /\ t.pendingWithdrawals = Listed \cup {w}
      /\ DOMAIN t.accounts = {key} \cup DOMAIN store.accounts
      /\ t.accounts[key] = y
      /\ \A k \in DOMAIN store.accounts \ {key} : t.accounts[k] = store.accounts[k]
  BY ONLY <1>a, IsState(store), CreatePendingIs DEF Listed
<1> HIDE DEF t
<1>6. /\ Grows(store, store')
      /\ store'.registrar = store.registrar
      /\ store'.member = store.member
      /\ store'.pendingWithdrawals = Listed \cup {w}
      /\ DOMAIN store'.accounts = {key} \cup DOMAIN store.accounts
      /\ store'.accounts[key] = call[c].seen[w]
      /\ \A k \in DOMAIN store.accounts \ {key} : store'.accounts[k] = store.accounts[k]
  BY <1>b
<1>7. Listed' = Listed \cup {w}
  <2>1. store'.pendingWithdrawals \in SUBSET Withdrawal
    BY <1>4, <1>6 DEF IInv, TypeOK, IsState, Listed
  <2>2. store'.pendingWithdrawals # None
    BY <2>1, RegistryAssumption
  <2>3. QED
    BY <1>6, <2>2 DEF Listed
<1>8. /\ call' \in [Call -> Made \cup {Idle}]
      /\ Begun' = Begun
      /\ call'[c].pc = "done"
      /\ \A d \in Begun \ {c} : /\ call'[d].pc = call[d].pc
                                /\ call'[d].sent = call[d].sent
                                /\ call'[d].seen = call[d].seen
                                /\ call[d].dirty => call'[d].dirty
      /\ OthersDirty(c)
      /\ \A d \in Begun : Const(call[d], call'[d])
  BY <1>1, EndedDirty DEF IInv, OthersDirty
<1>9. Frame(c)
  BY <1>1, <1>6, <1>8 DEF Frame, Grows
<1>10. TypeOK'
  BY <1>1, <1>6, <1>8, MarksType DEF IInv, TypeOK, Grows
<1>11. Const(call[c], call'[c]) /\ c \notin pending'
  BY <1>1, <1>3, <1>8 DEF CallInv
<1>12. CallInv(c)'
  <2>1. DOMAIN store.accounts \subseteq DOMAIN store'.accounts
    BY <1>6
  <2>2. QED
    BY <1>3, <1>8, <1>11, <2>1 DEF CallInv, Const, Has
<1>13. \A q : On(q)' = On(q)
  BY <1>1 DEF On
<1>14. RedeemInv(c)'
  BY <1>1, <1>4, <1>8, <1>11 DEF RedeemInv, Const, On
<1>15. AnswerInv(c)'
  BY <1>8 DEF AnswerInv
<1>16. CallsInv' /\ AnswersInv'
  BY <1>8, <1>9, <1>12, <1>14, <1>15, CallsStable, AnswersStable
<1>17. RegistryOfRegistrar'
  <2> SUFFICES ASSUME "crossed" \notin since'
               PROVE  /\ store'.member \in {None, store'.registrar}
                      /\ Listed' \subseteq On(store.registrar)
    BY <1>6, <1>13 DEF RegistryOfRegistrar, On
  <2>1. "crossed" \notin since /\ r = store.registrar
    BY <1>1, Unmarked
  <2>2. QED
    BY <1>4, <1>6, <1>7, <2>1 DEF IInv, RegistryOfRegistrar
<1>18. MemberInv'
  BY <1>1, <1>6, <1>9, MemberStable DEF Has
<1>19. ListInv'
  <2>1. \A v \in Listed' : Has(store', <<"withdrawal", v>>)
    BY <1>6, <1>7 DEF IInv, ListInv, Has
  <2>2. SUFFICES ASSUME since' = {}
                 PROVE  /\ ~ListUnderWay' => On(store.registrar) \subseteq Listed' \cup Unfinished'
                        /\ \A v \in Listed' \ GivenUp' :
                             store'.accounts[<<"withdrawal", v>>] = withdrawals[v].status
    BY <1>1, <1>6, <2>1 DEF ListInv, On
  <2>3. /\ since = {} /\ r = store.registrar /\ ~call[c].dirty
        /\ store.pendingWithdrawals # None \/ ListUnderWay
    BY <1>1, <2>2, Unmarked
  <2>4. ASSUME ~ListUnderWay'
        PROVE  On(store.registrar) \subseteq Listed' \cup Unfinished'
    <3>1. ~ListUnderWay
      BY <1>1, <1>6, <1>9, <2>4, ListStaysUnderWay
    <3>2. On(store.registrar) \subseteq Listed \cup Unfinished
      BY <2>3, <3>1 DEF IInv, ListInv
    <3>3. Unfinished \subseteq Unfinished' \cup {w}
      BY <1>9, FrameUnfinished DEF IInv
    <3>4. QED
      BY <1>7, <3>2, <3>3
  <2>5. ASSUME NEW v \in Listed' \ GivenUp'
        PROVE  store'.accounts[<<"withdrawal", v>>] = withdrawals[v].status
    <3>1. v \notin GivenUp
      BY <1>9, FrameGivenUp DEF IInv
    <3>2. CASE v = w
      BY <1>4, <1>6, <2>3, <3>1, <3>2
    <3>3. CASE v # w
      <4>1. v \in Listed /\ <<"withdrawal", v>> \in DOMAIN store.accounts
        BY <1>7, <3>3 DEF IInv, ListInv, Has
      <4>2. store.accounts[<<"withdrawal", v>>] = withdrawals[v].status
        BY <2>3, <3>1, <4>1 DEF IInv, ListInv
      <4>3. QED
        BY <1>6, <3>3, <4>1, <4>2
    <3>4. QED
      BY <3>2, <3>3
  <2>6. QED
    BY <2>4, <2>5
<1>20. QED
  BY <1>10, <1>16, <1>17, <1>18, <1>19 DEF IInv

LEMMA ListAnsweredStep ==
  ASSUME IInv, NEW c \in Begun, ListAnswered(c)
  PROVE  IInv'
<1> PICK r : r = call[c].registrar
  OBVIOUS
<1> PICK f : f = call[c].seen
  OBVIOUS
<1> DEFINE x == [call[c] EXCEPT !.pc = "done"]
<1>1. /\ call[c].pc = "answered" /\ call[c].kind = "list"
      /\ store' = RegistrySetPendingWithdrawals(store, f)
      /\ call' = [call EXCEPT ![c] = x]
      /\ since' = since \cup Marks(c)
      /\ UNCHANGED <<watched, pending, members, withdrawals>>
  BY DEF ListAnswered, Is, Go, chain
<1>2. c \in Call /\ call[c] \in Made
  BY BegunIsMade DEF IInv
<1>3. CallInv(c) /\ AnswerInv(c)
  BY DEF IInv, CallsInv, AnswersInv
<1>4. /\ x \in Made /\ Const(call[c], x) /\ x.pc = "done" /\ x.kind = "list"
  BY <1>1, <1>2 DEF Made, Pc, Const
<1> HIDE DEF x
<1>5. PICK read \in SUBSET Withdrawal : f \in [read -> Status]
  BY <1>2 DEF Made, Answer
<1> DEFINE t == RegistrySetPendingWithdrawals(store, f)
<1> store' = t /\ IsState(store)
  BY <1>1 DEF IInv, TypeOK
<1>a. /\ Grows(store, t)
      /\ t.registrar = store.registrar
      /\ t.member = store.member
      /\ t.pendingWithdrawals = read
      /\ DOMAIN t.accounts = ({"withdrawal"} \X read) \cup DOMAIN store.accounts
      /\ \A w \in read : t.accounts[<<"withdrawal", w>>] = f[w]
  BY ONLY <1>5, IsState(store), SetPendingIs
<1> HIDE DEF t
<1>6. /\ Grows(store, store')
      /\ store'.registrar = store.registrar
      /\ store'.member = store.member
      /\ store'.pendingWithdrawals = read
      /\ DOMAIN store'.accounts = ({"withdrawal"} \X read) \cup DOMAIN store.accounts
      /\ \A w \in read : store'.accounts[<<"withdrawal", w>>] = f[w]
  BY <1>a
<1>7. Listed' = read
  BY <1>6, RegistryAssumption DEF Listed
<1>8. /\ Frame(c) /\ Quiet
      /\ call' \in [Call -> Made \cup {Idle}] /\ call'[c] = x
  BY <1>1, <1>4, <1>6, MovedFrame DEF IInv, Grows
<1>9. TypeOK'
  BY <1>1, <1>6, <1>8, MarksType DEF IInv, TypeOK, Grows
<1>10. CallInv(c)'
  <2>1. c \notin pending'
    BY <1>1, <1>3 DEF CallInv
  <2>2. DOMAIN store.accounts \subseteq DOMAIN store'.accounts
    BY <1>6
  <2>3. QED
    BY <1>3, <1>4, <1>8, <2>1, <2>2 DEF CallInv, Const, Has
<1>11. RedeemInv(c)' /\ AnswerInv(c)'
  BY <1>4, <1>8 DEF RedeemInv, AnswerInv
<1>12. CallsInv' /\ AnswersInv'
  BY <1>8, <1>10, <1>11, CallsStable, AnswersStable
<1>13. /\ \A q : On(q)' = On(q)
       /\ read \subseteq On(r)
  BY <1>1, <1>3, <1>5 DEF AnswerInv, On
<1>14. RegistryOfRegistrar'
  <2> SUFFICES ASSUME "crossed" \notin since'
               PROVE  /\ store'.member \in {None, store'.registrar}
                      /\ Listed' \subseteq On(store.registrar)
    BY <1>6, <1>13 DEF RegistryOfRegistrar, On
  <2>1. "crossed" \notin since /\ r = store.registrar
    BY <1>1, Unmarked
  <2>2. QED
    BY <1>6, <1>7, <1>13, <2>1 DEF IInv, RegistryOfRegistrar
<1>15. MemberInv'
  BY <1>1, <1>6, <1>8, MemberStable DEF Has
<1>16. ListInv'
  <2>1. \A v \in Listed' : Has(store', <<"withdrawal", v>>)
    BY <1>6, <1>7 DEF Has
  <2>2. SUFFICES ASSUME since' = {}
                 PROVE  /\ On(store.registrar) \subseteq Listed' \cup Unfinished'
                        /\ \A v \in Listed' \ GivenUp' :
                             store'.accounts[<<"withdrawal", v>>] = withdrawals[v].status
    BY <1>1, <1>6, <2>1 DEF ListInv, On
  <2>3. r = store.registrar /\ ~call[c].dirty
    BY <1>1, <2>2, Unmarked
  <2>4. /\ On(r) \subseteq read \cup Unfinished
        /\ \A v \in read \ GivenUp : f[v] = withdrawals[v].status
    BY <1>1, <1>3, <1>5, <2>3 DEF AnswerInv
  <2>5. GivenUp \subseteq GivenUp' /\ Unfinished \subseteq Unfinished'
    BY <1>8, FrameGivenUp DEF IInv, Quiet
  <2>6. QED
    BY <1>6, <1>7, <2>3, <2>4, <2>5
<1>17. QED
  BY <1>9, <1>12, <1>14, <1>15, <1>16 DEF IInv

\* A step of createStakeAccount or of a change of registrar, of which member and
\* list are to be shown.
LEMMA MemberStep ==
  ASSUME IInv, NEW c \in Begun, NEW pc \in {"vaults", "done"}, Go(c, pc),
         call[c].kind \in {"create", "switch"},
         call[c].pc \in {"asked", "vaults", "switching"},
         Grows(store, store'),
         watched' \subseteq Registrar,
         since' \subseteq {"crossed", "outdated", "listLost"},
         UNCHANGED <<pending, members, withdrawals>>,
         pc = "vaults" => Has(store', <<"member", call[c].registrar>>)
  PROVE  /\ TypeOK' /\ CallsInv' /\ AnswersInv' /\ Frame(c) /\ Quiet
         /\ call'[c].pc = pc
         /\ Const(call[c], call'[c])
<1> DEFINE x == [call[c] EXCEPT !.pc = pc]
<1>1. call' = [call EXCEPT ![c] = x]
  BY DEF Go
<1>2. c \in Call /\ call[c] \in Made
  BY BegunIsMade DEF IInv
<1>3. x \in Made /\ Const(call[c], x) /\ x.pc = pc
  BY <1>2 DEF Made, Pc, Const
<1> HIDE DEF x
<1>4. /\ Frame(c) /\ Quiet
      /\ call' \in [Call -> Made \cup {Idle}] /\ call'[c] = x
  <2>1. x.pc # "done" \/ x.kind # "redeem"
    BY <1>3 DEF Const
  <2>2. QED
    BY <1>1, <1>3, <2>1, MovedFrame DEF IInv, Grows
<1>5. TypeOK'
  BY <1>4 DEF IInv, TypeOK, Grows
<1>6. CallInv(c) /\ c \notin pending'
  BY DEF IInv, CallsInv, CallInv
<1>7. CallInv(c)'
  <2>1. DOMAIN store.accounts \subseteq DOMAIN store'.accounts
    BY DEF Grows
  <2>2. QED
    BY <1>3, <1>4, <1>6, <2>1 DEF CallInv, Const, Has
<1>8. RedeemInv(c)' /\ AnswerInv(c)'
  BY <1>3, <1>4 DEF RedeemInv, AnswerInv, Const
<1>9. CallsInv' /\ AnswersInv'
  BY <1>4, <1>7, <1>8, CallsStable, AnswersStable
<1>10. QED
  BY <1>3, <1>4, <1>5, <1>9

\* The list stays as it is, if an account that is no withdrawal is added.
LEMMA ListKept ==
  ASSUME IInv, NEW c, Frame(c), Quiet, call[c].kind # "list",
         store'.registrar = store.registrar,
         store'.pendingWithdrawals = store.pendingWithdrawals,
         since \subseteq since', withdrawals' = withdrawals,
         \A w \in Withdrawal : <<"withdrawal", w>> \in DOMAIN store.accounts =>
           store'.accounts[<<"withdrawal", w>>] = store.accounts[<<"withdrawal", w>>]
  PROVE  ListInv'
<1>1. Unfinished \subseteq Unfinished'
  BY DEF Quiet
<1>2. \A w \in Listed : <<"withdrawal", w>> \in DOMAIN store.accounts
  BY DEF IInv, ListInv, Has
<1>3. \A w \in On(store.registrar) \cap Listed :
        /\ store'.accounts[<<"withdrawal", w>>] = store.accounts[<<"withdrawal", w>>]
        /\ withdrawals'[w].status = withdrawals[w].status
  BY <1>2 DEF On
<1>4. QED
  BY <1>1, <1>3, ListStable

LEMMA MemberFetchedStep ==
  ASSUME IInv, NEW c \in Begun, MemberFetched(c)
  PROVE  IInv'
<1> PICK r : r = call[c].registrar
  OBVIOUS
<1> DEFINE key == <<"member", r>>
<1>1. /\ call[c].pc = "asked" /\ call[c].kind = "create"
      /\ store' = AccountAdd(store, Entry(key, "fresh"))
      /\ Go(c, "vaults")
      /\ UNCHANGED <<watched, pending, members, withdrawals, since>>
  BY DEF MemberFetched, Is, chain
<1>2. c \in Call /\ r \in Registrar
  BY BegunIsMade DEF IInv, Made
<1>3. /\ Grows(store, store')
      /\ store'.registrar = store.registrar
      /\ store'.member = store.member
      /\ store'.pendingWithdrawals = store.pendingWithdrawals
      /\ DOMAIN store'.accounts = {key} \cup DOMAIN store.accounts
      /\ \A k \in DOMAIN store.accounts \ {key} : store'.accounts[k] = store.accounts[k]
  <2>1. key \in Key /\ "fresh" \in Status
    BY <1>2 DEF Key, Status
  <2>2. QED
    BY <1>1, <2>1, EntryAddIs DEF IInv, TypeOK
<1>4. /\ TypeOK' /\ CallsInv' /\ AnswersInv' /\ Frame(c) /\ Quiet
      /\ call'[c].pc = "vaults"
      /\ Const(call[c], call'[c])
  <2>1. Has(store', <<"member", call[c].registrar>>)
    BY <1>3 DEF Has
  <2>2. QED
    BY <1>1, <1>3, <2>1, MemberStep DEF IInv, TypeOK
<1>5. RegistryOfRegistrar'
  BY <1>1, <1>3, <1>4, RegistrarStable
<1>6. MemberInv'
  <2>1. ASSUME NEW q \in Registrar, Has(store', <<"member", q>>)
        PROVE  Has(store', <<"vaults", q>>) \/ VaultsOnTheWay(q)'
    <3>1. CASE q = r
      BY <1>1, <1>2, <1>4, <3>1 DEF VaultsOnTheWay, Is, Const
    <3>2. CASE q # r
      <4>1. Has(store, <<"member", q>>)
        BY <1>3, <2>1, <3>2 DEF Has
      <4>2. Has(store, <<"vaults", q>>) \/ VaultsOnTheWay(q)
        BY <4>1 DEF IInv, MemberInv
      <4>3. VaultsOnTheWay(q) => VaultsOnTheWay(q)'
        BY <1>1, <1>4, VaultsStayOnTheWay
      <4>4. QED
        BY <1>3, <4>2, <4>3 DEF Has
    <3>3. QED
      BY <3>1, <3>2
  <2>2. QED
    BY <1>1, <1>3, <2>1 DEF IInv, MemberInv, Has
<1>7. ListInv'
  BY <1>1, <1>3, <1>4, ListKept
<1>8. QED
  BY <1>4, <1>5, <1>6, <1>7 DEF IInv

LEMMA VaultsFetchedStep ==
  ASSUME IInv, NEW c \in Begun, VaultsFetched(c)
  PROVE  IInv'
<1> PICK r : r = call[c].registrar
  OBVIOUS
<1> DEFINE key == <<"vaults", r>>
           s == AccountAdd(store, Entry(key, "fresh"))
<1>1. /\ call[c].pc = "vaults" /\ call[c].kind = "create"
      /\ store' = RegistrySetMember(s, r)
      /\ Go(c, "done")
      /\ watched' = watched \cup {r}
      /\ since' = since \cup Marks(c)
      /\ UNCHANGED <<pending, members, withdrawals>>
  BY DEF VaultsFetched, Is, chain
<1>2. c \in Call /\ r \in Registrar
  BY BegunIsMade DEF IInv, Made
<1>3. /\ Grows(store, s)
      /\ s.registrar = store.registrar
      /\ s.pendingWithdrawals = store.pendingWithdrawals
      /\ DOMAIN s.accounts = {key} \cup DOMAIN store.accounts
      /\ \A k \in DOMAIN store.accounts \ {key} : s.accounts[k] = store.accounts[k]
  <2>1. key \in Key /\ "fresh" \in Status
    BY <1>2 DEF Key, Status
  <2>2. QED
    BY <2>1, EntryAddIs DEF IInv, TypeOK
<1> HIDE DEF s
<1>4. /\ Grows(s, store')
      /\ store'.registrar = s.registrar
      /\ store'.member = r
      /\ store'.pendingWithdrawals = s.pendingWithdrawals
      /\ store'.accounts = s.accounts
  BY <1>1, <1>2, <1>3, SetMemberIs DEF Grows
<1>5. Grows(store, store')
  BY <1>3, <1>4 DEF Grows
<1>6. /\ since' \subseteq {"crossed", "outdated", "listLost"}
      /\ since \subseteq since'
      /\ watched' \subseteq Registrar
  BY <1>1, <1>2, MarksType, Unmarked DEF IInv, TypeOK
<1>7. /\ TypeOK' /\ CallsInv' /\ AnswersInv' /\ Frame(c) /\ Quiet
  BY <1>1, <1>5, <1>6, MemberStep
<1>8. RegistryOfRegistrar'
  <2> SUFFICES ASSUME "crossed" \notin since'
               PROVE  /\ r \in {None, store.registrar}
                      /\ Listed \subseteq On(store.registrar)
    BY <1>1, <1>3, <1>4 DEF RegistryOfRegistrar, On, Listed
  <2>1. "crossed" \notin since /\ r = store.registrar
    BY <1>1, Unmarked
  <2>2. QED
    BY <2>1 DEF IInv, RegistryOfRegistrar
<1>9. MemberInv'
  <2>1. Has(store, <<"member", r>>)
    BY <1>1 DEF IInv, CallsInv, CallInv
  <2>2. ASSUME NEW q \in Registrar, Has(store', <<"member", q>>)
        PROVE  Has(store', <<"vaults", q>>) \/ VaultsOnTheWay(q)'
    <3>1. CASE q = r
      BY <1>3, <1>4, <3>1 DEF Has
    <3>2. CASE q # r
      <4>1. Has(store, <<"member", q>>)
        BY <1>3, <1>4, <2>2 DEF Has
      <4>2. Has(store, <<"vaults", q>>) \/ VaultsOnTheWay(q)
        BY <4>1 DEF IInv, MemberInv
      <4>3. VaultsOnTheWay(q) => VaultsOnTheWay(q)'
        BY <1>7, <3>2, VaultsStayOnTheWay
      <4>4. QED
        BY <1>3, <1>4, <4>2, <4>3 DEF Has
    <3>3. QED
      BY <3>1, <3>2
  <2>3. QED
    BY <1>1, <1>3, <1>4, <2>1, <2>2 DEF MemberInv, Has
<1>10. ListInv'
  BY <1>1, <1>3, <1>4, <1>6, <1>7, ListKept
<1>11. QED
  BY <1>7, <1>8, <1>9, <1>10 DEF IInv

LEMMA SwitchEndsStep ==
  ASSUME IInv, NEW c \in Begun, SwitchEnds(c)
  PROVE  IInv'
<1> PICK r : r = call[c].target
  OBVIOUS
<1> PICK m : m = IF call[c].found THEN r ELSE None
  OBVIOUS
<1>1. /\ call[c].pc = "switching" /\ call[c].kind = "switch"
      /\ store' = RegistrySetRegistrar(store, r, m)
      /\ watched' = IF call[c].found THEN watched \cup {r} ELSE watched
      /\ Go(c, "done")
      /\ since' = {}
      /\ UNCHANGED <<pending, members, withdrawals>>
  BY DEF SwitchEnds, Is, chain
<1>2. c \in Call /\ r \in Registrar
  BY BegunIsMade DEF IInv, Made
<1>3. /\ Grows(store, store')
      /\ store'.registrar = r
      /\ store'.member = m
      /\ store'.pendingWithdrawals = None
      /\ store'.accounts = store.accounts
  BY <1>1, <1>2, SetRegistrarIs DEF IInv, TypeOK
<1>4. watched' \subseteq Registrar /\ watched \subseteq watched'
  BY <1>1, <1>2 DEF IInv, TypeOK
<1>5. /\ TypeOK' /\ CallsInv' /\ AnswersInv' /\ Frame(c)
  BY <1>1, <1>3, <1>4, MemberStep
<1>6. Listed' = {}
  BY <1>3 DEF Listed
<1>7. RegistryOfRegistrar'
  BY <1>3, <1>6 DEF RegistryOfRegistrar
<1>8. MemberInv'
  <2>1. m # None => m = r /\ m \in watched' /\ Has(store, <<"member", r>>)
    BY <1>1 DEF IInv, CallsInv, CallInv
  <2>2. \A q \in Registrar : VaultsOnTheWay(q) => VaultsOnTheWay(q)'
    BY <1>1, <1>5, VaultsStayOnTheWay
  <2>3. QED
    BY <1>3, <2>1, <2>2 DEF IInv, MemberInv, Has
<1>9. ListInv'
  BY <1>3, <1>6 DEF ListInv
<1>10. QED
  BY <1>5, <1>7, <1>8, <1>9 DEF IInv

-----------------------------------------------------------------------------
(* The theorems.                                                           *)

LEMMA ContinuedHasBegun ==
  ASSUME IInv, NEW c \in Call, Continue(c)
  PROVE  c \in Begun
<1>1. call[c].pc \in Pc
  BY DEF Continue, SendTransaction, NodeReads, WithdrawalFetched, ListAnswered,
         MemberFetched, VaultsFetched, SwitchEnds, RequestFails, Is, Pc
<1>2. QED
  BY <1>1 DEF Begun, Idle, Pc

LEMMA NextInv == IInv /\ [Next]_vars => IInv'
<1> SUFFICES ASSUME IInv, [Next]_vars PROVE IInv'
  OBVIOUS
<1>1. ASSUME NEW c \in Call, Click(c)
      PROVE  IInv'
  BY <1>1, ClickStep
<1>2. ASSUME NEW c \in Call, Continue(c)
      PROVE  IInv'
  <2>1. c \in Begun
    BY <1>2, ContinuedHasBegun
  <2>2. QED
    BY <1>2, <2>1, SendTransactionStep, NodeReadsStep, WithdrawalFetchedStep,
       ListAnsweredStep, MemberFetchedStep, VaultsFetchedStep, SwitchEndsStep,
       RequestFailsStep DEF Continue
<1>3. ASSUME NEW c \in Call, Transaction(c)
      PROVE  IInv'
  BY <1>3, TransactionLandsStep, TransactionErrsStep, TransactionExpiresStep
     DEF Transaction
<1>4. CASE UNCHANGED vars
  BY <1>4 DEF vars, IInv, TypeOK, CallsInv, CallInv, RedeemInv, AnswersInv, AnswerInv,
     RegistryOfRegistrar, MemberInv, ListInv, VaultsOnTheWay, Is, On, Listed, Has,
     ListUnderWay, Unfinished, GivenUp, CallsOf, Begun
<1>5. QED
  BY <1>1, <1>2, <1>3, <1>4 DEF Next

\* The invariant holds, for any registrars, withdrawals and calls.
THEOREM Invariance == Spec => []IInv
BY InitInv, NextInv, PTL DEF Spec

\* Member and pending withdrawals are those of the selected registrar, unless a
\* call begun under another one has dispatched (Stake.tsx:407, :616): whatever
\* calls overlap, and whatever transactions land late.
THEOREM RegistryStaysTheRegistrars == Spec => []RegistryOfRegistrar
<1>1. IInv => RegistryOfRegistrar
  BY DEF IInv
<1>2. QED
  BY <1>1, Invariance, PTL

\* A selected member is subscribed to and in the store, with its vaults, or they
\* are on their way or their request has failed (MyNode.tsx:157, Me.tsx:32).
THEOREM SelectedMemberIsReady == Spec => []MemberIsReady
<1>1. IInv => MemberIsReady
  <2> SUFFICES ASSUME IInv, store.member # None
               PROVE  /\ store.member \in watched
                      /\ Has(store, <<"member", store.member>>)
                      /\ \/ Has(store, <<"vaults", store.member>>)
                         \/ VaultsOnTheWay(store.member)
    BY DEF MemberIsReady, VaultsOnTheWay
  <2>1. store.member \in Registrar
    BY DEF IInv, TypeOK, IsState
  <2>2. QED
    BY <2>1 DEF IInv, MemberInv
<1>2. QED
  BY <1>1, Invariance, PTL

\* A settled list shows every pending withdrawal of the registrar that is there,
\* and shows it as it is, except those of unstakings and completions whose calls
\* did not end (Stake.tsx:409).
THEOREM SettledListIsTrue == Spec => []ListIsTrue
<1>1. IInv => ListIsTrue
  <2> SUFFICES ASSUME IInv, ListIsSettled
               PROVE  /\ On(store.registrar) \ Unfinished \subseteq Listed
                      /\ \A w \in Listed \ GivenUp :
                           store.accounts[<<"withdrawal", w>>] = withdrawals[w].status
    BY DEF ListIsTrue, Unfinished, GivenUp, CallsOf, Begun
  <2>1. ~ListUnderWay
    BY DEF ListIsSettled, ListUnderWay
  <2>2. QED
    BY <2>1 DEF IInv, ListInv, ListIsSettled
<1>2. QED
  BY <1>1, Invariance, PTL
=============================================================================
