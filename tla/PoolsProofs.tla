---------------------------- MODULE PoolsProofs ----------------------------
(***************************************************************************)
(* Proofs about Pools, for any pools, requests, durations, tolerances,     *)
(* numbers of calls and bounds.                                            *)
(*                                                                         *)
(* First the transactions.  Each is made of parts, which come with the     *)
(* steps that undo them; what a part makes and is granted (Builds) adds up *)
(* when parts are joined, and a whole of such parts is in order and leaves *)
(* nothing behind.  Then the inductive invariant, which relates each call  *)
(* and each entry of the cache to the chain's past, the bound that a       *)
(* deposit's tolerance sets, and the refinement of BoundedStaleness.       *)
(***************************************************************************)
EXTENDS Pools, TLAPS

-----------------------------------------------------------------------------
(* What a part of a transaction does.                                      *)

\* The steps of a sequence with an operation, and their accounts.
Of(s, op) == {s[i] : i \in {j \in DOMAIN s : s[j].op = op}}
On(s, op) == {step.account : step \in Of(s, op)}

Place == (Call \cup {User}) \X {"A", "B", "LP"}

Step ==
  [op : {"create", "close", "revoke"}, account : Place]
    \cup [op : {"approve"}, account : Place, to : Call \cup {Authority}, amount : Nat]

\* Steps that create or approve each account once, and approve none before it is
\* there.
Orderly(s, there) ==
  /\ \A i \in DOMAIN s : s[i].op \in {"create", "approve"}
  /\ \A i, j \in DOMAIN s :
       s[i].op = s[j].op /\ s[i].account = s[j].account => i = j
  /\ \A i \in DOMAIN s : s[i].op = "approve" =>
       \/ s[i].account \in there
       \/ \E j \in 1 .. i - 1 : s[j].op = "create" /\ s[j].account = s[i].account

\* Steps that close or revoke, and close no account but those made.
Closing(s, there, made) ==
  /\ \A i \in DOMAIN s : s[i].op \in {"close", "revoke"}
  /\ On(s, "revoke") \subseteq there \cup made
  /\ On(s, "close") \subseteq made

\* A part of a transaction of the call c that makes the accounts made, takes the
\* approvals granted, and has what undoes it.
Builds(p, c, there, made, granted) ==
  /\ p.do \in Seq(Step) /\ p.undo \in Seq(Step)
  /\ Orderly(p.do, there) /\ Closing(p.undo, there, made)
  /\ On(p.do, "create") = made /\ Of(p.do, "approve") = granted
  /\ made \subseteq p.signers \cap ({c} \X {"A", "B", "LP"})
  /\ made \subseteq {<<c, "LP">>} \cup On(p.undo, "close")
  /\ On(p.do, "approve") \subseteq On(p.undo, "revoke")

Accts(granted) == {step.account : step \in granted}

LEMMA JoinParts ==
  ASSUME NEW p, NEW q
  PROVE  /\ (p (+) q).do = p.do \o q.do
         /\ (p (+) q).undo = p.undo \o q.undo
         /\ (p (+) q).signers = p.signers \cup q.signers
  BY DEF (+), Part

LEMMA Concat ==
  ASSUME NEW S, NEW s \in Seq(S), NEW t \in Seq(S)
  PROVE  /\ s \o t \in Seq(S)
         /\ DOMAIN (s \o t) = 1 .. Len(s) + Len(t)
         /\ DOMAIN s = 1 .. Len(s) /\ DOMAIN t = 1 .. Len(t)
         /\ Len(s) \in Nat /\ Len(t) \in Nat
         /\ \A i \in 1 .. Len(s) : (s \o t)[i] = s[i]
         /\ \A i \in 1 .. Len(t) : (s \o t)[Len(s) + i] = t[i]
         /\ \A i \in 1 .. Len(s) + Len(t) :
              \/ i \in 1 .. Len(s)
              \/ i - Len(s) \in 1 .. Len(t) /\ (s \o t)[i] = t[i - Len(s)]
  OBVIOUS

LEMMA OfConcat ==
  ASSUME NEW S, NEW s \in Seq(S), NEW t \in Seq(S), NEW op
  PROVE  /\ Of(s \o t, op) = Of(s, op) \cup Of(t, op)
         /\ On(s \o t, op) = On(s, op) \cup On(t, op)
<1>. DEFINE u == s \o t
<1>1. Of(u, op) \subseteq Of(s, op) \cup Of(t, op)
  <2>. SUFFICES ASSUME NEW i \in DOMAIN u, u[i].op = op
                PROVE  u[i] \in Of(s, op) \cup Of(t, op)
    BY DEF Of
  <2>1. CASE i \in DOMAIN s /\ u[i] = s[i]
    BY <2>1 DEF Of
  <2>2. CASE i - Len(s) \in DOMAIN t /\ u[i] = t[i - Len(s)]
    BY <2>2 DEF Of
  <2>. QED
    BY <2>1, <2>2, Concat
<1>2. Of(s, op) \subseteq Of(u, op)
  <2>. SUFFICES ASSUME NEW i \in DOMAIN s, s[i].op = op
                PROVE  s[i] \in Of(u, op)
    BY DEF Of
  <2>1. i \in DOMAIN u /\ u[i] = s[i]
    BY Concat
  <2>. QED
    BY <2>1 DEF Of
<1>3. Of(t, op) \subseteq Of(u, op)
  <2>. SUFFICES ASSUME NEW i \in DOMAIN t, t[i].op = op
                PROVE  t[i] \in Of(u, op)
    BY DEF Of
  <2>1. Len(s) + i \in DOMAIN u /\ u[Len(s) + i] = t[i]
    BY Concat
  <2>. QED
    BY <2>1 DEF Of
<1>. HIDE DEF u
<1>4. Of(u, op) = Of(s, op) \cup Of(t, op)
  BY <1>1, <1>2, <1>3
<1>5. On(u, op) = On(s, op) \cup On(t, op)
  BY <1>4 DEF On
<1>. QED
  BY <1>4, <1>5 DEF u

LEMMA OfConcat3 ==
  ASSUME NEW S, NEW s \in Seq(S), NEW t \in Seq(S), NEW u \in Seq(S), NEW op
  PROVE  /\ Of(s \o t \o u, op) = Of(s, op) \cup Of(t, op) \cup Of(u, op)
         /\ On(s \o t \o u, op) = On(s, op) \cup On(t, op) \cup On(u, op)
<1>. DEFINE st == s \o t
<1>1. /\ st \in Seq(S)
      /\ Of(st, op) = Of(s, op) \cup Of(t, op) /\ On(st, op) = On(s, op) \cup On(t, op)
  BY OfConcat
<1>. HIDE DEF st
<1>2. /\ Of(st \o u, op) = Of(st, op) \cup Of(u, op)
      /\ On(st \o u, op) = On(st, op) \cup On(u, op)
  BY <1>1, OfConcat
<1>3. /\ Of(st \o u, op) = Of(s, op) \cup Of(t, op) \cup Of(u, op)
      /\ On(st \o u, op) = On(s, op) \cup On(t, op) \cup On(u, op)
  BY <1>1, <1>2
<1>. QED
  BY <1>3 DEF st

LEMMA OrderlyConcat ==
  ASSUME NEW s \in Seq(Step), NEW t \in Seq(Step), NEW there,
         Orderly(s, there), Orderly(t, there \cup On(s, "create")),
         On(s, "create") \cap On(t, "create") = {},
         On(s, "approve") \cap On(t, "approve") = {}
  PROVE  Orderly(s \o t, there)
<1>. DEFINE u == s \o t
<1>1. ASSUME NEW i \in DOMAIN u
      PROVE  \/ i \in DOMAIN s /\ u[i] = s[i]
             \/ i - Len(s) \in DOMAIN t /\ u[i] = t[i - Len(s)] /\ i > Len(s)
  BY Concat
<1>2. /\ DOMAIN s = 1 .. Len(s) /\ DOMAIN t = 1 .. Len(t)
      /\ Len(s) \in Nat /\ Len(t) \in Nat /\ DOMAIN u = 1 .. Len(s) + Len(t)
      /\ \A i \in 1 .. Len(s) : u[i] = s[i]
      /\ \A i \in 1 .. Len(t) : u[Len(s) + i] = t[i]
  BY Concat
<1>. HIDE DEF u
<1>3. \A i \in DOMAIN u : u[i].op \in {"create", "approve"}
  BY <1>1 DEF Orderly
<1>4. ASSUME NEW i \in DOMAIN u, NEW j \in DOMAIN u,
             u[i].op = u[j].op, u[i].account = u[j].account
      PROVE  i = j
  <2>1. ASSUME NEW k \in DOMAIN s, NEW l \in DOMAIN t
        PROVE  ~(s[k].op = t[l].op /\ s[k].account = t[l].account)
    <3>1. s[k].op \in {"create", "approve"}
      BY DEF Orderly
    <3>2. s[k] \in Of(s, s[k].op) /\ t[l] \in Of(t, t[l].op)
      BY DEF Of
    <3>3. s[k].account \in On(s, s[k].op) /\ t[l].account \in On(t, t[l].op)
      BY <3>2 DEF On
    <3>4. CASE s[k].op = "create"
      BY <3>3, <3>4
    <3>5. CASE s[k].op = "approve"
      BY <3>3, <3>5
    <3>. QED
      BY <3>1, <3>4, <3>5
  <2>2. CASE i \in DOMAIN s /\ u[i] = s[i]
    BY <1>1, <1>4, <2>1, <2>2 DEF Orderly
  <2>3. CASE i - Len(s) \in DOMAIN t /\ u[i] = t[i - Len(s)]
    <3>1. CASE j \in DOMAIN s /\ u[j] = s[j]
      BY <1>4, <2>1, <2>3, <3>1
    <3>2. CASE j - Len(s) \in DOMAIN t /\ u[j] = t[j - Len(s)]
      <4>1. i - Len(s) = j - Len(s)
        BY <1>4, <2>3, <3>2 DEF Orderly
      <4>. QED
        BY <1>2, <4>1
    <3>. QED
      BY <1>1, <3>1, <3>2
  <2>. QED
    BY <1>1, <2>2, <2>3
<1>5. ASSUME NEW i \in DOMAIN u, u[i].op = "approve", u[i].account \notin there
      PROVE  \E j \in 1 .. i - 1 :
               u[j].op = "create" /\ u[j].account = u[i].account
  <2>1. CASE i \in DOMAIN s /\ u[i] = s[i]
    <3>1. PICK j \in 1 .. i - 1 :
            s[j].op = "create" /\ s[j].account = s[i].account
      BY <1>5, <2>1 DEF Orderly
    <3>2. j \in 1 .. Len(s)
      BY <1>2, <2>1
    <3>. QED
      BY <1>2, <2>1, <3>1, <3>2
  <2>2. CASE /\ i - Len(s) \in DOMAIN t /\ u[i] = t[i - Len(s)] /\ i > Len(s)
             /\ u[i].account \in On(s, "create")
    <3>1. PICK j \in DOMAIN s : s[j].op = "create" /\ s[j].account = u[i].account
      BY <2>2 DEF On, Of
    <3>2. j \in 1 .. i - 1 /\ u[j] = s[j]
      BY <1>2, <2>2
    <3>. QED
      BY <3>1, <3>2
  <2>3. CASE /\ i - Len(s) \in DOMAIN t /\ u[i] = t[i - Len(s)]
             /\ u[i].account \notin On(s, "create")
    <3>1. PICK j \in 1 .. (i - Len(s)) - 1 :
            t[j].op = "create" /\ t[j].account = u[i].account
      BY <1>5, <2>3 DEF Orderly
    <3>2. j \in 1 .. Len(t) /\ Len(s) + j \in 1 .. i - 1
      BY <1>2, <2>3
    <3>3. u[Len(s) + j] = t[j]
      BY <1>2, <3>2
    <3>. QED
      BY <3>1, <3>2, <3>3
  <2>. QED
    BY <1>1, <2>1, <2>2, <2>3
<1>6. Orderly(u, there)
  BY <1>3, <1>4, <1>5 DEF Orderly
<1>. QED
  BY <1>6 DEF u

LEMMA ClosingConcat ==
  ASSUME NEW s \in Seq(Step), NEW t \in Seq(Step), NEW there, NEW m, NEW n,
         Closing(s, there, m), Closing(t, there \cup m, n)
  PROVE  Closing(s \o t, there, m \cup n)
<1>1. \A i \in DOMAIN (s \o t) : (s \o t)[i].op \in {"close", "revoke"}
  BY Concat DEF Closing
<1>. QED
  BY <1>1, OfConcat DEF Closing

\* Two parts, one after the other.
LEMMA BuildsJoin ==
  ASSUME NEW p, NEW q, NEW c, NEW there, NEW m, NEW n, NEW g, NEW h,
         Builds(p, c, there, m, g), Builds(q, c, there \cup m, n, h),
         m \cap n = {}, Accts(g) \cap Accts(h) = {}
  PROVE  Builds(p (+) q, c, there, m \cup n, g \cup h)
<1>. DEFINE r == p (+) q
<1>1. /\ r.do = p.do \o q.do /\ r.undo = p.undo \o q.undo
      /\ r.signers = p.signers \cup q.signers
  BY JoinParts
<1>. HIDE DEF r
<1>2. /\ p.do \in Seq(Step) /\ p.undo \in Seq(Step)
      /\ q.do \in Seq(Step) /\ q.undo \in Seq(Step)
  BY DEF Builds
<1>3. r.do \in Seq(Step) /\ r.undo \in Seq(Step)
  BY <1>1, <1>2, Concat
<1>4. \A op : /\ Of(r.do, op) = Of(p.do, op) \cup Of(q.do, op)
              /\ On(r.do, op) = On(p.do, op) \cup On(q.do, op)
              /\ On(r.undo, op) = On(p.undo, op) \cup On(q.undo, op)
  BY <1>1, <1>2, OfConcat
<1>5. /\ On(p.do, "create") = m /\ On(q.do, "create") = n
      /\ On(p.do, "approve") = Accts(g) /\ On(q.do, "approve") = Accts(h)
  BY DEF Builds, On, Accts
<1>6. Orderly(r.do, there)
  <2>1. Orderly(p.do, there) /\ Orderly(q.do, there \cup On(p.do, "create"))
    BY <1>5 DEF Builds
  <2>2. /\ On(p.do, "create") \cap On(q.do, "create") = {}
        /\ On(p.do, "approve") \cap On(q.do, "approve") = {}
    BY <1>5
  <2>3. Orderly(p.do \o q.do, there)
    BY <1>2, <2>1, <2>2, OrderlyConcat
  <2>. QED
    BY <1>1, <2>3
<1>7. Closing(r.undo, there, m \cup n)
  <2>1. Closing(p.undo, there, m) /\ Closing(q.undo, there \cup m, n)
    BY DEF Builds
  <2>2. Closing(p.undo \o q.undo, there, m \cup n)
    BY <1>2, <2>1, ClosingConcat
  <2>. QED
    BY <1>1, <2>2
<1>8. /\ On(r.do, "create") = m \cup n /\ Of(r.do, "approve") = g \cup h
      /\ On(r.do, "approve") \subseteq On(r.undo, "revoke")
  BY <1>4 DEF Builds
<1>9. /\ m \cup n \subseteq r.signers \cap ({c} \X {"A", "B", "LP"})
      /\ m \cup n \subseteq {<<c, "LP">>} \cup On(r.undo, "close")
  BY <1>1, <1>4 DEF Builds
<1>10. Builds(r, c, there, m \cup n, g \cup h)
  BY <1>3, <1>6, <1>7, <1>8, <1>9 DEF Builds
<1>. QED
  BY <1>10 DEF r

-----------------------------------------------------------------------------
(* The parts there are.                                                    *)

LEMMA SingleStep ==
  ASSUME NEW step, NEW op
  PROVE  /\ Of(<<>>, op) = {} /\ On(<<>>, op) = {}
         /\ Of(<<step>>, op) = IF step.op = op THEN {step} ELSE {}
         /\ On(<<step>>, op) = IF step.op = op THEN {step.account} ELSE {}
<1>1. Of(<<>>, op) = {} /\ On(<<>>, op) = {}
  BY DEF Of, On
<1>2. DOMAIN <<step>> = {1} /\ <<step>>[1] = step
  OBVIOUS
<1>3. Of(<<step>>, op) = IF step.op = op THEN {step} ELSE {}
  BY <1>2 DEF Of
<1>. QED
  BY <1>1, <1>3 DEF On

LEMMA BuildsNothing ==
  ASSUME NEW c, NEW there, NEW signers
  PROVE  Builds(Part(<<>>, <<>>, signers), c, there, {}, {})
<1>1. \A op : Of(<<>>, op) = {} /\ On(<<>>, op) = {}
  BY SingleStep
<1>2. <<>> \in Seq(Step) /\ DOMAIN <<>> = {}
  OBVIOUS
<1>. DEFINE p == Part(<<>>, <<>>, signers)
<1>3. p.do = <<>> /\ p.undo = <<>>
  BY DEF Part
<1>. HIDE DEF p
<1>4. Orderly(p.do, there) /\ Closing(p.undo, there, {})
  BY <1>1, <1>2, <1>3 DEF Orderly, Closing
<1>5. Builds(p, c, there, {}, {})
  BY <1>1, <1>2, <1>3, <1>4 DEF Builds
<1>. QED
  BY <1>5 DEF p

LEMMA BuildsCreate ==
  ASSUME NEW c \in Call, NEW k \in {"A", "B", "LP"}, NEW there,
         NEW isWrapped \in BOOLEAN, isWrapped \/ k = "LP"
  PROVE  Builds(CreateTokenAccount(<<c, k>>, isWrapped), c, there, {<<c, k>>}, {})
<1>. DEFINE p == CreateTokenAccount(<<c, k>>, isWrapped)
            create == [op |-> "create", account |-> <<c, k>>]
            close == [op |-> "close", account |-> <<c, k>>]
<1>1. /\ p.do = <<create>> /\ p.signers = {<<c, k>>}
      /\ p.undo = IF isWrapped THEN <<close>> ELSE <<>>
  BY DEF CreateTokenAccount, Part
<1>2. create \in Step /\ close \in Step
  BY DEF Step, Place
<1>3. p.do \in Seq(Step) /\ p.undo \in Seq(Step)
  <2>. HIDE DEF p, create, close
  <2>. QED
    BY <1>1, <1>2
<1>4. /\ create.op = "create" /\ create.account = <<c, k>>
      /\ close.op = "close" /\ close.account = <<c, k>>
  OBVIOUS
<1>. HIDE DEF p, create, close
<1>5. /\ On(p.do, "create") = {<<c, k>>} /\ Of(p.do, "approve") = {}
      /\ On(p.do, "approve") = {} /\ On(p.undo, "revoke") = {}
      /\ On(p.undo, "close") = IF isWrapped THEN {<<c, k>>} ELSE {}
  <2>1. \A op : /\ Of(<<create>>, op) = IF "create" = op THEN {create} ELSE {}
                /\ On(<<create>>, op) = IF "create" = op THEN {<<c, k>>} ELSE {}
                /\ On(<<close>>, op) = IF "close" = op THEN {<<c, k>>} ELSE {}
                /\ On(<<>>, op) = {}
    BY <1>4, SingleStep
  <2>. QED
    BY <1>1, <2>1
<1>6. Orderly(p.do, there)
  BY <1>1, <1>4 DEF Orderly
<1>7. Closing(p.undo, there, {<<c, k>>})
  BY <1>1, <1>4, <1>5 DEF Closing
<1>8. /\ {<<c, k>>} \subseteq p.signers \cap ({c} \X {"A", "B", "LP"})
      /\ {<<c, k>>} \subseteq {<<c, "LP">>} \cup On(p.undo, "close")
  BY <1>1, <1>5
<1>9. Builds(p, c, there, {<<c, k>>}, {})
  BY <1>3, <1>5, <1>6, <1>7, <1>8 DEF Builds
<1>. QED
  BY <1>9 DEF p

LEMMA BuildsApprove ==
  ASSUME NEW c, NEW there, NEW a \in Place \cap there,
         NEW d \in Call \cup {Authority}, NEW n \in Nat
  PROVE  Builds(ApproveTransfer(a, d, n), c, there, {},
                {[op |-> "approve", account |-> a, to |-> d, amount |-> n]})
<1>. DEFINE p == ApproveTransfer(a, d, n)
            approve == [op |-> "approve", account |-> a, to |-> d, amount |-> n]
            revoke == [op |-> "revoke", account |-> a]
<1>1. p.do = <<approve>> /\ p.signers = {} /\ p.undo = <<revoke>>
  BY DEF ApproveTransfer, Part
<1>2. approve \in Step /\ revoke \in Step
  BY DEF Step
<1>3. p.do \in Seq(Step) /\ p.undo \in Seq(Step)
  BY <1>1, <1>2
<1>4. /\ approve.op = "approve" /\ approve.account = a
      /\ revoke.op = "revoke" /\ revoke.account = a
  OBVIOUS
<1>. HIDE DEF p, approve, revoke
<1>5. /\ On(p.do, "create") = {} /\ Of(p.do, "approve") = {approve}
      /\ On(p.do, "approve") = {a} /\ On(p.undo, "revoke") = {a}
      /\ On(p.undo, "close") = {}
  <2>1. \A op :
          /\ Of(<<approve>>, op) = IF "approve" = op THEN {approve} ELSE {}
          /\ On(<<approve>>, op) = IF "approve" = op THEN {a} ELSE {}
          /\ On(<<revoke>>, op) = IF "revoke" = op THEN {a} ELSE {}
    BY <1>4, SingleStep
  <2>. QED
    BY <1>1, <2>1
<1>6. Orderly(p.do, there)
  BY <1>1, <1>4 DEF Orderly
<1>7. Closing(p.undo, there, {})
  BY <1>1, <1>4, <1>5 DEF Closing
<1>8. Builds(p, c, there, {}, {approve})
  BY <1>1, <1>3, <1>5, <1>6, <1>7 DEF Builds
<1>. QED
  BY <1>8 DEF p, approve

-----------------------------------------------------------------------------
(* Whole transactions.                                                     *)

\* The step that swaps, deposits or withdraws takes what was granted, as who it was
\* granted to, from accounts that are there.
Takes(step, granted, there, signers) ==
  /\ step.op = "swapProgram"
  /\ DOMAIN step.from \cup step.to \subseteq there
  /\ step.by \in signers \cup {Authority}
  /\ \A a \in DOMAIN step.from :
       \E g \in granted :
         g.account = a /\ g.to = step.by /\ g.amount = step.from[a] /\ g.amount \in Nat

\* A transaction of such parts leaves no approval and, of the accounts it makes,
\* none but one for pool tokens; and it is well-formed whatever other accounts there
\* are, if the step of the swap program takes what was granted.
LEMMA TransactionFacts ==
  ASSUME NEW p, NEW step, NEW c, NEW made, NEW granted, NEW had,
         Builds(p, c, UserAccounts, made, granted),
         step.op = "swapProgram", UserAccounts \subseteq had, made \cap had = {}
  PROVE  LET tx == Transaction(p, step)
         IN  /\ Takes(step, granted, UserAccounts \cup made, p.signers) =>
                  WellFormed(tx, had)
             /\ LeftApproved(tx) = {}
             /\ OpenAfter(tx, had) \subseteq had \cup {<<c, "LP">>}
             /\ had \subseteq OpenAfter(tx, had)
<1>. DEFINE tx == Transaction(p, step)
            s == tx.steps
            m == Len(p.do)
            n == Len(p.undo)
<1>1. s = p.do \o <<step>> \o p.undo /\ tx.signers = p.signers
  BY DEF Transaction
<1>2. /\ p.do \in Seq(Step) /\ p.undo \in Seq(Step)
      /\ Orderly(p.do, UserAccounts) /\ Closing(p.undo, UserAccounts, made)
      /\ On(p.do, "create") = made /\ Of(p.do, "approve") = granted
      /\ made \subseteq p.signers
      /\ made \subseteq {<<c, "LP">>} \cup On(p.undo, "close")
      /\ On(p.do, "approve") \subseteq On(p.undo, "revoke")
  BY DEF Builds
<1>3. /\ p.do \in Seq(Step \cup {step}) /\ p.undo \in Seq(Step \cup {step})
      /\ <<step>> \in Seq(Step \cup {step})
  BY <1>2
<1>4. p.do \o <<step>> \in Seq(Step \cup {step})
  BY <1>3, Concat
<1>5. /\ DOMAIN s = 1 .. m + 1 + n /\ Len(s) = m + 1 + n
      /\ m \in Nat /\ n \in Nat /\ DOMAIN p.do = 1 .. m /\ DOMAIN p.undo = 1 .. n
      /\ \A i \in 1 .. m : s[i] = p.do[i]
      /\ s[m + 1] = step
      /\ \A i \in 1 .. n : s[m + 1 + i] = p.undo[i]
  <2>. DEFINE T == Step \cup {step}
              front == p.do \o <<step>>
              undo == p.undo
              do == p.do
  <2>1. /\ s = front \o undo /\ front \in Seq(T) /\ undo \in Seq(T)
        /\ do \in Seq(T) /\ <<step>> \in Seq(T) /\ front = do \o <<step>>
        /\ m = Len(do) /\ n = Len(undo)
    BY <1>1, <1>3, <1>4
  <2>. HIDE DEF s, T, front, undo, do, m, n
  <2>2. /\ Len(front) = m + 1 /\ m \in Nat /\ DOMAIN do = 1 .. m
        /\ \A i \in 1 .. m : front[i] = do[i]
        /\ front[m + 1] = step
    BY <2>1
  <2>3. /\ Len(s) = m + 1 + n /\ n \in Nat /\ DOMAIN undo = 1 .. n
        /\ DOMAIN s = 1 .. m + 1 + n
        /\ \A i \in 1 .. m + 1 : s[i] = front[i]
        /\ \A i \in 1 .. n : s[m + 1 + i] = undo[i]
    BY <2>1, <2>2
  <2>. QED
    BY <2>2, <2>3 DEF do, undo
<1>6. \A op : /\ Of(s, op) = Of(p.do, op) \cup Of(<<step>>, op) \cup Of(p.undo, op)
              /\ On(s, op) = On(p.do, op) \cup On(<<step>>, op) \cup On(p.undo, op)
  <2>. DEFINE T == Step \cup {step}
              do == p.do
              undo == p.undo
              one == <<step>>
  <2>1. /\ s = do \o one \o undo
        /\ do \in Seq(T) /\ undo \in Seq(T) /\ one \in Seq(T)
    BY <1>1, <1>3
  <2>. HIDE DEF T, s, do, undo, one
  <2>2. ASSUME NEW op
        PROVE  /\ Of(s, op) = Of(do, op) \cup Of(one, op) \cup Of(undo, op)
               /\ On(s, op) = On(do, op) \cup On(one, op) \cup On(undo, op)
    BY <2>1, OfConcat3
  <2>. QED
    BY <2>2 DEF do, undo, one
<1>7. \A op : Accounts(tx, op) = On(s, op)
  BY DEF Accounts, On, Of
<1>8. tx.steps = s /\ tx.signers = p.signers
  BY <1>1
<1>. HIDE DEF tx, s, m, n
<1>9. ASSUME NEW i \in DOMAIN s
      PROVE  \/ i \in 1 .. m /\ s[i] = p.do[i] /\ s[i].op \in {"create", "approve"}
             \/ i = m + 1 /\ s[i] = step /\ s[i].op = "swapProgram"
             \/ /\ i \in m + 2 .. Len(s) /\ i - (m + 1) \in DOMAIN p.undo
                /\ s[i] = p.undo[i - (m + 1)]
                /\ s[i].op \in {"close", "revoke"}
  <2>1. CASE i \in 1 .. m
    BY <1>2, <1>5, <2>1 DEF Orderly
  <2>2. CASE i = m + 1
    BY <1>5, <2>2
  <2>3. CASE i \in m + 2 .. m + 1 + n
    <3>. DEFINE j == i - (m + 1)
    <3>1. j \in 1 .. n /\ i = m + 1 + j
      BY <1>5, <2>3
    <3>. HIDE DEF j
    <3>2. s[i] = p.undo[j] /\ j \in DOMAIN p.undo
      BY <1>5, <3>1
    <3>3. s[i].op \in {"close", "revoke"}
      BY <1>2, <3>2 DEF Closing
    <3>. QED
      BY <1>5, <2>3, <3>2, <3>3 DEF j
  <2>. QED
    BY <1>5, <2>1, <2>2, <2>3
<1>10. /\ On(s, "create") = made /\ On(s, "approve") = On(p.do, "approve")
       /\ On(s, "close") = On(p.undo, "close")
  <2>1. \A op : On(<<step>>, op) = IF step.op = op THEN {step.account} ELSE {}
    BY SingleStep
  <2>2. On(p.undo, "create") = {} /\ On(p.undo, "approve") = {}
    <3>1. Of(p.undo, "create") = {} /\ Of(p.undo, "approve") = {}
      BY <1>2 DEF Of, Closing
    <3>. QED
      BY <3>1 DEF On
  <2>3. On(p.do, "close") = {}
    BY <1>2 DEF On, Of, Orderly
  <2>. QED
    BY <1>2, <1>6, <2>1, <2>2, <2>3
<1>11. ASSUME NEW i \in 1 .. Len(s)
       PROVE  /\ UserAccounts \subseteq OpenAt(tx, i, had)
              /\ i > m => made \subseteq OpenAt(tx, i, had)
  <2>1. ASSUME i > m, NEW a \in made
        PROVE  a \in OpenAt(tx, i, had)
    <3>1. PICK j \in 1 .. m : p.do[j].op = "create" /\ p.do[j].account = a
      BY <1>2, <1>5 DEF On, Of
    <3>2. s[j].op = "create" /\ s[j].account = a /\ j \in 1 .. i - 1
      BY <1>5, <2>1, <3>1
    <3>. QED
      BY <1>8, <3>2 DEF OpenAt
  <2>. QED
    BY <2>1 DEF OpenAt
<1>12. ASSUME NEW i \in DOMAIN s, s[i].op = "create"
       PROVE  s[i].account \in tx.signers /\ s[i].account \notin OpenAt(tx, i, had)
  <2>1. i \in 1 .. m /\ s[i] = p.do[i]
    BY <1>9, <1>12
  <2>2. s[i].account \in made
    BY <1>2, <1>5, <1>12, <2>1 DEF On, Of
  <2>3. ASSUME NEW j \in 1 .. i - 1, s[j].op = "create"
        PROVE  s[j].account # s[i].account
    <3>1. j \in 1 .. m /\ s[j] = p.do[j] /\ j # i
      BY <1>5, <2>1
    <3>2. \A k, l \in 1 .. m :
            p.do[k].op = p.do[l].op /\ p.do[k].account = p.do[l].account => k = l
      BY <1>2, <1>5 DEF Orderly
    <3>. QED
      BY <1>12, <2>1, <2>3, <3>1, <3>2
  <2>4. s[i].account \notin OpenAt(tx, i, had)
    BY <1>8, <2>2, <2>3 DEF OpenAt
  <2>. QED
    BY <1>2, <1>8, <2>2, <2>4
<1>13. ASSUME NEW i \in DOMAIN s, s[i].op \in {"approve", "revoke", "close"}
       PROVE  s[i].account \in OpenAt(tx, i, had)
  <2>0. i \in 1 .. Len(s)
    BY <1>5
  <2>1. CASE s[i].op = "approve"
    <3>1. i \in 1 .. m /\ s[i] = p.do[i]
      BY <1>9, <2>1
    <3>2. CASE s[i].account \in UserAccounts
      BY <1>11, <2>0, <3>2
    <3>3. CASE \E j \in 1 .. i - 1 :
                 p.do[j].op = "create" /\ p.do[j].account = s[i].account
      <4>1. PICK j \in 1 .. i - 1 :
              p.do[j].op = "create" /\ p.do[j].account = s[i].account
        BY <3>3
      <4>2. s[j] = p.do[j]
        BY <1>5, <3>1
      <4>. QED
        BY <1>8, <4>1, <4>2 DEF OpenAt
    <3>. QED
      BY <1>2, <1>5, <2>1, <3>1, <3>2, <3>3 DEF Orderly
  <2>2. CASE s[i].op # "approve"
    <3>1. /\ i \in m + 2 .. Len(s) /\ i - (m + 1) \in DOMAIN p.undo
          /\ s[i] = p.undo[i - (m + 1)]
      BY <1>9, <1>13, <2>2
    <3>2. s[i] \in Of(p.undo, s[i].op)
      BY <3>1 DEF Of
    <3>3. s[i].account \in On(p.undo, s[i].op)
      BY <3>2 DEF On
    <3>4. s[i].account \in UserAccounts \cup made
      BY <1>2, <1>13, <2>2, <3>3 DEF Closing
    <3>5. i > m
      BY <1>5, <3>1
    <3>. QED
      BY <1>11, <2>0, <3>4, <3>5
  <2>. QED
    BY <2>1, <2>2
<1>14. ASSUME Takes(step, granted, UserAccounts \cup made, p.signers),
              NEW a \in DOMAIN step.from
       PROVE  Approved(tx, m + 1, a, step.by, step.from[a])
  <2>1. PICK g \in granted :
          /\ g.account = a /\ g.to = step.by
          /\ g.amount = step.from[a] /\ g.amount \in Nat
    BY <1>14 DEF Takes
  <2>2. PICK j \in 1 .. m : p.do[j] = g /\ g.op = "approve"
    BY <1>2, <1>5 DEF Of
  <2>3. s[j] = g /\ j \in 1 .. (m + 1) - 1 /\ step.from[a] \in Nat
    BY <1>5, <2>1, <2>2
  <2>4. ASSUME NEW k \in j + 1 .. (m + 1) - 1, s[k].op \in {"approve", "revoke"}
        PROVE  s[k].account # a
    <3>1. k \in 1 .. m /\ s[k] = p.do[k] /\ k # j
      BY <1>5
    <3>2. s[k].op = "approve"
      BY <1>2, <1>5, <2>4, <3>1 DEF Orderly
    <3>3. \A i, l \in 1 .. m :
            p.do[i].op = p.do[l].op /\ p.do[i].account = p.do[l].account => i = l
      BY <1>2, <1>5 DEF Orderly
    <3>. QED
      BY <2>1, <2>2, <3>1, <3>2, <3>3
  <2>5. s[j].amount >= step.from[a]
    BY <2>1, <2>3
  <2>. QED
    BY <1>8, <2>1, <2>2, <2>3, <2>4, <2>5 DEF Approved
<1>15. ASSUME Takes(step, granted, UserAccounts \cup made, p.signers),
              NEW i \in DOMAIN s, s[i].op = "swapProgram"
       PROVE  /\ DOMAIN s[i].from \cup s[i].to \subseteq OpenAt(tx, i, had)
              /\ s[i].by \in tx.signers \cup {Authority}
              /\ \A a \in DOMAIN s[i].from :
                   Approved(tx, i, a, s[i].by, s[i].from[a])
  <2>1. i = m + 1 /\ s[i] = step
    BY <1>9, <1>15
  <2>2. i \in 1 .. Len(s) /\ i > m
    BY <1>5, <2>1
  <2>. QED
    BY <1>8, <1>11, <1>14, <1>15, <2>1, <2>2 DEF Takes
<1>16. Takes(step, granted, UserAccounts \cup made, p.signers) => WellFormed(tx, had)
  BY <1>8, <1>12, <1>13, <1>15 DEF WellFormed
<1>17. LeftApproved(tx) = {}
  <2>. SUFFICES ASSUME NEW a \in LeftApproved(tx)
                PROVE  FALSE
    OBVIOUS
  <2>0. PICK i \in DOMAIN s :
          /\ s[i].op = "approve"
          /\ \A j \in i + 1 .. Len(s) :
               s[j].op = "revoke" => s[j].account # s[i].account
    BY <1>8 DEF LeftApproved
  <2>1. i \in 1 .. m /\ s[i].account \in On(s, "approve")
    BY <1>9, <2>0 DEF On, Of
  <2>2. PICK k \in 1 .. n : p.undo[k].op = "revoke" /\ p.undo[k].account = s[i].account
    <3>1. s[i].account \in On(p.undo, "revoke")
      BY <1>2, <1>10, <2>1
    <3>2. PICK revoke \in Of(p.undo, "revoke") : revoke.account = s[i].account
      BY <3>1 DEF On
    <3>. QED
      BY <1>5, <3>2 DEF Of
  <2>3. s[m + 1 + k] = p.undo[k] /\ m + 1 + k \in i + 1 .. Len(s)
    BY <1>5, <2>1
  <2>. QED
    BY <2>0, <2>2, <2>3
<1>18. /\ OpenAfter(tx, had) \subseteq had \cup {<<c, "LP">>}
       /\ had \subseteq OpenAfter(tx, had)
  BY <1>2, <1>7, <1>10 DEF OpenAfter, Closing
<1>. QED
  BY <1>16, <1>17, <1>18 DEF tx

-----------------------------------------------------------------------------
(* The parts of the transactions of Pool.                                  *)

\* The accounts made by Wrap and by NewPoolTokenAccount.
Wrapped(conf, c, k) == IF k = conf.wrapped THEN {<<c, k>>} ELSE {}
NewPool(c, r) == IF r.lp THEN {} ELSE {<<c, "LP">>}

\* What ApproveTransfer grants.
Grant(conf, c, a, n) ==
  [op |-> "approve", account |-> a, to |-> Delegate(conf, c), amount |-> n]

LEMMA BuildsWrap ==
  ASSUME NEW conf, NEW c \in Call, NEW k \in Side, NEW there
  PROVE  Builds(Wrap(conf, c, k), c, there, Wrapped(conf, c, k), {})
<1>1. CASE k = conf.wrapped
  BY <1>1, BuildsCreate DEF Wrap, Wrapped, Side
<1>2. CASE k # conf.wrapped
  BY <1>2, BuildsNothing DEF Wrap, Wrapped, Nothing
<1>. QED
  BY <1>1, <1>2

LEMMA BuildsPool ==
  ASSUME NEW c \in Call, NEW r, NEW there
  PROVE  Builds(NewPoolTokenAccount(c, r), c, there, NewPool(c, r), {})
<1>1. CASE r.lp
  BY <1>1, BuildsNothing DEF NewPoolTokenAccount, NewPool, Nothing
<1>2. CASE ~r.lp
  BY <1>2, BuildsCreate DEF NewPoolTokenAccount, NewPool
<1>. QED
  BY <1>1, <1>2

LEMMA BuildsSigner ==
  ASSUME NEW conf, NEW c, NEW there
  PROVE  /\ Builds(TransferSigner(conf, c), c, there, {}, {})
         /\ Delegate(conf, c) \in TransferSigner(conf, c).signers \cup {Authority}
<1>1. CASE conf.latest
  BY <1>1, BuildsNothing DEF TransferSigner, Delegate, Part
<1>2. CASE ~conf.latest
  BY <1>2, BuildsNothing DEF TransferSigner, Delegate, Nothing
<1>. QED
  BY <1>1, <1>2

LEMMA BuildsGrant ==
  ASSUME NEW conf, NEW c \in Call, NEW there, NEW a \in Place \cap there, NEW n \in Nat
  PROVE  Builds(ApproveTransfer(a, Delegate(conf, c), n), c, there, {},
                {Grant(conf, c, a, n)})
<1>1. Delegate(conf, c) \in Call \cup {Authority}
  BY DEF Delegate
<1>. QED
  BY <1>1, BuildsApprove DEF Grant

\* An approval after a part that has granted other accounts only.
LEMMA ThenGrant ==
  ASSUME NEW conf, NEW c \in Call, NEW p, NEW there, NEW made, NEW granted,
         Builds(p, c, there, made, granted),
         NEW a \in Place \cap (there \cup made), NEW n \in Nat, a \notin Accts(granted)
  PROVE  Builds(p (+) ApproveTransfer(a, Delegate(conf, c), n), c, there, made,
                granted \cup {Grant(conf, c, a, n)})
<1>. DEFINE g == Grant(conf, c, a, n)
            q == ApproveTransfer(a, Delegate(conf, c), n)
<1>1. Builds(q, c, there \cup made, {}, {g})
  BY BuildsGrant
<1>2. Accts({g}) = {a}
  BY DEF Accts, Grant
<1>. HIDE DEF g, q
<1>3. Builds(p (+) q, c, there, made \cup {}, granted \cup {g})
  BY <1>1, <1>2, BuildsJoin
<1>. QED
  BY <1>3 DEF g, q

\* A part that grants nothing after another.
LEMMA ThenMake ==
  ASSUME NEW c, NEW p, NEW q, NEW there, NEW made, NEW granted, NEW more,
         Builds(p, c, there, made, granted), Builds(q, c, there \cup made, more, {}),
         made \cap more = {}
  PROVE  Builds(p (+) q, c, there, made \cup more, granted)
<1>1. Accts({}) = {}
  BY DEF Accts
<1>2. Builds(p (+) q, c, there, made \cup more, granted \cup {})
  BY <1>1, BuildsJoin
<1>. QED
  BY <1>2

LEMMA Signs ==
  ASSUME NEW p, NEW q, NEW d, d \in p.signers \cup q.signers
  PROVE  d \in (p (+) q).signers
  BY JoinParts

-----------------------------------------------------------------------------
(* The transactions of Pool, for any pool and any request.                 *)

Asking ==
  [kind : Kind, side : Side, amounts : [Side \cup {"LP"} -> Nat], slip : 0..SlipUnit,
   lp : BOOLEAN, provides : SUBSET Side]

\* What the transaction leaves: no approval, and of its accounts at most one.
Harmless(tx, c, had) ==
  /\ LeftApproved(tx) = {}
  /\ OpenAfter(tx, had) \subseteq had \cup {<<c, "LP">>}
  /\ had \subseteq OpenAfter(tx, had)

\* The accounts there are when the transaction is executed.
Before(c, had) ==
  UserAccounts \subseteq had /\ \A k \in {"A", "B", "LP"} : <<c, k>> \notin had

LEMMA TokenFacts ==
  ASSUME NEW conf, NEW c \in Call
  PROVE  /\ \A k \in Side : Token(conf, c, k)
                              \in Place \cap (UserAccounts \cup Wrapped(conf, c, k))
         /\ Token(conf, c, "A") # Token(conf, c, "B")
         /\ <<User, "LP">> \in Place \cap UserAccounts
         /\ \A k \in Side : Token(conf, c, k) # <<User, "LP">>
         /\ \A k \in Side : <<User, k>> \in Place \cap UserAccounts
         /\ Side = {"A", "B"}
  BY DEF Token, Place, UserAccounts, Wrapped, Side

LEMMA PoolAccountFacts ==
  ASSUME NEW c, NEW r
  PROVE  PoolTokenAccount(c, r) \in UserAccounts \cup NewPool(c, r)
  BY DEF PoolTokenAccount, UserAccounts, NewPool

\* No account is made twice.
LEMMA MadeFacts ==
  ASSUME NEW conf, NEW c \in Call, NEW r, NEW had, Before(c, had)
  PROVE  /\ Wrapped(conf, c, "A") \cap Wrapped(conf, c, "B") = {}
         /\ \A k \in Side : Wrapped(conf, c, k) \cap NewPool(c, r) = {}
         /\ \A k \in Side : Wrapped(conf, c, k) \cap had = {}
         /\ NewPool(c, r) \cap had = {}
<1>1. Wrapped(conf, c, "A") \cap Wrapped(conf, c, "B") = {}
  BY DEF Wrapped
<1>2. ASSUME NEW k \in Side
      PROVE  /\ Wrapped(conf, c, k) \cap NewPool(c, r) = {}
             /\ Wrapped(conf, c, k) \cap had = {}
  BY DEF Wrapped, NewPool, Side, Before
<1>3. NewPool(c, r) \cap had = {}
  BY DEF NewPool, Before
<1>. QED
  BY <1>1, <1>2, <1>3

\* A step that takes what was granted.
LEMMA TakesGranted ==
  ASSUME NEW conf, NEW c, NEW from, NEW to, NEW there, NEW signers, NEW granted,
         DOMAIN from \cup to \subseteq there,
         Delegate(conf, c) \in signers \cup {Authority},
         \A a \in DOMAIN from : from[a] \in Nat /\ Grant(conf, c, a, from[a]) \in granted
  PROVE  Takes(SwapProgram(conf, c, from, to), granted, there, signers)
<1>1. \A a \in DOMAIN from : \E g \in granted :
        /\ g.account = a /\ g.to = Delegate(conf, c)
        /\ g.amount = from[a] /\ g.amount \in Nat
  BY DEF Grant
<1>. QED
  BY <1>1 DEF Takes, SwapProgram

\* A transaction of such parts and such a step.
LEMMA TransactionIsSound ==
  ASSUME NEW p, NEW step, NEW c, NEW made, NEW granted, NEW had, Before(c, had),
         Builds(p, c, UserAccounts, made, granted), step.op = "swapProgram",
         made \cap had = {}
  PROVE  /\ Harmless(Transaction(p, step), c, had)
         /\ Takes(step, granted, UserAccounts \cup made, p.signers) =>
              WellFormed(Transaction(p, step), had)
  BY TransactionFacts DEF Before, Harmless

LEMMA AddLiquidityIsSound ==
  ASSUME NEW conf, NEW c \in Call, NEW r \in Asking, NEW had, Before(c, had)
  PROVE  /\ Harmless(AddLiquidity(conf, c, r), c, had)
         /\ WellFormed(AddLiquidity(conf, c, r), had)
<1>. DEFINE d == Delegate(conf, c)
            a == Token(conf, c, "A")
            b == Token(conf, c, "B")
            ma == Wrapped(conf, c, "A")
            mb == Wrapped(conf, c, "B")
            ml == NewPool(c, r)
            made == ma \cup mb \cup ml
            p1 == Wrap(conf, c, "A") (+) Wrap(conf, c, "B")
            p2 == p1 (+) NewPoolTokenAccount(c, r)
            p3 == p2 (+) ApproveTransfer(a, d, r.amounts.A)
            p4 == p3 (+) TransferSigner(conf, c)
            p5 == p4 (+) ApproveTransfer(b, d, r.amounts.B)
            ga == Grant(conf, c, a, r.amounts.A)
            gb == Grant(conf, c, b, r.amounts.B)
            step == DepositInstruction(conf, c, a, b, PoolTokenAccount(c, r),
                                       r.amounts.A, r.amounts.B)
<1>1. r.amounts.A \in Nat /\ r.amounts.B \in Nat
  BY DEF Asking, Side
<1>2. /\ a \in Place \cap (UserAccounts \cup ma) /\ b \in Place \cap (UserAccounts \cup mb)
      /\ a # b /\ "A" \in Side /\ "B" \in Side
      /\ PoolTokenAccount(c, r) \in UserAccounts \cup ml
  BY TokenFacts, PoolAccountFacts
<1>3. /\ ma \cap mb = {} /\ (ma \cup mb) \cap ml = {} /\ made \cap had = {}
  <2>1. ma \cap mb = {} /\ ma \cap ml = {} /\ mb \cap ml = {}
    BY <1>2, MadeFacts
  <2>2. ma \cap had = {} /\ mb \cap had = {} /\ ml \cap had = {}
    BY <1>2, MadeFacts
  <2>. HIDE DEF ma, mb, ml
  <2>. QED
    BY <2>1, <2>2
<1>4. Accts({}) = {} /\ Accts({ga}) = {a}
  BY DEF Accts, Grant
<1>5. AddLiquidity(conf, c, r) = Transaction(p5, step)
  BY DEF AddLiquidity
<1>6. /\ Builds(Wrap(conf, c, "A"), c, UserAccounts, ma, {})
      /\ Builds(Wrap(conf, c, "B"), c, UserAccounts \cup ma, mb, {})
      /\ Builds(NewPoolTokenAccount(c, r), c, UserAccounts \cup (ma \cup mb), ml, {})
      /\ Builds(TransferSigner(conf, c), c, UserAccounts \cup made, {}, {})
      /\ d \in TransferSigner(conf, c).signers \cup {Authority}
  BY <1>2, BuildsWrap, BuildsPool, BuildsSigner
<1>7. d \in p5.signers \cup {Authority}
  BY <1>6, Signs
<1>8. step.op = "swapProgram"
  BY DEF DepositInstruction, SwapProgram
<1>10. Builds(p5, c, UserAccounts, made, {ga, gb})
  <2>1. Builds(p1, c, UserAccounts, ma \cup mb, {})
    BY <1>3, <1>6, ThenMake
  <2>2. Builds(p2, c, UserAccounts, made, {})
    BY <1>3, <1>6, <2>1, ThenMake
  <2>3. Builds(p3, c, UserAccounts, made, {} \cup {ga})
    BY <1>1, <1>2, <1>4, <2>2, ThenGrant
  <2>4. Builds(p3, c, UserAccounts, made, {ga})
    BY <2>3
  <2>5. Builds(p4, c, UserAccounts, made \cup {}, {ga})
    BY <1>6, <2>4, ThenMake
  <2>6. Builds(p4, c, UserAccounts, made, {ga})
    BY <2>5
  <2>7. Builds(p5, c, UserAccounts, made, {ga} \cup {gb})
    BY <1>1, <1>2, <1>4, <2>6, ThenGrant
  <2>. QED
    BY <2>7
<1>11. Takes(step, {ga, gb}, UserAccounts \cup made, p5.signers)
  <2>. DEFINE from == [x \in {a, b} |-> IF x = a THEN r.amounts.A ELSE r.amounts.B]
              to == {PoolTokenAccount(c, r)}
  <2>1. step = SwapProgram(conf, c, from, to)
    BY DEF DepositInstruction
  <2>2. /\ DOMAIN from = {a, b}
        /\ from[a] = r.amounts.A /\ from[b] = r.amounts.B
    BY <1>2
  <2>3. DOMAIN from \cup to \subseteq UserAccounts \cup made
    BY <1>2, <2>2
  <2>. HIDE DEF from, to, made, p5, a, b, step
  <2>4. \A x \in DOMAIN from :
          from[x] \in Nat /\ Grant(conf, c, x, from[x]) \in {ga, gb}
    BY <1>1, <2>2
  <2>. QED
    BY <1>7, <2>1, <2>3, <2>4, TakesGranted
<1>. HIDE DEF p5, step, made, ga, gb
<1>. QED
  BY <1>3, <1>5, <1>8, <1>10, <1>11, TransactionIsSound

\* A transaction that takes one amount as it was granted, from the account src; the
\* grant is the last but the signer.
LEMMA OneGrantIsSound ==
  ASSUME NEW conf, NEW c \in Call, NEW p, NEW made, NEW had, NEW a, NEW n \in Nat, NEW to,
         NEW src, NEW from, DOMAIN from = {src}, from[src] = n,
         Before(c, had), made \cap had = {}, a \in UserAccounts \cup made,
         Builds(p, c, UserAccounts, made, {Grant(conf, c, a, n)}),
         to \subseteq UserAccounts \cup made
  PROVE  LET tx == Transaction(p (+) TransferSigner(conf, c),
                               SwapProgram(conf, c, from, to))
         IN  Harmless(tx, c, had) /\ (src = a => WellFormed(tx, had))
<1>. DEFINE q == p (+) TransferSigner(conf, c)
            g == Grant(conf, c, a, n)
            step == SwapProgram(conf, c, from, to)
<1>1. /\ Builds(TransferSigner(conf, c), c, UserAccounts \cup made, {}, {})
      /\ Delegate(conf, c) \in TransferSigner(conf, c).signers \cup {Authority}
  BY BuildsSigner
<1>2. Builds(q, c, UserAccounts, made \cup {}, {g})
  BY <1>1, ThenMake
<1>3. Builds(q, c, UserAccounts, made, {g})
  BY <1>2
<1>4. Delegate(conf, c) \in q.signers \cup {Authority}
  BY <1>1, Signs
<1>5. step.op = "swapProgram"
  BY DEF SwapProgram
<1>6. src = a => Takes(step, {g}, UserAccounts \cup made, q.signers)
  <2>. SUFFICES ASSUME src = a
                PROVE  Takes(step, {g}, UserAccounts \cup made, q.signers)
    OBVIOUS
  <2>1. DOMAIN from = {a} /\ from[a] = n
    OBVIOUS
  <2>. HIDE DEF q
  <2>2. \A x \in DOMAIN from : from[x] \in Nat /\ Grant(conf, c, x, from[x]) \in {g}
    BY <2>1
  <2>. QED
    BY <1>4, <2>1, <2>2, TakesGranted
<1>. HIDE DEF q, g, step
<1>7. /\ Harmless(Transaction(q, step), c, had)
      /\ src = a => WellFormed(Transaction(q, step), had)
  BY <1>3, <1>5, <1>6, TransactionIsSound
<1>. QED
  BY <1>7 DEF q, step

\* The caller's account is not the one approved if the token is wrapped.
LEMMA AddSingleSidedLiquidityIsSound ==
  ASSUME NEW conf, NEW c \in Call, NEW r \in Asking, NEW had, Before(c, had)
  PROVE  /\ Harmless(AddSingleSidedLiquidity(conf, c, r), c, had)
         /\ r.side # conf.wrapped => WellFormed(AddSingleSidedLiquidity(conf, c, r), had)
<1>. DEFINE k == r.side
            n == r.amounts[k]
            a == Token(conf, c, k)
            m == Wrapped(conf, c, k)
            ml == NewPool(c, r)
            p1 == Wrap(conf, c, k) (+) NewPoolTokenAccount(c, r)
            p2 == p1 (+) ApproveTransfer(a, Delegate(conf, c), n)
            g == Grant(conf, c, a, n)
            to == {PoolTokenAccount(c, r)}
            from == [x \in {<<User, k>>} |-> n]
<1>1. k \in Side /\ n \in Nat
  BY DEF Asking
<1>2. a \in Place \cap (UserAccounts \cup m) /\ to \subseteq UserAccounts \cup (m \cup ml)
  BY <1>1, TokenFacts, PoolAccountFacts
<1>3. m \cap ml = {} /\ (m \cup ml) \cap had = {}
  <2>1. m \cap ml = {} /\ m \cap had = {} /\ ml \cap had = {}
    BY <1>1, MadeFacts
  <2>. HIDE DEF m, ml
  <2>. QED
    BY <2>1
<1>4. Builds(p2, c, UserAccounts, m \cup ml, {g})
  <2>1. /\ Builds(Wrap(conf, c, k), c, UserAccounts, m, {})
        /\ Builds(NewPoolTokenAccount(c, r), c, UserAccounts \cup m, ml, {})
    BY <1>1, BuildsWrap, BuildsPool
  <2>2. Builds(p1, c, UserAccounts, m \cup ml, {})
    BY <1>3, <2>1, ThenMake
  <2>3. Accts({}) = {}
    BY DEF Accts
  <2>4. Builds(p2, c, UserAccounts, m \cup ml, {} \cup {g})
    BY <1>1, <1>2, <2>2, <2>3, ThenGrant
  <2>. QED
    BY <2>4
<1>5. AddSingleSidedLiquidity(conf, c, r) =
        Transaction(p2 (+) TransferSigner(conf, c),
                    SwapProgram(conf, c, from, to))
  BY DEF AddSingleSidedLiquidity, DepositExactOneInstruction
<1>6. DOMAIN from = {<<User, k>>} /\ from[<<User, k>>] = n
  OBVIOUS
<1>7. k # conf.wrapped => a = <<User, k>>
  BY DEF Token
<1>. DEFINE made == m \cup ml
            src == <<User, k>>
<1>8. /\ a \in UserAccounts \cup made /\ to \subseteq UserAccounts \cup made
      /\ made \cap had = {} /\ DOMAIN from = {src} /\ from[src] = n
      /\ Builds(p2, c, UserAccounts, made, {Grant(conf, c, a, n)})
  BY <1>2, <1>3, <1>4, <1>6
<1>. HIDE DEF p2, to, from, a, m, ml, k, n, made, src
<1>9. LET tx == Transaction(p2 (+) TransferSigner(conf, c),
                            SwapProgram(conf, c, from, to))
      IN  Harmless(tx, c, had) /\ (src = a => WellFormed(tx, had))
  BY <1>1, <1>8, OneGrantIsSound
<1>. QED
  BY <1>5, <1>7, <1>9 DEF k, src

LEMMA RemoveLiquidityIsSound ==
  ASSUME NEW conf, NEW c \in Call, NEW r \in Asking, NEW had, Before(c, had)
  PROVE  /\ Harmless(RemoveLiquidity(conf, c, r), c, had)
         /\ WellFormed(RemoveLiquidity(conf, c, r), had)
<1>. DEFINE n == r.amounts.LP
            a == <<User, "LP">>
            ma == Wrapped(conf, c, "A")
            mb == Wrapped(conf, c, "B")
            p1 == Wrap(conf, c, "A") (+) Wrap(conf, c, "B")
            p2 == p1 (+) ApproveTransfer(a, Delegate(conf, c), n)
            g == Grant(conf, c, a, n)
            to == {Token(conf, c, "A"), Token(conf, c, "B")}
            from == [x \in {a} |-> n]
<1>1. n \in Nat
  BY DEF Asking
<1>2. a \in Place \cap (UserAccounts \cup (ma \cup mb)) /\ to \subseteq UserAccounts \cup (ma \cup mb)
  BY TokenFacts
<1>3. ma \cap mb = {} /\ (ma \cup mb) \cap had = {}
  <2>1. ma \cap mb = {} /\ ma \cap had = {} /\ mb \cap had = {}
    BY MadeFacts DEF Side
  <2>. HIDE DEF ma, mb
  <2>. QED
    BY <2>1
<1>4. Builds(p2, c, UserAccounts, ma \cup mb, {g})
  <2>1. /\ Builds(Wrap(conf, c, "A"), c, UserAccounts, ma, {})
        /\ Builds(Wrap(conf, c, "B"), c, UserAccounts \cup ma, mb, {})
    BY BuildsWrap DEF Side
  <2>2. Builds(p1, c, UserAccounts, ma \cup mb, {})
    BY <1>3, <2>1, ThenMake
  <2>3. Accts({}) = {}
    BY DEF Accts
  <2>4. Builds(p2, c, UserAccounts, ma \cup mb, {} \cup {g})
    BY <1>1, <1>2, <2>2, <2>3, ThenGrant
  <2>. QED
    BY <2>4
<1>5. RemoveLiquidity(conf, c, r) =
        Transaction(p2 (+) TransferSigner(conf, c),
                    SwapProgram(conf, c, from, to))
  BY DEF RemoveLiquidity, WithdrawInstruction
<1>6. DOMAIN from = {a} /\ from[a] = n
  OBVIOUS
<1>. DEFINE made == ma \cup mb
            src == a
<1>8. /\ a \in UserAccounts \cup made /\ to \subseteq UserAccounts \cup made
      /\ made \cap had = {} /\ DOMAIN from = {src} /\ from[src] = n
      /\ Builds(p2, c, UserAccounts, made, {Grant(conf, c, a, n)})
  BY <1>2, <1>3, <1>4, <1>6
<1>. HIDE DEF p2, to, from, a, ma, mb, n, made, src
<1>9. LET tx == Transaction(p2 (+) TransferSigner(conf, c),
                            SwapProgram(conf, c, from, to))
      IN  Harmless(tx, c, had) /\ (src = a => WellFormed(tx, had))
  BY <1>1, <1>8, OneGrantIsSound
<1>. QED
  BY <1>5, <1>9 DEF src

LEMMA WithdrawSingleSidedLiquidityIsSound ==
  ASSUME NEW conf, NEW c \in Call, NEW r \in Asking, NEW had, Before(c, had)
  PROVE  /\ Harmless(WithdrawSingleSidedLiquidity(conf, c, r), c, had)
         /\ WellFormed(WithdrawSingleSidedLiquidity(conf, c, r), had)
<1>. DEFINE n == r.amounts.LP
            a == <<User, "LP">>
            p == ApproveTransfer(a, Delegate(conf, c), n)
            g == Grant(conf, c, a, n)
            to == {<<User, r.side>>}
            from == [x \in {a} |-> n]
<1>1. n \in Nat /\ r.side \in Side
  BY DEF Asking
<1>2. a \in Place \cap UserAccounts /\ to \subseteq UserAccounts \cup {}
  BY <1>1, TokenFacts
<1>3. Builds(p, c, UserAccounts, {}, {g})
  BY <1>1, <1>2, BuildsGrant
<1>4. WithdrawSingleSidedLiquidity(conf, c, r) =
        Transaction(p (+) TransferSigner(conf, c),
                    SwapProgram(conf, c, from, to))
  BY DEF WithdrawSingleSidedLiquidity, WithdrawExactOneInstruction
<1>5. {} \cap had = {} /\ a \in UserAccounts \cup {}
  BY <1>2
<1>6. DOMAIN from = {a} /\ from[a] = n
  OBVIOUS
<1>. DEFINE made == {}
            src == a
<1>8. /\ a \in UserAccounts \cup made /\ to \subseteq UserAccounts \cup made
      /\ made \cap had = {} /\ DOMAIN from = {src} /\ from[src] = n
      /\ Builds(p, c, UserAccounts, made, {Grant(conf, c, a, n)})
  BY <1>2, <1>3, <1>5, <1>6
<1>. HIDE DEF p, to, from, a, n, made, src
<1>9. LET tx == Transaction(p (+) TransferSigner(conf, c),
                            SwapProgram(conf, c, from, to))
      IN  Harmless(tx, c, had) /\ (src = a => WellFormed(tx, had))
  BY <1>1, <1>8, OneGrantIsSound
<1>. QED
  BY <1>4, <1>9 DEF src

LEMMA SwapIsSound ==
  ASSUME NEW conf, NEW c \in Call, NEW r \in Asking, NEW had, Before(c, had)
  PROVE  /\ Harmless(Swap(conf, c, r), c, had)
         /\ WellFormed(Swap(conf, c, r), had)
<1>. DEFINE k == r.side
            l == Other(k)
            n == r.amounts[k]
            a == Token(conf, c, k)
            ma == Wrapped(conf, c, k)
            mb == Wrapped(conf, c, l)
            p1 == Wrap(conf, c, k) (+) Wrap(conf, c, l)
            p2 == p1 (+) ApproveTransfer(a, Delegate(conf, c), n)
            g == Grant(conf, c, a, n)
            to == {Token(conf, c, l)}
            from == [x \in {a} |-> n]
<1>1. k \in Side /\ l \in Side /\ k # l /\ n \in Nat
  BY DEF Asking, Side, Other
<1>2. /\ a \in Place \cap (UserAccounts \cup (ma \cup mb))
      /\ to \subseteq UserAccounts \cup (ma \cup mb)
  BY <1>1, TokenFacts
<1>3. ma \cap mb = {} /\ (ma \cup mb) \cap had = {}
  <2>1. ma \cap mb = {}
    BY <1>1 DEF Wrapped
  <2>2. ma \cap had = {} /\ mb \cap had = {}
    BY <1>1, MadeFacts
  <2>. HIDE DEF ma, mb
  <2>. QED
    BY <2>1, <2>2
<1>4. Builds(p2, c, UserAccounts, ma \cup mb, {g})
  <2>1. /\ Builds(Wrap(conf, c, k), c, UserAccounts, ma, {})
        /\ Builds(Wrap(conf, c, l), c, UserAccounts \cup ma, mb, {})
    BY <1>1, BuildsWrap
  <2>2. Builds(p1, c, UserAccounts, ma \cup mb, {})
    BY <1>3, <2>1, ThenMake
  <2>3. Accts({}) = {}
    BY DEF Accts
  <2>4. Builds(p2, c, UserAccounts, ma \cup mb, {} \cup {g})
    BY <1>1, <1>2, <2>2, <2>3, ThenGrant
  <2>. QED
    BY <2>4
<1>5. Swap(conf, c, r) =
        Transaction(p2 (+) TransferSigner(conf, c),
                    SwapProgram(conf, c, from, to))
  BY DEF Swap, SwapInstruction
<1>6. DOMAIN from = {a} /\ from[a] = n
  OBVIOUS
<1>. DEFINE made == ma \cup mb
            src == a
<1>8. /\ a \in UserAccounts \cup made /\ to \subseteq UserAccounts \cup made
      /\ made \cap had = {} /\ DOMAIN from = {src} /\ from[src] = n
      /\ Builds(p2, c, UserAccounts, made, {Grant(conf, c, a, n)})
  BY <1>2, <1>3, <1>4, <1>6
<1>. HIDE DEF p2, to, from, a, ma, mb, k, l, n, made, src
<1>9. LET tx == Transaction(p2 (+) TransferSigner(conf, c),
                            SwapProgram(conf, c, from, to))
      IN  Harmless(tx, c, had) /\ (src = a => WellFormed(tx, had))
  BY <1>1, <1>8, OneGrantIsSound
<1>. QED
  BY <1>5, <1>9 DEF src

-----------------------------------------------------------------------------
(* The inductive invariant.                                                *)

\* Every value a key has had, and when.
PastOK ==
  /\ \A k \in Key : \A p \in past[k] : p \in (Nat \ {0}) \X Nat /\ p[2] <= clock
  /\ \A k \in Key : <<pool[k], clock>> \in past[k]

\* An entry of the cache is what its key had, no earlier than its time stamp says.
EntryOK(entry, had) == <<entry.value, entry.asOf>> \in had /\ entry.ts <= entry.asOf
CacheOK == \A k \in Key : cache[k] # None => EntryOK(cache[k], past[k])

\* A call of cached at the time now: what its answer was read of, and when.
ReadOK(read, now, had) ==
  /\ read.state = "asked" => read.start <= now
  /\ read.state = "answered" =>
       read.start <= read.asOf /\ <<read.value, read.asOf>> \in had
  /\ read.state = "returned" => read.value # 0

\* A call reads one thing after another, and nothing once it has done so.
InTurn(a) ==
  /\ a.read["A"].state # "idle" => a.read["mint"].state = "returned"
  /\ a.read["B"].state # "idle" => a.read["A"].state = "returned"
  /\ \A k \in Key \ Needs(a.request.kind) : a.read[k].state = "idle"
  /\ a.pc # "reading" => \A k \in Key : a.read[k].state \notin {"asked", "answered"}

HasAll(a) == \A k \in Needs(a.request.kind) : a.read[k].state = "returned"

\* The pool a deposit found was dearer, in one token, than the one it had read of,
\* by more than the tolerance.
Dearer(a) ==
  \E k \in Side :
    a.found[k] * a.read["mint"].value * (SlipUnit - a.request.slip)
      > a.read[k].value * a.found["mint"] * SlipUnit

\* How a transaction ended.
Ended(a, conf) ==
  /\ a.outcome # "none" => a.pc \in {"done", "failed"} /\ HasAll(a)
  /\ a.outcome = "malformed" =>
       a.request.kind = "addOne" /\ a.request.side = conf.wrapped
  /\ a.outcome = "slippage" /\ a.request.kind = "add" => Dearer(a)

Good(a, now, had, conf) ==
  (\A k \in Key : ReadOK(a.read[k], now, had[k])) /\ InTurn(a) /\ Ended(a, conf)

CallsOK == \A c \in Call : call[c] # Idle => Good(call[c], clock, past, config)

\* Before its transaction is executed, a call has no account.
OpenOK ==
  /\ NothingLeftBehind
  /\ UserAccounts \subseteq open
  /\ \A c \in Call : call[c] = Idle \/ call[c].outcome = "none" =>
       \A k \in {"A", "B", "LP"} : <<c, k>> \notin open

IInv == TypeOK /\ PastOK /\ CacheOK /\ CallsOK /\ OpenOK

LEMMA KeyFacts ==
  /\ Key = {"mint", "A", "B"} /\ Side = {"A", "B"} /\ Side \subseteq Key
  /\ \A kind : Needs(kind) \subseteq Key /\ "mint" \in Needs(kind)
  BY DEF Key, Side, Needs

\* What there is to know of a read by its state.
LEMMA ReadCases ==
  ASSUME NEW read \in Read
  PROVE  /\ read.state \in {"idle", "asked", "answered", "returned", "failed"}
         /\ read.state = "idle" => read = Unread
         /\ read.state = "failed" => read = Failed
         /\ read.state = "asked" => read \in Asked
         /\ read.state = "answered" => read \in Answered
         /\ read.state = "returned" =>
              read \in [state : {"returned"}, duration : Duration, value : Nat]
<1>1. CASE read \in Asked
  <2>1. read.state = "asked"
    BY <1>1 DEF Asked
  <2>. QED
    BY <1>1, <2>1
<1>2. CASE read \in Answered
  <2>1. read.state = "answered"
    BY <1>2 DEF Answered
  <2>. QED
    BY <1>2, <2>1
<1>3. CASE read \in [state : {"returned"}, duration : Duration, value : Nat]
  <2>1. read.state = "returned"
    BY <1>3
  <2>. QED
    BY <1>3, <2>1
<1>4. CASE read = Unread
  BY <1>4 DEF Unread
<1>5. CASE read = Failed
  BY <1>5 DEF Failed
<1>. QED
  BY <1>1, <1>2, <1>3, <1>4, <1>5 DEF Read

\* Of what a caller may ask for.
LEMMA RequestType ==
  ASSUME NEW r \in UNION {Request[c] : c \in Call}
  PROVE  r \in Asking /\ r.kind \in Kind
<1>1. PICK c \in Call : r \in Request[c]
  OBVIOUS
<1>2. r \in [kind : Kind, side : Side, amounts : [Side \cup {"LP"} -> Nat],
             slip : 0..SlipUnit, lp : BOOLEAN, provides : SUBSET Side]
  BY <1>1, RequestAssumption
<1>. QED
  BY <1>2 DEF Asking

LEMMA CallType ==
  ASSUME TypeOK, NEW c \in Call, call[c] # Idle
  PROVE  /\ call[c] \in Running
         /\ call[c].request \in Asking /\ call[c].request.kind \in Kind
         /\ \A k \in Key : call[c].read[k] \in Read
<1>1. call[c] \in Running
  BY DEF TypeOK
<1>2. /\ call[c].request \in UNION {Request[e] : e \in Call}
      /\ call[c].read \in [Key -> Read]
  BY <1>1 DEF Running
<1>. QED
  BY <1>1, <1>2, RequestType

\* A call that is somewhere has begun.
LEMMA Begun ==
  ASSUME TypeOK, NEW c \in Call
  PROVE  /\ call[c].pc \in {"reading", "sent", "done", "failed"} => call[c] # Idle
         /\ c \in pending => call[c] # Idle
<1>1. Idle.pc = "idle"
  BY DEF Idle
<1>. QED
  BY <1>1 DEF TypeOK

\* What is good remains so.
LEMMA GoodStable ==
  ASSUME NEW a \in Running, NEW now \in Nat, NEW later \in Nat, NEW had, NEW has, NEW conf,
         Good(a, now, had, conf), now <= later, \A k \in Key : had[k] \subseteq has[k]
  PROVE  Good(a, later, has, conf)
<1>1. ASSUME NEW k \in Key
      PROVE  ReadOK(a.read[k], later, has[k])
  <2>1. a.read[k] \in Read /\ ReadOK(a.read[k], now, had[k])
    BY DEF Running, Good
  <2>2. a.read[k].state = "asked" => a.read[k].start \in Nat
    BY <2>1, ReadCases DEF Asked
  <2>. QED
    BY <2>1, <2>2 DEF ReadOK
<1>. QED
  BY <1>1 DEF Good

\* The other calls stay as they are.
LEMMA CallsStable ==
  ASSUME TypeOK, CallsOK, clock' \in Nat, clock <= clock',
         \A k \in Key : past[k] \subseteq past'[k], config' = config,
         NEW c \in Call, NEW b, call' = [call EXCEPT ![c] = b],
         Good(b, clock', past', config')
  PROVE  CallsOK'
<1>1. ASSUME NEW e \in Call, call'[e] # Idle
      PROVE  Good(call'[e], clock', past', config')
  <2>1. CASE e = c
    BY <2>1 DEF TypeOK
  <2>2. CASE e # c
    <3>1. call'[e] = call[e] /\ call[e] # Idle
      BY <1>1, <2>2 DEF TypeOK
    <3>2. call[e] \in Running /\ Good(call[e], clock, past, config) /\ clock \in Nat
      BY <3>1, CallType DEF CallsOK, TypeOK
    <3>. QED
      BY <3>1, <3>2, GoodStable
  <2>. QED
    BY <2>1, <2>2
<1>. QED
  BY <1>1 DEF CallsOK

\* Nor do they change when none moves.
LEMMA CallsIdle ==
  ASSUME TypeOK, CallsOK, clock' \in Nat, clock <= clock',
         \A k \in Key : past[k] \subseteq past'[k], UNCHANGED <<config, call>>
  PROVE  CallsOK'
<1>1. ASSUME NEW e \in Call, call[e] # Idle
      PROVE  Good(call[e], clock', past', config')
  <2>1. call[e] \in Running /\ Good(call[e], clock, past, config) /\ clock \in Nat
    BY <1>1, CallType DEF CallsOK, TypeOK
  <2>. QED
    BY <2>1, GoodStable
<1>. QED
  BY <1>1 DEF CallsOK

-----------------------------------------------------------------------------
(* Steps of a call that leave the chain alone.                             *)

LEMMA OnlyCall ==
  ASSUME IInv, NEW c \in Call, NEW b \in Running, Good(b, clock, past, config),
         call' = [call EXCEPT ![c] = b],
         b.outcome = "none" => call[c] = Idle \/ call[c].outcome = "none",
         UNCHANGED <<clock, config, chain>>,
         cache' \in [Key -> Entry \cup {None}], CacheOK',
         pending' \subseteq pending \cup {c},
         c \in pending' => b.pc \in {"sent", "failed"} /\ b.outcome = "none" /\ HasAll(b)
  PROVE  IInv'
<1>. USE DEF IInv, chain
<1>1. call' \in [Call -> Running \cup {Idle}] /\ call'[c] = b
      /\ \A e \in Call \ {c} : call'[e] = call[e]
  BY DEF TypeOK
<1>2. TypeOK'
  <2>1. ASSUME NEW e \in pending'
        PROVE  /\ call'[e].pc \in {"sent", "failed"} /\ call'[e].outcome = "none"
               /\ \A k \in Needs(call'[e].request.kind) : call'[e].read[k].state = "returned"
    <3>1. CASE e = c
      BY <1>1, <2>1, <3>1 DEF HasAll
    <3>2. CASE e # c
      BY <1>1, <2>1, <3>2 DEF TypeOK
    <3>. QED
      BY <3>1, <3>2
  <2>. QED
    BY <1>1, <2>1 DEF TypeOK
<1>3. PastOK' /\ CallsOK'
  <2>1. clock' \in Nat /\ clock <= clock' /\ \A k \in Key : past[k] \subseteq past'[k]
    BY DEF TypeOK
  <2>. QED
    BY <2>1, CallsStable DEF PastOK
<1>4. OpenOK'
  <2>1. ASSUME NEW e \in Call, call'[e] = Idle \/ call'[e].outcome = "none"
        PROVE  call[e] = Idle \/ call[e].outcome = "none"
    <3>1. b # Idle
      BY DEF Running, Idle
    <3>. QED
      BY <1>1, <2>1, <3>1
  <2>. QED
    BY <2>1 DEF OpenOK, NothingLeftBehind
<1>. QED
  BY <1>2, <1>3, <1>4

\* What cached returns, or asks, is in order.
LEMMA CachedFacts ==
  ASSUME IInv, NEW k \in Key, NEW d \in Duration
  PROVE  /\ Cached(k, d) \in Read /\ ReadOK(Cached(k, d), clock, past[k])
         /\ Cached(k, d).state \in {"asked", "returned"}
<1>1. CASE CacheHit(k, d)
  <2>1. cache[k] \in Entry /\ EntryOK(cache[k], past[k])
    BY <1>1 DEF IInv, TypeOK, CacheOK, CacheHit
  <2>2. cache[k].value \in Nat /\ cache[k].value # 0
    BY <2>1 DEF EntryOK, Entry, IInv, PastOK
  <2>3. Cached(k, d) = [state |-> "returned", duration |-> d, value |-> cache[k].value]
    BY <1>1 DEF Cached, Returned
  <2>. QED
    BY <2>2, <2>3 DEF Read, ReadOK
<1>2. CASE ~CacheHit(k, d)
  <2>1. Cached(k, d) = [state |-> "asked", duration |-> d, start |-> clock]
    BY <1>2 DEF Cached
  <2>2. clock \in Nat
    BY DEF IInv, TypeOK
  <2>. QED
    BY <2>1, <2>2 DEF Read, Asked, ReadOK
<1>. QED
  BY <1>1, <1>2

LEMMA AgeType ==
  ASSUME NEW kind \in Kind, NEW k \in Key
  PROVE  Age(kind, k) \in Duration
  BY DEF Age, Kind, Duration

\* The read of one key moves on.
LEMMA ReadMoves ==
  ASSUME IInv, NEW c \in Call, call[c] # Idle, call[c].pc = "reading",
         NEW k \in Needs(call[c].request.kind), NEW new \in Read,
         ReadOK(new, clock, past[k]),
         call[c].read[k].state # "returned", new.state # "idle",
         k = "A" => call[c].read["mint"].state = "returned",
         k = "B" => call[c].read["A"].state = "returned"
  PROVE  LET b == [call[c] EXCEPT !.read[k] = new]
         IN  /\ b \in Running /\ Good(b, clock, past, config)
             /\ b.outcome = "none" /\ call[c].outcome = "none"
             /\ c \notin pending
<1>. DEFINE a == call[c]
            b == [a EXCEPT !.read[k] = new]
<1>1. a \in Running /\ Good(a, clock, past, config) /\ k \in Key /\ a.outcome = "none"
  BY CallType, KeyFacts DEF IInv, CallsOK, Good, Ended
<1>2. c \notin pending
  BY DEF IInv, TypeOK
<1>. HIDE DEF a
<1>3. /\ b \in Running
      /\ b.pc = a.pc /\ b.request = a.request /\ b.outcome = a.outcome /\ b.found = a.found
      /\ b.read[k] = new /\ \A l \in Key \ {k} : b.read[l] = a.read[l]
  BY <1>1 DEF Running
<1>. HIDE DEF b
<1>4. \A l \in Key : ReadOK(b.read[l], clock, past[l])
  BY <1>1, <1>3 DEF Good
<1>5. InTurn(b)
  <2>1. InTurn(a)
    BY <1>1 DEF Good
  <2>2. b.pc = "reading" /\ k \in Needs(b.request.kind)
    BY <1>3 DEF a
  <2>3. /\ k = "A" => a.read["mint"].state = "returned"
        /\ k = "B" => a.read["A"].state = "returned"
        /\ a.read[k].state # "returned"
    BY DEF a
  <2>. QED
    BY <1>1, <1>3, <2>1, <2>2, <2>3, KeyFacts DEF InTurn
<1>6. Ended(b, config)
  BY <1>1, <1>3 DEF Ended
<1>7. Good(b, clock, past, config) /\ b.outcome = "none"
  BY <1>1, <1>3, <1>4, <1>5, <1>6 DEF Good
<1>. QED
  BY <1>1, <1>2, <1>3, <1>7 DEF a, b

\* A key that was asked for is one the call needs, and the keys before it have
\* been read.
LEMMA AskedFacts ==
  ASSUME IInv, NEW c \in Call, NEW k \in Key, call[c] # Idle,
         call[c].read[k].state \in {"asked", "answered"}
  PROVE  /\ call[c].pc = "reading" /\ k \in Needs(call[c].request.kind)
         /\ k = "A" => call[c].read["mint"].state = "returned"
         /\ k = "B" => call[c].read["A"].state = "returned"
         /\ call[c].read[k] \in Read /\ ReadOK(call[c].read[k], clock, past[k])
<1>1. InTurn(call[c]) /\ ReadOK(call[c].read[k], clock, past[k])
  BY DEF IInv, CallsOK, Good
<1>2. call[c].read[k] \in Read
  BY CallType DEF IInv
<1>. QED
  BY <1>1, <1>2 DEF InTurn

LEMMA NodeReadsStep ==
  ASSUME IInv, NEW c \in Call, NEW k \in Key, NodeReads(c, k)
  PROVE  IInv'
<1>. DEFINE read == call[c].read[k]
            new == [state |-> "answered", duration |-> read.duration,
                    start |-> read.start, value |-> pool[k], asOf |-> clock]
            b == [call[c] EXCEPT !.read[k] = new]
<1>1. call[c] # Idle /\ read.state = "asked"
  BY DEF NodeReads
<1>2. read \in Asked /\ ReadOK(read, clock, past[k])
  BY <1>1, AskedFacts, ReadCases
<1>3. new \in Read /\ new.state = "answered" /\ ReadOK(new, clock, past[k])
  <2>1. pool[k] \in Nat /\ clock \in Nat /\ <<pool[k], clock>> \in past[k]
    BY DEF IInv, TypeOK, PastOK
  <2>2. read.duration \in Duration /\ read.start \in Nat /\ read.start <= clock
    BY <1>1, <1>2 DEF Asked, ReadOK
  <2>. HIDE DEF read
  <2>. QED
    BY <2>1, <2>2 DEF Read, Answered, ReadOK
<1>4. /\ call' = [call EXCEPT ![c] = b]
      /\ UNCHANGED <<clock, config, chain, cache, pending>>
  BY DEF NodeReads, IInv, TypeOK
<1>. HIDE DEF new
<1>5. /\ b \in Running /\ Good(b, clock, past, config)
      /\ b.outcome = "none" /\ call[c].outcome = "none" /\ c \notin pending
  BY <1>1, <1>3, AskedFacts, ReadMoves
<1>6. cache' \in [Key -> Entry \cup {None}] /\ CacheOK'
  BY <1>4 DEF IInv, TypeOK, CacheOK, chain
<1>. HIDE DEF b
<1>. QED
  BY <1>4, <1>5, <1>6, OnlyCall

LEMMA StoreInCacheStep ==
  ASSUME IInv, NEW c \in Call, NEW k \in Key, StoreInCache(c, k)
  PROVE  IInv'
<1>. DEFINE read == call[c].read[k]
            new == Returned(read.duration, read.value)
            entry == [value |-> read.value, ts |-> read.start, asOf |-> read.asOf]
            b == [call[c] EXCEPT !.read[k] = new]
<1>1. call[c] # Idle /\ read.state = "answered"
  BY DEF StoreInCache
<1>2. read \in Answered /\ ReadOK(read, clock, past[k])
  BY <1>1, AskedFacts, ReadCases
<1>3. /\ new \in Read /\ new.state = "returned" /\ ReadOK(new, clock, past[k])
      /\ entry \in Entry /\ EntryOK(entry, past[k])
  <2>1. /\ read.duration \in Duration /\ read.value \in Nat /\ read.value # 0
        /\ read.start \in Nat /\ read.asOf \in Nat
        /\ read.start <= read.asOf /\ <<read.value, read.asOf>> \in past[k]
    BY <1>1, <1>2 DEF Answered, ReadOK, IInv, PastOK
  <2>. HIDE DEF read
  <2>. QED
    BY <2>1 DEF Read, Returned, ReadOK, Entry, EntryOK
<1>4. /\ call' = [call EXCEPT ![c] = b] /\ cache' = [cache EXCEPT ![k] = entry]
      /\ UNCHANGED <<clock, config, chain, pending>>
  BY DEF StoreInCache, IInv, TypeOK
<1>. HIDE DEF new, entry
<1>5. /\ b \in Running /\ Good(b, clock, past, config)
      /\ b.outcome = "none" /\ call[c].outcome = "none" /\ c \notin pending
  BY <1>1, <1>3, AskedFacts, ReadMoves
<1>6. cache' \in [Key -> Entry \cup {None}] /\ CacheOK'
  BY <1>3, <1>4 DEF IInv, TypeOK, CacheOK, chain
<1>. HIDE DEF b
<1>. QED
  BY <1>4, <1>5, <1>6, OnlyCall

LEMMA ReadHoldingStep ==
  ASSUME IInv, NEW c \in Call, NEW k \in Key, ReadHolding(c, k)
  PROVE  IInv'
<1>. DEFINE new == Cached(k, Age(call[c].request.kind, k))
            b == [call[c] EXCEPT !.read[k] = new]
<1>1. /\ call[c].pc = "reading" /\ call[c] # Idle /\ call[c].read[k] = Unread
      /\ k \in Needs(call[c].request.kind)
      /\ k = "A" => call[c].read["mint"].state = "returned"
      /\ k = "B" => call[c].read["A"].state = "returned"
  BY Begun DEF ReadHolding, HasReturned, Side, IInv
<1>2. new \in Read /\ new.state # "idle" /\ ReadOK(new, clock, past[k])
  <2>1. Age(call[c].request.kind, k) \in Duration
    BY <1>1, CallType, AgeType DEF IInv
  <2>. QED
    BY <2>1, CachedFacts
<1>3. /\ call' = [call EXCEPT ![c] = b]
      /\ UNCHANGED <<clock, config, chain, cache, pending>>
  BY DEF ReadHolding, IInv, TypeOK
<1>. HIDE DEF new
<1>4. /\ b \in Running /\ Good(b, clock, past, config)
      /\ b.outcome = "none" /\ call[c].outcome = "none" /\ c \notin pending
  <2>1. call[c].read[k].state # "returned"
    BY <1>1 DEF Unread
  <2>. QED
    BY <1>1, <1>2, <2>1, ReadMoves
<1>5. cache' \in [Key -> Entry \cup {None}] /\ CacheOK'
  BY <1>3 DEF IInv, TypeOK, CacheOK, chain
<1>. HIDE DEF b
<1>. QED
  BY <1>3, <1>4, <1>5, OnlyCall

LEMMA BeginStep ==
  ASSUME IInv, NEW c \in Call, NEW r \in Request[c], Begin(c, r)
  PROVE  IInv'
<1>. DEFINE first == Cached("mint", Age(r.kind, "mint"))
            read == [k \in Key |-> IF k = "mint" THEN Cached(k, Age(r.kind, k)) ELSE Unread]
            b == [pc |-> "reading", request |-> r, read |-> read,
                  outcome |-> "none", found |-> [k \in Key |-> 0]]
<1>1. /\ call' = [call EXCEPT ![c] = b] /\ call[c] = Idle
      /\ UNCHANGED <<clock, config, chain, cache, pending>>
  BY DEF Begin
<1>2. r \in UNION {Request[e] : e \in Call}
  OBVIOUS
<1>3. /\ first \in Read /\ ReadOK(first, clock, past["mint"])
      /\ first.state \in {"asked", "returned"}
  <2>1. Age(r.kind, "mint") \in Duration
    BY <1>2, RequestType, AgeType, KeyFacts
  <2>. QED
    BY <2>1, CachedFacts, KeyFacts
<1>4. /\ read \in [Key -> Read] /\ read["mint"] = first
      /\ read["A"] = Unread /\ read["B"] = Unread
  <2>1. Unread \in Read
    BY DEF Read
  <2>2. read = [k \in Key |-> IF k = "mint" THEN first ELSE Unread]
    OBVIOUS
  <2>. HIDE DEF first, read
  <2>. QED
    BY <1>3, <2>1, <2>2, KeyFacts
<1>. HIDE DEF first, read
<1>5. /\ b \in Running /\ b.pc = "reading" /\ b.request = r /\ b.read = read
      /\ b.outcome = "none"
  BY <1>2, <1>4 DEF Running
<1>. HIDE DEF b
<1>6. Good(b, clock, past, config)
  <2>1. \A k \in Key : ReadOK(b.read[k], clock, past[k])
    BY <1>3, <1>4, <1>5, KeyFacts DEF ReadOK, Unread
  <2>2. InTurn(b)
    BY <1>3, <1>4, <1>5, KeyFacts DEF InTurn, Unread
  <2>3. Ended(b, config)
    BY <1>5 DEF Ended
  <2>. QED
    BY <2>1, <2>2, <2>3 DEF Good
<1>7. cache' \in [Key -> Entry \cup {None}] /\ CacheOK' /\ c \notin pending
  BY <1>1, Begun DEF IInv, TypeOK, CacheOK, chain
<1>. QED
  BY <1>1, <1>5, <1>6, <1>7, OnlyCall

\* A call whose pc alone moves on.
LEMMA PcMoves ==
  ASSUME IInv, NEW c \in Call, call[c] # Idle, call[c].outcome = "none",
         NEW pc \in {"sent", "done", "failed"},
         \A k \in Key : call[c].read[k].state \notin {"asked", "answered"}
  PROVE  LET b == [call[c] EXCEPT !.pc = pc]
         IN  /\ b \in Running /\ Good(b, clock, past, config)
             /\ b.pc = pc /\ b.outcome = "none" /\ (HasAll(call[c]) => HasAll(b))
<1>. DEFINE a == call[c]
            b == [a EXCEPT !.pc = pc]
<1>1. a \in Running /\ Good(a, clock, past, config)
  BY CallType DEF IInv, CallsOK
<1>2. a.outcome = "none" /\ \A k \in Key : a.read[k].state \notin {"asked", "answered"}
  OBVIOUS
<1>. HIDE DEF a
<1>3. /\ b \in Running /\ b.pc = pc
      /\ b.request = a.request /\ b.read = a.read /\ b.outcome = a.outcome
  BY <1>1 DEF Running
<1>. HIDE DEF b
<1>4. Good(b, clock, past, config) /\ (HasAll(a) => HasAll(b))
  BY <1>1, <1>2, <1>3 DEF Good, InTurn, Ended, HasAll
<1>. QED
  BY <1>2, <1>3, <1>4 DEF a, b

LEMMA SendTransactionStep ==
  ASSUME IInv, NEW c \in Call, SendTransaction(c)
  PROVE  IInv'
<1>. DEFINE b == [call[c] EXCEPT !.pc = "sent"]
<1>1. /\ call' = [call EXCEPT ![c] = b] /\ pending' = pending \cup {c}
      /\ UNCHANGED <<clock, config, chain, cache>>
      /\ call[c] # Idle /\ call[c].pc = "reading" /\ HasAll(call[c])
  BY Begun DEF SendTransaction, HasRead, HasReturned, HasAll, IInv, TypeOK
<1>2. /\ call[c].outcome = "none"
      /\ \A k \in Key : call[c].read[k].state \notin {"asked", "answered"}
  BY <1>1 DEF IInv, CallsOK, Good, InTurn, Ended, HasAll
<1>3. /\ b \in Running /\ Good(b, clock, past, config)
      /\ b.pc = "sent" /\ b.outcome = "none" /\ HasAll(b)
  BY <1>1, <1>2, PcMoves
<1>4. cache' \in [Key -> Entry \cup {None}] /\ CacheOK'
  BY <1>1 DEF IInv, TypeOK, CacheOK, chain
<1>. HIDE DEF b
<1>. QED
  BY <1>1, <1>2, <1>3, <1>4, OnlyCall

LEMMA ConfirmTimesOutStep ==
  ASSUME IInv, NEW c \in Call, ConfirmTimesOut(c)
  PROVE  IInv'
<1>. DEFINE b == [call[c] EXCEPT !.pc = "failed"]
<1>1. /\ call' = [call EXCEPT ![c] = b] /\ call[c].pc = "sent" /\ call[c] # Idle
      /\ UNCHANGED <<clock, config, chain, cache, pending>>
  BY Begun DEF ConfirmTimesOut, IInv, TypeOK
<1>2. /\ call[c].outcome = "none"
      /\ \A k \in Key : call[c].read[k].state \notin {"asked", "answered"}
  BY <1>1 DEF IInv, CallsOK, Good, InTurn, Ended
<1>3. /\ b \in Running /\ Good(b, clock, past, config)
      /\ b.pc = "failed" /\ b.outcome = "none" /\ (c \in pending => HasAll(b))
  <2>1. c \in pending => HasAll(call[c])
    BY DEF IInv, TypeOK, HasAll
  <2>. QED
    BY <1>1, <1>2, <2>1, PcMoves
<1>4. cache' \in [Key -> Entry \cup {None}] /\ CacheOK'
  BY <1>1 DEF IInv, TypeOK, CacheOK, chain
<1>. HIDE DEF b
<1>. QED
  BY <1>1, <1>2, <1>3, <1>4, OnlyCall

LEMMA RequestFailsStep ==
  ASSUME IInv, NEW c \in Call, RequestFails(c)
  PROVE  IInv'
<1>. DEFINE a == call[c]
            read == [k \in Key |-> IF a.read[k].state \in {"asked", "answered"}
                                   THEN Failed ELSE a.read[k]]
            b == [a EXCEPT !.pc = "failed", !.read = read]
<1>1. /\ call' = [call EXCEPT ![c] = b] /\ a.pc = "reading" /\ a # Idle
      /\ UNCHANGED <<clock, config, chain, cache, pending>>
  BY Begun DEF RequestFails, IInv, TypeOK
<1>2. a \in Running /\ Good(a, clock, past, config) /\ c \notin pending
  BY <1>1, CallType DEF IInv, TypeOK, CallsOK
<1>. HIDE DEF a
<1>3. /\ read \in [Key -> Read]
      /\ \A k \in Key : /\ read[k].state = "idle" <=> a.read[k].state = "idle"
                        /\ read[k].state = "returned" <=> a.read[k].state = "returned"
                        /\ read[k].state \notin {"asked", "answered"}
                        /\ read[k] = a.read[k] \/ read[k] = Failed
  BY <1>2 DEF Running, Read, Failed
<1>. HIDE DEF read
<1>4. /\ b \in Running /\ b.pc = "failed"
      /\ b.request = a.request /\ b.read = read /\ b.outcome = a.outcome
  BY <1>2, <1>3 DEF Running
<1>. HIDE DEF b
<1>5. \A k \in Key : ReadOK(b.read[k], clock, past[k])
  BY <1>2, <1>3, <1>4 DEF Good, ReadOK, Failed
<1>6. InTurn(b) /\ Ended(b, config) /\ b.outcome = "none" /\ a.outcome = "none"
  BY <1>1, <1>2, <1>3, <1>4, KeyFacts DEF Good, InTurn, Ended
<1>7. Good(b, clock, past, config)
  BY <1>5, <1>6 DEF Good
<1>8. cache' \in [Key -> Entry \cup {None}] /\ CacheOK'
  BY <1>1 DEF IInv, TypeOK, CacheOK, chain
<1>. QED
  BY <1>1, <1>2, <1>4, <1>6, <1>7, <1>8, OnlyCall DEF a

-----------------------------------------------------------------------------
(* What the transaction of a call does.                                    *)

LEMMA BuildFacts ==
  ASSUME IInv, NEW c \in pending
  PROVE  /\ Harmless(Build(c), c, open)
         /\ \/ WellFormed(Build(c), open)
            \/ call[c].request.kind = "addOne" /\ call[c].request.side = config.wrapped
<1>. DEFINE r == call[c].request
<1>1. c \in Call /\ call[c] # Idle /\ call[c].outcome = "none"
  BY Begun DEF IInv, TypeOK
<1>2. Before(c, open)
  BY <1>1 DEF IInv, OpenOK, Before
<1>3. r \in Asking /\ r.kind \in {"add", "addOne", "remove", "withdrawOne", "swap"}
  BY <1>1, CallType DEF IInv, Kind
<1>. DEFINE tx == Build(c)
            fine == WellFormed(tx, open)
            but == r.kind = "addOne" /\ r.side = config.wrapped
<1>4. /\ r.kind = "add" => tx = AddLiquidity(config, c, r)
      /\ r.kind = "addOne" => tx = AddSingleSidedLiquidity(config, c, r)
      /\ r.kind = "remove" => tx = RemoveLiquidity(config, c, r)
      /\ r.kind = "withdrawOne" => tx = WithdrawSingleSidedLiquidity(config, c, r)
      /\ r.kind = "swap" => tx = Swap(config, c, r)
  BY DEF Build
<1>. HIDE DEF tx, r
<1>5. CASE r.kind = "add"
  BY <1>1, <1>2, <1>3, <1>4, <1>5, AddLiquidityIsSound DEF r, tx
<1>6. CASE r.kind = "addOne"
  BY <1>1, <1>2, <1>3, <1>4, <1>6, AddSingleSidedLiquidityIsSound DEF r, tx
<1>7. CASE r.kind = "remove"
  BY <1>1, <1>2, <1>3, <1>4, <1>7, RemoveLiquidityIsSound DEF r, tx
<1>8. CASE r.kind = "withdrawOne"
  BY <1>1, <1>2, <1>3, <1>4, <1>8, WithdrawSingleSidedLiquidityIsSound DEF r, tx
<1>9. CASE r.kind = "swap"
  BY <1>1, <1>2, <1>3, <1>4, <1>9, SwapIsSound DEF r, tx
<1>. QED
  BY <1>3, <1>5, <1>6, <1>7, <1>8, <1>9

\* The pool becomes what it may be.
LEMMA SetPoolFacts ==
  ASSUME IInv, NEW p \in [Key -> Nat \ {0}], SetPool(p), clock' = clock
  PROVE  /\ pool' \in [Key -> Nat \ {0}] /\ past' \in [Key -> SUBSET (Nat \X Nat)]
         /\ PastOK' /\ \A k \in Key : past[k] \subseteq past'[k]
<1>1. /\ pool' = p /\ past' = [k \in Key |-> past[k] \cup {<<p[k], clock>>}]
      /\ clock \in Nat /\ past \in [Key -> SUBSET (Nat \X Nat)]
  BY DEF SetPool, IInv, TypeOK
<1>2. \A k \in Key : p[k] \in Nat \ {0}
  OBVIOUS
<1>3. past' \in [Key -> SUBSET (Nat \X Nat)] /\ \A k \in Key : past[k] \subseteq past'[k]
  BY <1>1, <1>2
<1>4. PastOK'
  <2>1. ASSUME NEW k \in Key, NEW q \in past'[k]
        PROVE  q \in (Nat \ {0}) \X Nat /\ q[2] <= clock
    <3>1. CASE q \in past[k]
      BY <3>1 DEF IInv, PastOK
    <3>2. CASE q = <<p[k], clock>>
      BY <1>1, <1>2, <3>2
    <3>. QED
      BY <1>1, <2>1, <3>1, <3>2
  <2>. QED
    BY <1>1, <2>1 DEF PastOK
<1>. QED
  BY <1>1, <1>3, <1>4

\* How dear the pool has become for a deposit.
DearerThan(c) ==
  \E k \in Side :
    pool[k] * call[c].read["mint"].value * (SlipUnit - call[c].request.slip)
      > call[c].read[k].value * pool["mint"] * SlipUnit

LEMMA ExecutedStep ==
  ASSUME IInv, NEW c \in pending,
         NEW outcome \in {"ok", "malformed", "slippage", "refused"}, Executed(c, outcome),
         outcome = "malformed" =>
           call[c].request.kind = "addOne" /\ call[c].request.side = config.wrapped,
         outcome = "slippage" => call[c].request.kind = "add" /\ DearerThan(c),
         pool' \in [Key -> Nat \ {0}], past' \in [Key -> SUBSET (Nat \X Nat)],
         PastOK', \A k \in Key : past[k] \subseteq past'[k]
  PROVE  IInv'
<1>. DEFINE a == call[c]
            found == IF a.request.kind = "add" THEN pool ELSE a.found
            pc == IF a.pc # "sent" THEN a.pc ELSE IF outcome = "ok" THEN "done" ELSE "failed"
            b == [a EXCEPT !.outcome = outcome, !.found = found, !.pc = pc]
<1>1. c \in Call /\ a # Idle /\ a.outcome = "none" /\ a.pc \in {"sent", "failed"} /\ HasAll(a)
  BY Begun DEF IInv, TypeOK, HasAll
<1>2. a \in Running /\ Good(a, clock, past, config)
  BY <1>1, CallType DEF IInv, CallsOK
<1>3. call' = [call EXCEPT ![c] = b]
  BY DEF Executed, IInv, TypeOK
<1>4. /\ pending' = pending \ {c} /\ UNCHANGED <<clock, config, cache, trades>>
      /\ IF outcome = "ok"
         THEN /\ open' = OpenAfter(Build(c), open)
              /\ approved' = approved \cup LeftApproved(Build(c))
         ELSE UNCHANGED <<open, approved>>
  BY DEF Executed
<1>5. found \in [Key -> Nat] /\ pc \in {"done", "failed"}
  <2>1. pool \in [Key -> Nat] /\ a.found \in [Key -> Nat]
    BY <1>2 DEF IInv, TypeOK, Running
  <2>. QED
    BY <1>1, <2>1
<1>6. DearerThan(c) /\ a.request.kind = "add" =>
        \E k \in Side :
          found[k] * a.read["mint"].value * (SlipUnit - a.request.slip)
            > a.read[k].value * found["mint"] * SlipUnit
  BY DEF DearerThan
<1>. HIDE DEF found, pc
<1>7. /\ b.request = a.request /\ b.read = a.read
      /\ b.outcome = outcome /\ b.found = found /\ b.pc = pc /\ b \in Running
  BY <1>2, <1>5 DEF Running
<1>. HIDE DEF b
<1>8. Good(b, clock, past, config)
  <2>1. \A k \in Key : ReadOK(b.read[k], clock, past[k])
    BY <1>2, <1>7 DEF Good
  <2>2. InTurn(b)
    BY <1>1, <1>2, <1>7 DEF Good, InTurn
  <2>3. Ended(b, config)
    <3>1. b.pc \in {"done", "failed"} /\ HasAll(b)
      BY <1>1, <1>5, <1>7 DEF HasAll
    <3>2. b.outcome = "malformed" =>
            b.request.kind = "addOne" /\ b.request.side = config.wrapped
      BY <1>7
    <3>3. b.outcome = "slippage" => Dearer(b)
      BY <1>6, <1>7 DEF Dearer
    <3>. QED
      BY <3>1, <3>2, <3>3 DEF Ended
  <2>. QED
    BY <2>1, <2>2, <2>3 DEF Good
<1>9. clock' \in Nat /\ clock <= clock' /\ config' = config
  BY <1>4 DEF IInv, TypeOK
<1>10. CallsOK'
  <2>1. clock \in Nat
    BY DEF IInv, TypeOK
  <2>2. Good(b, clock', past', config')
    BY <1>4, <1>7, <1>8, <1>9, <2>1, GoodStable
  <2>. QED
    BY <1>1, <1>3, <1>9, <2>2, CallsStable DEF IInv
<1>11. /\ call'[c] = b /\ call' \in [Call -> Running \cup {Idle}]
       /\ \A e \in Call \ {c} : call'[e] = call[e]
  BY <1>1, <1>3, <1>7 DEF IInv, TypeOK
<1>12. /\ approved' = {} /\ open' \subseteq open \cup {<<c, "LP">>} /\ open \subseteq open'
  BY <1>4, BuildFacts DEF Harmless, IInv, OpenOK, NothingLeftBehind
<1>13. OpenOK'
  <2>1. ASSUME NEW e \in Call, call'[e] = Idle \/ call'[e].outcome = "none",
               NEW k \in {"A", "B", "LP"}
        PROVE  <<e, k>> \notin open'
    <3>1. b # Idle /\ b.outcome # "none"
      BY <1>7 DEF Running, Idle
    <3>2. e # c /\ call'[e] = call[e]
      BY <1>11, <2>1, <3>1
    <3>3. <<e, k>> \notin open
      BY <2>1, <3>2 DEF IInv, OpenOK
    <3>. QED
      BY <1>12, <3>2, <3>3
  <2>2. NothingLeftBehind'
    BY <1>1, <1>12 DEF IInv, OpenOK, NothingLeftBehind
  <2>. QED
    BY <1>12, <2>1, <2>2 DEF IInv, OpenOK
<1>14. CacheOK'
  BY <1>4 DEF IInv, TypeOK, CacheOK, EntryOK
<1>15. TypeOK'
  <2>1. open' \subseteq (Call \cup {User}) \X {"A", "B", "LP"}
    BY <1>1, <1>12 DEF IInv, TypeOK
  <2>2. ASSUME NEW e \in pending'
        PROVE  /\ call'[e].pc \in {"sent", "failed"} /\ call'[e].outcome = "none"
               /\ \A k \in Needs(call'[e].request.kind) : call'[e].read[k].state = "returned"
    <3>1. e \in Call \ {c} /\ e \in pending /\ call'[e] = call[e]
      BY <1>4, <1>11, <2>2 DEF IInv, TypeOK
    <3>. QED
      BY <3>1 DEF IInv, TypeOK
  <2>3. /\ clock' \in Nat /\ config' \in Config /\ trades' \in Nat
        /\ cache' \in [Key -> Entry \cup {None}] /\ pending' \subseteq Call
    BY <1>4 DEF IInv, TypeOK
  <2>. QED
    BY <1>11, <1>12, <2>1, <2>2, <2>3 DEF TypeOK
<1>. QED
  BY <1>10, <1>13, <1>14, <1>15 DEF IInv

-----------------------------------------------------------------------------
(* Deposits: what the tolerance is worth.                                  *)

LEMMA Division ==
  ASSUME NEW x \in Nat, NEW n \in Nat \ {0}
  PROVE  /\ x \div n \in Nat /\ n * (x \div n) <= x /\ x < n * (x \div n) + n
  OBVIOUS

LEMMA Product ==
  ASSUME NEW x \in Nat, NEW y \in Nat
  PROVE  x * y \in Nat /\ (x * y = 0 <=> x = 0 \/ y = 0)
  OBVIOUS

LEMMA Larger ==
  ASSUME NEW x \in Nat, NEW y \in Nat, NEW z \in Nat, x <= y
  PROVE  z * x <= z * y
  OBVIOUS

LEMMA StrictlyLarger ==
  ASSUME NEW x \in Nat, NEW y \in Nat, NEW z \in Nat \ {0}
  PROVE  x < y <=> z * x < z * y
  OBVIOUS

\* A price above x was not rounded up to it.
LEMMA CeilDivFacts ==
  ASSUME NEW x \in Nat, NEW n \in Nat \ {0}
  PROVE  /\ CeilDiv(x, n) \in Nat
         /\ \A y \in Nat : CeilDiv(x, n) > y => x > n * y
<1>1. x + n - 1 \in Nat
  OBVIOUS
<1>. DEFINE q == CeilDiv(x, n)
<1>2. q \in Nat /\ n * q <= x + n - 1
  BY <1>1, Division DEF CeilDiv
<1>. HIDE DEF q
<1>3. ASSUME NEW y \in Nat, q > y
      PROVE  x > n * y
  <2>1. n * (y + 1) <= n * q
    BY <1>2, <1>3, Larger
  <2>2. n * (y + 1) = n * y + n
    OBVIOUS
  <2>3. n * y \in Nat /\ n * q \in Nat
    BY <1>2, Product
  <2>. QED
    BY <1>2, <2>1, <2>2, <2>3
<1>. QED
  BY <1>2, <1>3 DEF q

\* If what l pool tokens cost of a pool that holds p for n of them is more than the
\* amount a, of which l is what a is worth less a part of e / f, p / n is more than
\* e / f.
LEMMA CostsMore ==
  ASSUME NEW l \in Nat \ {0}, NEW p \in Nat, NEW n \in Nat \ {0}, NEW a \in Nat,
         NEW e \in Nat, NEW f \in Nat \ {0},
         l <= (a * e) \div f, CeilDiv(l * p, n) > a
  PROVE  e * p > f * n
<1>1. l * p \in Nat /\ a * e \in Nat /\ n * a \in Nat /\ f * l \in Nat
  BY Product
<1>2. l * p > n * a
  BY <1>1, CeilDivFacts
<1>3. f * l <= a * e
  <2>1. f * l <= f * ((a * e) \div f)
    BY <1>1, Division, Larger
  <2>2. (a * e) \div f \in Nat /\ f * ((a * e) \div f) <= a * e
    BY <1>1, Division
  <2>3. f * ((a * e) \div f) \in Nat
    BY <2>2, Product
  <2>. QED
    BY <1>1, <2>1, <2>2, <2>3
<1>4. e # 0
  BY <1>3, Product
<1>5. e * (n * a) < e * (l * p)
  BY <1>1, <1>2, <1>4, StrictlyLarger
<1>6. n * (f * l) <= n * (a * e)
  BY <1>1, <1>3, Larger
<1>7. e * (n * a) = n * (a * e) /\ e * (l * p) = l * (e * p) /\ n * (f * l) = l * (f * n)
  OBVIOUS
<1>8. l * (f * n) < l * (e * p)
  <2>1. n * (f * l) \in Nat /\ n * (a * e) \in Nat /\ e * (l * p) \in Nat
    BY <1>1, Product
  <2>. QED
    BY <1>5, <1>6, <1>7, <2>1
<1>9. f * n \in Nat /\ e * p \in Nat
  BY Product
<1>. QED
  BY <1>8, <1>9, StrictlyLarger

\* What is known of a deposit that is executed: what it was built of.
LEMMA UsedFacts ==
  ASSUME IInv, NEW c \in pending, call[c].request.kind = "add"
  PROVE  \A k \in Key : Used(c)[k] = call[c].read[k].value /\ Used(c)[k] \in Nat \ {0}
<1>1. c \in Call /\ call[c] # Idle /\ \A k \in Key : call[c].read[k].state = "returned"
  BY Begun DEF IInv, TypeOK, Needs
<1>2. ASSUME NEW k \in Key
      PROVE  call[c].read[k].value \in Nat \ {0}
  <2>1. call[c].read[k] \in Read /\ call[c].read[k].state = "returned"
    BY <1>1, CallType DEF IInv
  <2>2. call[c].read[k].value \in Nat
    BY <2>1, ReadCases
  <2>3. ReadOK(call[c].read[k], clock, past[k])
    BY <1>1 DEF IInv, CallsOK, Good
  <2>. QED
    BY <2>1, <2>2, <2>3 DEF ReadOK
<1>. QED
  BY <1>2 DEF Used

LEMMA LiquidityFacts ==
  ASSUME NEW r \in Asking, NEW used, \A k \in Key : used[k] \in Nat \ {0}
  PROVE  /\ Liquidity(r, used) \in Nat
         /\ \A k \in Side :
              Liquidity(r, used)
                <= (r.amounts[k] * ((SlipUnit - r.slip) * used["mint"]))
                     \div (SlipUnit * used[k])
<1>. DEFINE e == (SlipUnit - r.slip) * used["mint"]
            Worth(k) == (r.amounts[k] * (SlipUnit - r.slip) * used["mint"])
                          \div (SlipUnit * used[k])
            worth(k) == (r.amounts[k] * e) \div (SlipUnit * used[k])
<1>1. SlipUnit \in Nat \ {0} /\ SlipUnit - r.slip \in Nat
  BY SlipAssumption DEF Asking
<1>2. used["mint"] \in Nat \ {0} /\ e \in Nat
  BY <1>1, KeyFacts, Product
<1>3. ASSUME NEW k \in Side
      PROVE  Worth(k) = worth(k) /\ worth(k) \in Nat
  <2>1. r.amounts[k] \in Nat
    BY DEF Asking
  <2>2. r.amounts[k] * (SlipUnit - r.slip) * used["mint"] = r.amounts[k] * e
    BY <1>1, <1>2, <2>1
  <2>. HIDE DEF e
  <2>3. used[k] \in Nat \ {0} /\ SlipUnit * used[k] \in Nat \ {0} /\ r.amounts[k] * e \in Nat
    BY <1>1, <1>2, <2>1, KeyFacts, Product
  <2>. QED
    BY <2>2, <2>3, Division
<1>4. Liquidity(r, used) = Min(Worth("A"), Worth("B"))
  BY DEF Liquidity
<1>. HIDE DEF Worth, worth
<1>5. Liquidity(r, used) = Min(worth("A"), worth("B"))
  BY <1>3, <1>4, KeyFacts
<1>6. /\ Liquidity(r, used) \in Nat
      /\ Liquidity(r, used) <= worth("A") /\ Liquidity(r, used) <= worth("B")
  BY <1>3, <1>5, KeyFacts DEF Min
<1>7. \A k \in Side : Liquidity(r, used) <= worth(k)
  BY <1>6, KeyFacts
<1>. QED
  BY <1>6, <1>7 DEF worth

\* Of a deposit's outcome and the pool it leaves.
LEMMA DepositFacts ==
  ASSUME IInv, NEW c \in pending, call[c].request.kind = "add"
  PROVE  /\ Deposit(c).outcome \in {"ok", "slippage", "refused"}
         /\ Deposit(c).pool \in [Key -> Nat \ {0}]
         /\ Deposit(c).outcome = "slippage" => DearerThan(c)
<1>. DEFINE r == call[c].request
            liquidity == Liquidity(r, Used(c))
            took == [k \in Side |-> Price(liquidity, k)]
            after == [k \in Key |-> pool[k] + IF k = "mint" THEN liquidity ELSE took[k]]
            outcome == IF liquidity = 0 THEN "refused"
                       ELSE IF \E k \in Side : took[k] > r.amounts[k] THEN "slippage"
                       ELSE "ok"
<1>1. Deposit(c).outcome = outcome /\ Deposit(c).pool = after
  BY DEF Deposit
<1>2. r \in Asking /\ \A k \in Side : r.amounts[k] \in Nat
  <2>1. c \in Call /\ call[c] # Idle
    BY Begun DEF IInv, TypeOK
  <2>. QED
    BY <2>1, CallType DEF IInv, Asking
<1>3. \A k \in Key : pool[k] \in Nat \ {0}
  BY DEF IInv, TypeOK
<1>4. \A k \in Key : Used(c)[k] = call[c].read[k].value /\ Used(c)[k] \in Nat \ {0}
  BY UsedFacts
<1>5. liquidity \in Nat
  BY <1>2, <1>4, LiquidityFacts
<1>6. \A k \in Side : took[k] \in Nat
  <2>1. ASSUME NEW k \in Side
        PROVE  Price(liquidity, k) \in Nat
    <3>1. liquidity * pool[k] \in Nat /\ pool["mint"] \in Nat \ {0}
      BY <1>3, <1>5, KeyFacts, Product
    <3>. QED
      BY <3>1, CeilDivFacts DEF Price
  <2>. QED
    BY <2>1
<1>7. after \in [Key -> Nat \ {0}]
  <2>1. ASSUME NEW k \in Key
        PROVE  pool[k] + (IF k = "mint" THEN liquidity ELSE took[k]) \in Nat \ {0}
    <3>1. (IF k = "mint" THEN liquidity ELSE took[k]) \in Nat
      BY <1>5, <1>6, KeyFacts
    <3>. QED
      BY <1>3, <3>1
  <2>. QED
    BY <2>1
<1>8. ASSUME liquidity # 0, NEW k \in Side, took[k] > r.amounts[k]
      PROVE  DearerThan(c)
  <2>. DEFINE u == Used(c)[k]
              m == Used(c)["mint"]
              rest == SlipUnit - r.slip
              e == rest * m
              f == SlipUnit * u
              p == pool[k]
              n == pool["mint"]
              x == r.amounts[k]
  <2>1. /\ u \in Nat \ {0} /\ m \in Nat \ {0} /\ p \in Nat \ {0} /\ n \in Nat \ {0}
        /\ rest \in Nat /\ SlipUnit \in Nat \ {0} /\ x \in Nat
    BY <1>2, <1>3, <1>4, KeyFacts, SlipAssumption DEF Asking
  <2>2. liquidity <= (x * e) \div f
    BY <1>2, <1>4, LiquidityFacts
  <2>3. CeilDiv(liquidity * p, n) > x
    BY <1>8 DEF Price
  <2>. HIDE DEF u, m, rest, p, n, x, liquidity, r
  <2>4. e \in Nat /\ f \in Nat \ {0}
    BY <2>1, Product
  <2>5. e * p > f * n
    <3>. HIDE DEF e, f
    <3>. QED
      BY <1>5, <1>8, <2>1, <2>2, <2>3, <2>4, CostsMore
  <2>6. e * p = p * m * rest /\ f * n = u * n * SlipUnit
    BY <2>1
  <2>7. p * m * rest > u * n * SlipUnit
    BY <2>5, <2>6
  <2>. QED
    BY <1>4, <2>7, KeyFacts DEF DearerThan, u, m, rest, p, n, r
<1>. HIDE DEF after, liquidity, took
<1>. QED
  BY <1>1, <1>7, <1>8

LEMMA DepositLandsStep ==
  ASSUME IInv, NEW c \in Call, DepositLands(c)
  PROVE  IInv'
<1>. DEFINE deposit == Deposit(c)
<1>1. /\ c \in pending /\ call[c].request.kind = "add" /\ Executed(c, deposit.outcome)
      /\ IF deposit.outcome = "ok" THEN SetPool(deposit.pool) ELSE UNCHANGED <<pool, past>>
  BY DEF DepositLands
<1>2. /\ deposit.outcome \in {"ok", "slippage", "refused"}
      /\ deposit.pool \in [Key -> Nat \ {0}]
      /\ deposit.outcome = "slippage" => DearerThan(c)
  BY <1>1, DepositFacts
<1>. HIDE DEF deposit
<1>3. clock' = clock
  BY <1>1 DEF Executed
<1>4. /\ pool' \in [Key -> Nat \ {0}] /\ past' \in [Key -> SUBSET (Nat \X Nat)]
      /\ PastOK' /\ \A k \in Key : past[k] \subseteq past'[k]
  <2>1. CASE deposit.outcome = "ok"
    BY <1>1, <1>2, <1>3, <2>1, SetPoolFacts
  <2>2. CASE deposit.outcome # "ok"
    BY <1>1, <1>3, <2>2 DEF IInv, TypeOK, PastOK
  <2>. QED
    BY <2>1, <2>2
<1>. QED
  BY <1>1, <1>2, <1>4, ExecutedStep

LEMMA OtherLandsStep ==
  ASSUME IInv, NEW c \in Call, OtherLands(c)
  PROVE  IInv'
<1>1. PICK p \in PoolState : SetPool(p)
  BY DEF OtherLands
<1>2. c \in pending /\ Executed(c, "ok") /\ p \in [Key -> Nat \ {0}]
  BY PoolAssumption DEF OtherLands
<1>3. clock' = clock
  BY <1>2 DEF Executed
<1>4. /\ pool' \in [Key -> Nat \ {0}] /\ past' \in [Key -> SUBSET (Nat \X Nat)]
      /\ PastOK' /\ \A k \in Key : past[k] \subseteq past'[k]
  BY <1>1, <1>2, <1>3, SetPoolFacts
<1>. QED
  BY <1>2, <1>4, ExecutedStep

LEMMA TransactionErrsStep ==
  ASSUME IInv, NEW c \in Call, TransactionErrs(c)
  PROVE  IInv'
<1>. DEFINE outcome == IF WellFormed(Build(c), open) THEN "refused" ELSE "malformed"
<1>1. c \in pending /\ Executed(c, outcome) /\ UNCHANGED <<pool, past>>
  BY DEF TransactionErrs
<1>2. outcome = "malformed" =>
        call[c].request.kind = "addOne" /\ call[c].request.side = config.wrapped
  BY <1>1, BuildFacts
<1>3. outcome \in {"refused", "malformed"}
  OBVIOUS
<1>. HIDE DEF outcome
<1>4. clock' = clock
  BY <1>1 DEF Executed
<1>5. /\ pool' \in [Key -> Nat \ {0}] /\ past' \in [Key -> SUBSET (Nat \X Nat)]
      /\ PastOK' /\ \A k \in Key : past[k] \subseteq past'[k]
  BY <1>1, <1>4 DEF IInv, TypeOK, PastOK
<1>. QED
  BY <1>1, <1>2, <1>3, <1>5, ExecutedStep

-----------------------------------------------------------------------------
(* Others, and time.                                                       *)

\* The calls and the cache stay as they are while the chain goes on.
LEMMA ChainStep ==
  ASSUME IInv, UNCHANGED <<config, open, approved, cache, call, pending>>,
         clock' \in Nat, clock <= clock', trades' \in Nat,
         pool' \in [Key -> Nat \ {0}], past' \in [Key -> SUBSET (Nat \X Nat)],
         PastOK', \A k \in Key : past[k] \subseteq past'[k]
  PROVE  IInv'
<1>1. TypeOK'
  BY DEF IInv, TypeOK
<1>2. CallsOK'
  BY CallsIdle DEF IInv
<1>3. CacheOK'
  BY DEF IInv, TypeOK, CacheOK, EntryOK
<1>4. OpenOK'
  BY DEF IInv, OpenOK, NothingLeftBehind
<1>. QED
  BY <1>1, <1>2, <1>3, <1>4 DEF IInv

LEMMA OthersTradeStep ==
  ASSUME IInv, NEW p \in PoolState, OthersTrade(p)
  PROVE  IInv'
<1>1. /\ SetPool(p) /\ p \in [Key -> Nat \ {0}] /\ trades' = trades + 1
      /\ UNCHANGED <<clock, config, open, approved, cache, call, pending>>
  BY PoolAssumption DEF OthersTrade
<1>2. /\ pool' \in [Key -> Nat \ {0}] /\ past' \in [Key -> SUBSET (Nat \X Nat)]
      /\ PastOK' /\ \A k \in Key : past[k] \subseteq past'[k]
  BY <1>1, SetPoolFacts
<1>3. clock' \in Nat /\ clock <= clock' /\ trades' \in Nat
  BY <1>1 DEF IInv, TypeOK
<1>. QED
  BY <1>1, <1>2, <1>3, ChainStep

LEMMA TickStep ==
  ASSUME IInv, Tick
  PROVE  IInv'
<1>1. /\ clock' = clock + 1 /\ clock \in Nat /\ past \in [Key -> SUBSET (Nat \X Nat)]
      /\ past' = [k \in Key |-> past[k] \cup {<<pool[k], clock + 1>>}]
      /\ pool \in [Key -> Nat \ {0}] /\ trades' \in Nat
      /\ UNCHANGED <<config, pool, open, approved, cache, call, pending>>
  BY DEF Tick, IInv, TypeOK
<1>2. past' \in [Key -> SUBSET (Nat \X Nat)] /\ \A k \in Key : past[k] \subseteq past'[k]
  BY <1>1
<1>3. PastOK'
  <2>1. ASSUME NEW k \in Key, NEW q \in past'[k]
        PROVE  q \in (Nat \ {0}) \X Nat /\ q[2] <= clock'
    <3>1. CASE q \in past[k]
      BY <1>1, <3>1 DEF IInv, PastOK
    <3>2. CASE q = <<pool[k], clock + 1>>
      BY <1>1, <3>2
    <3>. QED
      BY <1>1, <2>1, <3>1, <3>2
  <2>. QED
    BY <1>1, <2>1 DEF PastOK
<1>. QED
  BY <1>1, <1>2, <1>3, ChainStep

-----------------------------------------------------------------------------
(* The theorems.                                                           *)

LEMMA InitInvariant == Init => IInv
<1>. SUFFICES ASSUME Init PROVE IInv
  OBVIOUS
<1>1. pool \in [Key -> Nat \ {0}] /\ clock \in Nat /\ config \in Config
  BY PoolAssumption, TimeAssumption DEF Init
<1>2. TypeOK
  <2>1. past \in [Key -> SUBSET (Nat \X Nat)]
    BY <1>1 DEF Init
  <2>2. open \subseteq (Call \cup {User}) \X {"A", "B", "LP"}
    BY DEF Init, UserAccounts
  <2>. QED
    BY <1>1, <2>1, <2>2 DEF Init, TypeOK
<1>3. PastOK
  BY <1>1 DEF Init, PastOK
<1>4. CacheOK /\ CallsOK
  BY DEF Init, CacheOK, CallsOK
<1>5. OpenOK
  BY UserAssumption DEF Init, OpenOK, NothingLeftBehind, UserAccounts
<1>. QED
  BY <1>2, <1>3, <1>4, <1>5 DEF IInv

LEMMA NextInvariant == IInv /\ [Next]_vars => IInv'
<1>. SUFFICES ASSUME IInv, [Next]_vars PROVE IInv'
  OBVIOUS
<1>1. ASSUME NEW c \in Call, NEW r \in Request[c], Begin(c, r)
      PROVE  IInv'
  BY <1>1, BeginStep
<1>2. ASSUME NEW c \in Call, NEW k \in Key, NodeReads(c, k)
      PROVE  IInv'
  BY <1>2, NodeReadsStep
<1>3. ASSUME NEW c \in Call, NEW k \in Key, StoreInCache(c, k)
      PROVE  IInv'
  BY <1>3, StoreInCacheStep
<1>4. ASSUME NEW c \in Call, NEW k \in Key, ReadHolding(c, k)
      PROVE  IInv'
  BY <1>4, ReadHoldingStep
<1>5. ASSUME NEW c \in Call, SendTransaction(c)
      PROVE  IInv'
  BY <1>5, SendTransactionStep
<1>6. ASSUME NEW c \in Call, RequestFails(c)
      PROVE  IInv'
  BY <1>6, RequestFailsStep
<1>7. ASSUME NEW c \in Call, ConfirmTimesOut(c)
      PROVE  IInv'
  BY <1>7, ConfirmTimesOutStep
<1>8. ASSUME NEW c \in Call, DepositLands(c)
      PROVE  IInv'
  BY <1>8, DepositLandsStep
<1>9. ASSUME NEW c \in Call, OtherLands(c)
      PROVE  IInv'
  BY <1>9, OtherLandsStep
<1>10. ASSUME NEW c \in Call, TransactionErrs(c)
       PROVE  IInv'
  BY <1>10, TransactionErrsStep
<1>11. ASSUME NEW p \in PoolState, OthersTrade(p)
       PROVE  IInv'
  BY <1>11, OthersTradeStep
<1>12. CASE Tick
  BY <1>12, TickStep
<1>13. CASE UNCHANGED vars
  <2>1. /\ UNCHANGED <<config, open, approved, cache, call, pending>>
        /\ UNCHANGED <<clock, pool, past, trades>>
    BY <1>13 DEF vars
  <2>2. /\ clock' \in Nat /\ clock <= clock' /\ trades' \in Nat
        /\ pool' \in [Key -> Nat \ {0}] /\ past' \in [Key -> SUBSET (Nat \X Nat)]
        /\ PastOK' /\ \A k \in Key : past[k] \subseteq past'[k]
    BY <2>1 DEF IInv, TypeOK, PastOK
  <2>. QED
    BY <2>1, <2>2, ChainStep
<1>. QED
  BY <1>1, <1>2, <1>3, <1>4, <1>5, <1>6, <1>7, <1>8, <1>9, <1>10, <1>11, <1>12, <1>13
     DEF Next

\* The inductive invariant: what the chain had, what the cache and the calls know of
\* it, and what the transactions of the calls leave.
THEOREM Invariance == Spec => []IInv
<1>. QED
  BY InitInvariant, NextInvariant, PTL DEF Spec

\* Type correctness: whatever a pool is, however calls overlap and whenever their
\* transactions land, the cache and the calls hold what their readers take them to
\* hold, a transaction is in flight only for a call that has read what it needs, and
\* no deposit makes a pool that holds nothing.
THEOREM TypeCorrect == Spec => []TypeOK
<1>1. IInv => TypeOK
  BY DEF IInv
<1>. QED
  BY <1>1, Invariance, PTL

\* For any number of overlapping calls of every kind, in pools of either version and
\* with either token wrapped, no transaction leaves an approval on an account, or an
\* account that was made to wrap SOL.
THEOREM LeavesNothingBehind == Spec => []NothingLeftBehind
<1>1. IInv => NothingLeftBehind
  BY DEF IInv, OpenOK
<1>. QED
  BY <1>1, Invariance, PTL

\* No transaction is refused for how it was built, except that of a deposit of
\* wrapped SOL alone: each account is there before it is used, each new key pair
\* has signed, and the program may take what it is told to.
THEOREM RefusedByThePoolOnly == Spec => []OnlyThePoolRefuses
<1>1. IInv => OnlyThePoolRefuses
  BY DEF IInv, CallsOK, Good, Ended, OnlyThePoolRefuses
<1>. QED
  BY <1>1, Invariance, PTL

\* A deposit is refused for slippage only if one of the tokens per pool token has
\* become dearer by more than the tolerance since the call read it, for every pool,
\* amount and tolerance: neither the age of what it read nor the two roundings, of
\* the pool tokens asked for and of what is taken for them, are to blame.
THEOREM ToleratesSlippage == Spec => []SlippageIsTolerated
<1>1. IInv => SlippageIsTolerated
  <2>. SUFFICES ASSUME IInv, NEW c \in Call, call[c] # Idle,
                       call[c].request.kind = "add", call[c].outcome = "slippage"
                PROVE  \E k \in Side :
                         call[c].found[k] * Used(c)["mint"]
                             * (SlipUnit - call[c].request.slip)
                           > Used(c)[k] * call[c].found["mint"] * SlipUnit
    BY DEF SlippageIsTolerated
  <2>1. Dearer(call[c])
    BY DEF IInv, CallsOK, Good, Ended
  <2>2. \A k \in Key : Used(c)[k] = call[c].read[k].value
    BY DEF Used
  <2>. QED
    BY <2>1, <2>2, KeyFacts DEF Dearer
<1>. QED
  BY <1>1, Invariance, PTL

-----------------------------------------------------------------------------
(* The cache implements reads of bounded staleness.                        *)

AllReads == [r \in Call \X Key |-> ReadOf(r[1], r[2])]

\* A read of the key k, as its caller sees it.
Show(read, k) ==
  CASE read.state \in {"asked", "answered"} ->
         [state |-> "asked", key |-> k, tolerance |-> read.duration, start |-> read.start]
    [] read.state = "returned" ->
         [state |-> "returned", key |-> k, tolerance |-> read.duration,
          value |-> read.value]
    [] read.state \in {"idle", "failed"} -> read

LEMMA ShowFacts ==
  ASSUME NEW read \in Read, NEW k
  PROVE  /\ read.state \in {"asked", "answered"} =>
              Show(read, k) = [state |-> "asked", key |-> k, tolerance |-> read.duration,
                               start |-> read.start]
         /\ read.state = "returned" =>
              Show(read, k) = [state |-> "returned", key |-> k,
                               tolerance |-> read.duration, value |-> read.value]
         /\ read.state \in {"idle", "failed"} => Show(read, k) = read
<1>1. CASE read.state \in {"asked", "answered"}
  BY <1>1 DEF Show
<1>2. CASE read.state = "returned"
  BY <1>2 DEF Show
<1>3. CASE read.state \in {"idle", "failed"}
  BY <1>3 DEF Show
<1>. QED
  BY <1>1, <1>2, <1>3

LEMMA ReadOfShows ==
  ASSUME NEW c, NEW k
  PROVE  /\ ReadOf(c, k) = IF call[c] = Idle THEN Unread ELSE Show(call[c].read[k], k)
         /\ ReadOf(c, k)' = IF call'[c] = Idle THEN Unread ELSE Show(call'[c].read[k], k)
<1>1. ReadOf(c, k) = IF call[c] = Idle THEN Unread ELSE Show(call[c].read[k], k)
  BY DEF ReadOf, Show
<1>2. ReadOf(c, k)' = IF call'[c] = Idle THEN Unread ELSE Show(call'[c].read[k], k)
  BY DEF ReadOf, Show
<1>. QED
  BY <1>1, <1>2

\* If only c changes, only its reads do.
LEMMA CallShows ==
  ASSUME TypeOK, NEW c \in Call, NEW b \in Running, call' = [call EXCEPT ![c] = b]
  PROVE  /\ \A l \in Key : ReadOf(c, l)' = Show(b.read[l], l)
         /\ \A e \in Call \ {c} : \A l \in Key : ReadOf(e, l)' = ReadOf(e, l)
<1>1. call'[c] = b /\ b # Idle /\ \A e \in Call \ {c} : call'[e] = call[e]
  BY DEF TypeOK, Running, Idle
<1>2. ASSUME NEW l \in Key
      PROVE  ReadOf(c, l)' = Show(b.read[l], l)
  BY <1>1, ReadOfShows
<1>3. ASSUME NEW e \in Call \ {c}, NEW l \in Key
      PROVE  ReadOf(e, l)' = ReadOf(e, l)
  BY <1>1, ReadOfShows
<1>. QED
  BY <1>2, <1>3

\* One read changes.
LEMMA OneRead ==
  ASSUME NEW c \in Call, NEW k \in Key,
         \A e \in Call, l \in Key : <<e, l>> # <<c, k>> => ReadOf(e, l)' = ReadOf(e, l)
  PROVE  AllReads' = [AllReads EXCEPT ![<<c, k>>] = ReadOf(c, k)']
<1>1. AllReads' = [r \in Call \X Key |-> ReadOf(r[1], r[2])']
  BY DEF AllReads
<1>2. ASSUME NEW r \in Call \X Key
      PROVE  ReadOf(r[1], r[2])'
               = IF r = <<c, k>> THEN ReadOf(c, k)' ELSE ReadOf(r[1], r[2])
  <2>1. r = <<r[1], r[2]>> /\ r[1] \in Call /\ r[2] \in Key
    OBVIOUS
  <2>2. CASE r = <<c, k>>
    <3>1. r[1] = c /\ r[2] = k
      BY <2>2
    <3>. QED
      BY <2>2, <3>1
  <2>3. CASE r # <<c, k>>
    BY <2>1, <2>3
  <2>. QED
    BY <2>2, <2>3
<1>. QED
  BY <1>1, <1>2 DEF AllReads

LEMMA NoRead ==
  ASSUME UNCHANGED <<clock, pool, past>>,
         \A e \in Call, l \in Key : ReadOf(e, l)' = ReadOf(e, l)
  PROVE  UNCHANGED Reads!vars
<1>1. AllReads' = AllReads
  BY DEF AllReads
<1>. QED
  BY <1>1 DEF Reads!vars, AllReads

\* What cached does first: it asks, or answers at once out of the cache.
LEMMA CachedRefines ==
  ASSUME IInv, NEW c \in Call, NEW k \in Key, NEW d \in Duration,
         UNCHANGED <<clock, pool, past>>, ReadOf(c, k) = Unread,
         ReadOf(c, k)' = Show(Cached(k, d), k),
         \A e \in Call, l \in Key : <<e, l>> # <<c, k>> => ReadOf(e, l)' = ReadOf(e, l)
  PROVE  Reads!Next
<1>. DEFINE r == <<c, k>>
<1>1. AllReads' = [AllReads EXCEPT ![r] = Show(Cached(k, d), k)]
  BY OneRead
<1>2. /\ r \in Call \X Key /\ AllReads[r] = [state |-> "idle"]
      /\ AllReads'[r] = Show(Cached(k, d), k)
  BY <1>1 DEF AllReads, Unread
<1>3. CASE CacheHit(k, d)
  <2>. DEFINE p == <<cache[k].value, cache[k].asOf>>
              answer == [state |-> "returned", key |-> k, tolerance |-> d, value |-> p[1]]
  <2>1. Cached(k, d) = [state |-> "returned", duration |-> d, value |-> cache[k].value]
    BY <1>3 DEF Cached, Returned
  <2>2. Show(Cached(k, d), k) = answer
    BY <2>1, CachedFacts, ShowFacts
  <2>3. cache[k] \in Entry /\ EntryOK(cache[k], past[k]) /\ clock - cache[k].ts < d
    BY <1>3 DEF IInv, TypeOK, CacheOK, CacheHit
  <2>4. p \in past[k] /\ Reads!Fresh(p[2], clock, d)
    <3>1. /\ clock \in Nat /\ d \in Nat /\ cache[k].ts \in Nat /\ cache[k].asOf \in Nat
          /\ cache[k].ts <= cache[k].asOf
      BY <2>3, TimeAssumption DEF IInv, TypeOK, Entry, EntryOK, Duration
    <3>2. cache[k].asOf > clock - d
      BY <2>3, <3>1
    <3>. QED
      BY <2>3, <3>2 DEF EntryOK, Reads!Fresh
  <2>. HIDE DEF p
  <2>5. Reads!Return(r, k, d, clock)
    BY <1>1, <2>2, <2>4 DEF Reads!Return, AllReads
  <2>6. Reads!Answer(r)
    BY <1>2, <2>5 DEF Reads!Answer, Reads!Idle, AllReads
  <2>7. AllReads'[r] # AllReads[r]
    BY <1>2, <2>2
  <2>. HIDE DEF r
  <2>. QED
    BY <1>2, <2>6, <2>7 DEF Reads!Next, AllReads
<1>4. CASE ~CacheHit(k, d)
  <2>. DEFINE asked == [state |-> "asked", key |-> k, tolerance |-> d, start |-> clock]
  <2>1. Cached(k, d) = [state |-> "asked", duration |-> d, start |-> clock]
    BY <1>4 DEF Cached
  <2>2. Show(Cached(k, d), k) = asked
    BY <2>1, CachedFacts, ShowFacts
  <2>3. Reads!Ask(r, k, d)
    BY <1>1, <1>2, <2>2 DEF Reads!Ask, Reads!Idle, AllReads
  <2>4. AllReads'[r] # AllReads[r]
    BY <1>2, <2>2
  <2>. HIDE DEF r
  <2>. QED
    BY <1>2, <2>3, <2>4 DEF Reads!Next, AllReads
<1>. QED
  BY <1>3, <1>4

LEMMA BeginRefines ==
  ASSUME IInv, NEW c \in Call, NEW r \in Request[c], Begin(c, r)
  PROVE  Reads!Next
<1>. DEFINE d == Age(r.kind, "mint")
            read == [k \in Key |-> IF k = "mint" THEN Cached(k, Age(r.kind, k)) ELSE Unread]
            b == [pc |-> "reading", request |-> r, read |-> read,
                  outcome |-> "none", found |-> [k \in Key |-> 0]]
<1>1. call' = [call EXCEPT ![c] = b] /\ call[c] = Idle /\ UNCHANGED <<clock, pool, past>>
  BY DEF Begin, chain
<1>2. r \in UNION {Request[e] : e \in Call}
  OBVIOUS
<1>3. d \in Duration
  BY <1>2, RequestType, AgeType, KeyFacts
<1>4. Cached("mint", d) \in Read
  BY <1>3, CachedFacts, KeyFacts
<1>5. /\ read \in [Key -> Read] /\ read["mint"] = Cached("mint", d)
      /\ \A l \in Key \ {"mint"} : read[l] = Unread
  <2>1. Unread \in Read
    BY DEF Read
  <2>2. read = [k \in Key |-> IF k = "mint" THEN Cached("mint", d) ELSE Unread]
    OBVIOUS
  <2>. HIDE DEF read, d
  <2>. QED
    BY <1>4, <2>1, <2>2, KeyFacts
<1>. HIDE DEF read, d
<1>6. b \in Running /\ b.read = read
  BY <1>2, <1>5 DEF Running
<1>. HIDE DEF b
<1>7. /\ \A l \in Key : ReadOf(c, l)' = Show(read[l], l) /\ ReadOf(c, l) = Unread
      /\ \A e \in Call \ {c} : \A l \in Key : ReadOf(e, l)' = ReadOf(e, l)
  BY <1>1, <1>6, CallShows, ReadOfShows DEF IInv
<1>8. \A l \in Key \ {"mint"} : ReadOf(c, l)' = ReadOf(c, l)
  <2>1. Unread \in Read /\ Unread.state = "idle"
    BY DEF Read, Unread
  <2>2. \A l : Show(Unread, l) = Unread
    BY <2>1, ShowFacts
  <2>. QED
    BY <1>5, <1>7, <2>2
<1>9. \A e \in Call, l \in Key : <<e, l>> # <<c, "mint">> => ReadOf(e, l)' = ReadOf(e, l)
  BY <1>7, <1>8
<1>. QED
  BY <1>1, <1>3, <1>5, <1>7, <1>9, CachedRefines, KeyFacts

LEMMA ReadHoldingRefines ==
  ASSUME IInv, NEW c \in Call, NEW k \in Key, ReadHolding(c, k)
  PROVE  Reads!Next
<1>. DEFINE d == Age(call[c].request.kind, k)
            b == [call[c] EXCEPT !.read[k] = Cached(k, d)]
<1>1. /\ call' = [call EXCEPT ![c] = b] /\ call[c] # Idle /\ call[c].read[k] = Unread
      /\ UNCHANGED <<clock, pool, past>>
  BY Begun DEF ReadHolding, IInv, TypeOK, chain
<1>2. d \in Duration /\ call[c] \in Running
  BY <1>1, CallType, AgeType DEF IInv
<1>3. Cached(k, d) \in Read
  BY <1>2, CachedFacts
<1>. HIDE DEF d
<1>4. /\ b \in Running /\ b.read[k] = Cached(k, d)
      /\ \A l \in Key \ {k} : b.read[l] = call[c].read[l]
  BY <1>2, <1>3 DEF Running
<1>. HIDE DEF b
<1>5. /\ \A l \in Key : ReadOf(c, l)' = Show(b.read[l], l)
      /\ \A l \in Key : ReadOf(c, l) = Show(call[c].read[l], l)
      /\ \A e \in Call \ {c} : \A l \in Key : ReadOf(e, l)' = ReadOf(e, l)
  BY <1>1, <1>4, CallShows, ReadOfShows DEF IInv
<1>6. ReadOf(c, k) = Unread
  <2>1. Unread \in Read /\ Unread.state = "idle"
    BY DEF Read, Unread
  <2>. QED
    BY <1>1, <1>5, <2>1, ShowFacts
<1>7. ReadOf(c, k)' = Show(Cached(k, d), k)
  BY <1>4, <1>5
<1>8. \A e \in Call, l \in Key : <<e, l>> # <<c, k>> => ReadOf(e, l)' = ReadOf(e, l)
  BY <1>4, <1>5
<1>. QED
  BY <1>1, <1>2, <1>6, <1>7, <1>8, CachedRefines

LEMMA StoreInCacheRefines ==
  ASSUME IInv, NEW c \in Call, NEW k \in Key, StoreInCache(c, k)
  PROVE  Reads!Next
<1>. DEFINE read == call[c].read[k]
            new == Returned(read.duration, read.value)
            b == [call[c] EXCEPT !.read[k] = new]
            r == <<c, k>>
            p == <<read.value, read.asOf>>
            d == read.duration
            start == read.start
<1>1. /\ call' = [call EXCEPT ![c] = b] /\ call[c] # Idle /\ read.state = "answered"
      /\ UNCHANGED <<clock, pool, past>>
  BY DEF StoreInCache, IInv, TypeOK, chain
<1>2. read \in Answered /\ ReadOK(read, clock, past[k]) /\ call[c] \in Running /\ read \in Read
  BY <1>1, AskedFacts, ReadCases, CallType DEF IInv
<1>3. /\ new \in Read /\ new.state = "returned" /\ new.duration = d /\ new.value = p[1]
      /\ start \in Nat /\ p[2] \in Nat /\ p[2] >= start /\ p \in past[k]
  <2>1. /\ read.duration \in Duration /\ read.value \in Nat /\ read.start \in Nat
        /\ read.asOf \in Nat /\ read.start <= read.asOf /\ <<read.value, read.asOf>> \in past[k]
    BY <1>1, <1>2 DEF Answered, ReadOK
  <2>. HIDE DEF read
  <2>. QED
    BY <2>1 DEF Read, Returned
<1>. HIDE DEF new
<1>4. /\ b \in Running /\ b.read[k] = new
      /\ \A l \in Key \ {k} : b.read[l] = call[c].read[l]
  BY <1>2, <1>3 DEF Running
<1>. HIDE DEF b
<1>5. /\ \A l \in Key : ReadOf(c, l)' = Show(b.read[l], l)
      /\ \A l \in Key : ReadOf(c, l) = Show(call[c].read[l], l)
      /\ \A e \in Call \ {c} : \A l \in Key : ReadOf(e, l)' = ReadOf(e, l)
  BY <1>1, <1>4, CallShows, ReadOfShows DEF IInv
<1>6. ReadOf(c, k) = [state |-> "asked", key |-> k, tolerance |-> d, start |-> start]
  BY <1>1, <1>2, <1>5, ShowFacts
<1>7. ReadOf(c, k)' = [state |-> "returned", key |-> k, tolerance |-> d, value |-> p[1]]
  BY <1>3, <1>4, <1>5, ShowFacts
<1>8. \A e \in Call, l \in Key : <<e, l>> # <<c, k>> => ReadOf(e, l)' = ReadOf(e, l)
  BY <1>4, <1>5
<1>9. AllReads' = [AllReads EXCEPT ![r] =
        [state |-> "returned", key |-> k, tolerance |-> d, value |-> p[1]]]
  BY <1>7, <1>8, OneRead
<1>10. /\ r \in Call \X Key
       /\ AllReads[r] = [state |-> "asked", key |-> k, tolerance |-> d, start |-> start]
       /\ AllReads'[r].state = "returned"
  BY <1>6, <1>9 DEF AllReads
<1>. HIDE DEF p, d, start, read, r
<1>11. Reads!Fresh(p[2], start, d)
  BY <1>3 DEF Reads!Fresh
<1>12. Reads!Return(r, k, d, start)
  BY <1>1, <1>3, <1>9, <1>11 DEF Reads!Return, AllReads
<1>13. /\ AllReads[r].state = "asked" /\ AllReads[r].key = k
       /\ AllReads[r].tolerance = d /\ AllReads[r].start = start
  BY <1>10
<1>14. Reads!Answer(r)
  BY <1>12, <1>13 DEF Reads!Answer, AllReads
<1>15. AllReads'[r] # AllReads[r]
  BY <1>10, <1>13
<1>. QED
  BY <1>10, <1>14, <1>15 DEF Reads!Next, AllReads

LEMMA NodeReadsRefines ==
  ASSUME IInv, NEW c \in Call, NEW k \in Key, NodeReads(c, k)
  PROVE  UNCHANGED Reads!vars
<1>. DEFINE read == call[c].read[k]
            new == [state |-> "answered", duration |-> read.duration,
                    start |-> read.start, value |-> pool[k], asOf |-> clock]
            b == [call[c] EXCEPT !.read[k] = new]
<1>1. /\ call' = [call EXCEPT ![c] = b] /\ call[c] # Idle /\ read.state = "asked"
      /\ UNCHANGED <<clock, pool, past>>
  BY DEF NodeReads, IInv, TypeOK, chain
<1>2. read \in Asked /\ call[c] \in Running /\ read \in Read
  BY <1>1, AskedFacts, ReadCases, CallType DEF IInv
<1>3. /\ new \in Read /\ new.state = "answered"
      /\ new.duration = read.duration /\ new.start = read.start
  <2>1. /\ read.duration \in Duration /\ read.start \in Nat
        /\ pool[k] \in Nat /\ clock \in Nat
    BY <1>2 DEF Asked, IInv, TypeOK
  <2>. HIDE DEF read
  <2>. QED
    BY <2>1 DEF Read, Answered
<1>. HIDE DEF new
<1>4. /\ b \in Running /\ b.read[k] = new
      /\ \A l \in Key \ {k} : b.read[l] = call[c].read[l]
  BY <1>2, <1>3 DEF Running
<1>. HIDE DEF b
<1>5. /\ \A l \in Key : ReadOf(c, l)' = Show(b.read[l], l)
      /\ \A l \in Key : ReadOf(c, l) = Show(call[c].read[l], l)
      /\ \A e \in Call \ {c} : \A l \in Key : ReadOf(e, l)' = ReadOf(e, l)
  BY <1>1, <1>4, CallShows, ReadOfShows DEF IInv
<1>6. Show(new, k) = Show(read, k)
  BY <1>1, <1>2, <1>3, ShowFacts
<1>7. \A e \in Call, l \in Key : ReadOf(e, l)' = ReadOf(e, l)
  BY <1>4, <1>5, <1>6
<1>. QED
  BY <1>1, <1>7, NoRead

\* The reads of a call stay as they are.
LEMMA KeepsReads ==
  ASSUME IInv, NEW c \in Call, call[c] # Idle, NEW b \in Running, b.read = call[c].read,
         call' = [call EXCEPT ![c] = b]
  PROVE  \A e \in Call, l \in Key : ReadOf(e, l)' = ReadOf(e, l)
<1>1. /\ \A l \in Key : ReadOf(c, l)' = Show(b.read[l], l)
      /\ \A l \in Key : ReadOf(c, l) = Show(call[c].read[l], l)
      /\ \A e \in Call \ {c} : \A l \in Key : ReadOf(e, l)' = ReadOf(e, l)
  BY CallShows, ReadOfShows DEF IInv
<1>. QED
  BY <1>1

\* A request fails: that of the one read under way, if there is one.
LEMMA RequestFailsRefines ==
  ASSUME IInv, NEW c \in Call, RequestFails(c)
  PROVE  [Reads!Next]_(Reads!vars)
<1>. DEFINE a == call[c]
            read == [k \in Key |-> IF a.read[k].state \in {"asked", "answered"}
                                   THEN Failed ELSE a.read[k]]
            b == [a EXCEPT !.pc = "failed", !.read = read]
<1>1. call' = [call EXCEPT ![c] = b] /\ a # Idle /\ UNCHANGED <<clock, pool, past>>
  BY Begun DEF RequestFails, IInv, TypeOK, chain
<1>2. a \in Running /\ InTurn(a) /\ \A l \in Key : a.read[l] \in Read
  BY <1>1, CallType DEF IInv, CallsOK, Good
<1>. HIDE DEF a
<1>3. /\ read \in [Key -> Read]
      /\ \A l \in Key : read[l] = IF a.read[l].state \in {"asked", "answered"}
                                  THEN Failed ELSE a.read[l]
  BY <1>2 DEF Read
<1>. HIDE DEF read
<1>4. b \in Running /\ b.read = read
  BY <1>2, <1>3 DEF Running
<1>. HIDE DEF b
<1>5. /\ \A l \in Key : ReadOf(c, l)' = Show(b.read[l], l)
      /\ \A l \in Key : ReadOf(c, l) = Show(a.read[l], l)
      /\ \A e \in Call \ {c} : \A l \in Key : ReadOf(e, l)' = ReadOf(e, l)
  BY <1>1, <1>4, CallShows, ReadOfShows DEF IInv, a
<1>6. ASSUME NEW k \in Key, a.read[k].state \in {"asked", "answered"}
      PROVE  Reads!Next
  <2>. DEFINE r == <<c, k>>
  <2>1. \A l \in Key \ {k} : a.read[l].state \notin {"asked", "answered"}
    BY <1>2, <1>6, KeyFacts DEF InTurn
  <2>2. \A e \in Call, l \in Key : <<e, l>> # <<c, k>> => ReadOf(e, l)' = ReadOf(e, l)
    BY <1>3, <1>4, <1>5, <2>1
  <2>3. ReadOf(c, k)' = [state |-> "failed"]
    <3>1. Failed \in Read /\ Failed.state = "failed" /\ b.read[k] = Failed
      BY <1>3, <1>4, <1>6 DEF Read, Failed
    <3>. QED
      BY <1>5, <3>1, ShowFacts DEF Failed
  <2>4. ReadOf(c, k).state = "asked"
    BY <1>2, <1>5, <1>6, ShowFacts
  <2>5. AllReads' = [AllReads EXCEPT ![r] = [state |-> "failed"]]
    BY <2>2, <2>3, OneRead
  <2>6. r \in Call \X Key /\ AllReads[r].state = "asked" /\ AllReads'[r].state = "failed"
    BY <2>4, <2>5 DEF AllReads
  <2>. HIDE DEF r
  <2>7. Reads!Fail(r)
    BY <1>1, <2>5, <2>6 DEF Reads!Fail, AllReads
  <2>8. AllReads'[r] # AllReads[r]
    BY <2>6
  <2>. QED
    BY <2>6, <2>7, <2>8 DEF Reads!Next, AllReads
<1>7. CASE \A k \in Key : a.read[k].state \notin {"asked", "answered"}
  <2>1. \A e \in Call, l \in Key : ReadOf(e, l)' = ReadOf(e, l)
    BY <1>3, <1>4, <1>5, <1>7
  <2>. QED
    BY <1>1, <2>1, NoRead
<1>. QED
  BY <1>6, <1>7

LEMMA SendRefines ==
  ASSUME IInv, NEW c \in Call, SendTransaction(c) \/ ConfirmTimesOut(c)
  PROVE  UNCHANGED Reads!vars
<1>1. PICK pc \in {"sent", "failed"} : call' = [call EXCEPT ![c] = [call[c] EXCEPT !.pc = pc]]
  BY DEF SendTransaction, ConfirmTimesOut, IInv, TypeOK
<1>2. call[c] # Idle /\ UNCHANGED <<clock, pool, past>>
  BY Begun DEF SendTransaction, ConfirmTimesOut, HasRead, chain, IInv
<1>3. call[c] \in Running
  BY <1>2, CallType DEF IInv
<1>. DEFINE b == [call[c] EXCEPT !.pc = pc]
<1>4. b \in Running /\ b.read = call[c].read
  BY <1>3 DEF Running
<1>. HIDE DEF b
<1>5. call' = [call EXCEPT ![c] = b]
  BY <1>1 DEF b
<1>6. \A e \in Call, l \in Key : ReadOf(e, l)' = ReadOf(e, l)
  BY <1>2, <1>4, <1>5, KeepsReads
<1>. QED
  BY <1>2, <1>6, NoRead

LEMMA ExecutedReads ==
  ASSUME IInv, NEW c \in pending,
         NEW outcome \in {"ok", "malformed", "slippage", "refused"}, Executed(c, outcome)
  PROVE  AllReads' = AllReads /\ clock' = clock
<1>. DEFINE a == call[c]
            found == IF a.request.kind = "add" THEN pool ELSE a.found
            pc == IF a.pc # "sent" THEN a.pc ELSE IF outcome = "ok" THEN "done" ELSE "failed"
            b == [a EXCEPT !.outcome = outcome, !.found = found, !.pc = pc]
<1>1. c \in Call /\ a # Idle
  BY Begun DEF IInv, TypeOK
<1>2. a \in Running
  BY <1>1, CallType DEF IInv
<1>3. call' = [call EXCEPT ![c] = b] /\ clock' = clock
  BY DEF Executed, IInv, TypeOK
<1>4. found \in [Key -> Nat] /\ pc \in {"reading", "sent", "done", "failed"}
  <2>1. pool \in [Key -> Nat] /\ a.found \in [Key -> Nat]
        /\ a.pc \in {"reading", "sent", "done", "failed"}
    BY <1>2 DEF IInv, TypeOK, Running
  <2>. HIDE DEF a
  <2>. QED
    BY <2>1
<1>. HIDE DEF found, pc
<1>5. b \in Running /\ b.read = a.read
  BY <1>2, <1>4 DEF Running
<1>. HIDE DEF b
<1>6. \A e \in Call, l \in Key : ReadOf(e, l)' = ReadOf(e, l)
  BY <1>1, <1>3, <1>5, KeepsReads
<1>. QED
  BY <1>3, <1>6 DEF AllReads

\* Whoever changes the pool, the reads see a write.
LEMMA WriteRefines ==
  ASSUME IInv, NEW p \in [Key -> Nat \ {0}], SetPool(p), clock' = clock,
         AllReads' = AllReads
  PROVE  Reads!Write
<1>1. pool' = p /\ past' = [k \in Key |-> past[k] \cup {<<pool'[k], clock>>}]
  BY DEF SetPool
<1>. QED
  BY <1>1 DEF Reads!Write, AllReads

LEMMA LandingRefines ==
  ASSUME IInv, NEW c \in Call, DepositLands(c) \/ OtherLands(c) \/ TransactionErrs(c)
  PROVE  [Reads!Next]_(Reads!vars)
<1>1. CASE DepositLands(c)
  <2>. DEFINE deposit == Deposit(c)
  <2>1. /\ c \in pending /\ call[c].request.kind = "add" /\ Executed(c, deposit.outcome)
        /\ IF deposit.outcome = "ok" THEN SetPool(deposit.pool) ELSE UNCHANGED <<pool, past>>
    BY <1>1 DEF DepositLands
  <2>2. /\ deposit.outcome \in {"ok", "slippage", "refused"}
        /\ deposit.pool \in [Key -> Nat \ {0}]
    BY <2>1, DepositFacts
  <2>. HIDE DEF deposit
  <2>3. AllReads' = AllReads /\ clock' = clock
    BY <2>1, <2>2, ExecutedReads
  <2>4. CASE deposit.outcome = "ok"
    BY <2>1, <2>2, <2>3, <2>4, WriteRefines DEF Reads!Next
  <2>5. CASE deposit.outcome # "ok"
    BY <2>1, <2>3, <2>5 DEF Reads!vars, AllReads
  <2>. QED
    BY <2>4, <2>5
<1>2. CASE OtherLands(c)
  <2>1. PICK p \in PoolState : SetPool(p)
    BY <1>2 DEF OtherLands
  <2>2. c \in pending /\ Executed(c, "ok") /\ p \in [Key -> Nat \ {0}]
    BY <1>2, PoolAssumption DEF OtherLands
  <2>3. AllReads' = AllReads /\ clock' = clock
    BY <2>2, ExecutedReads
  <2>. QED
    BY <2>1, <2>2, <2>3, WriteRefines DEF Reads!Next
<1>3. CASE TransactionErrs(c)
  <2>. DEFINE outcome == IF WellFormed(Build(c), open) THEN "refused" ELSE "malformed"
  <2>1. c \in pending /\ Executed(c, outcome) /\ UNCHANGED <<pool, past>>
    BY <1>3 DEF TransactionErrs
  <2>2. outcome \in {"refused", "malformed"}
    OBVIOUS
  <2>. HIDE DEF outcome
  <2>3. AllReads' = AllReads /\ clock' = clock
    BY <2>1, <2>2, ExecutedReads
  <2>. QED
    BY <2>1, <2>3 DEF Reads!vars, AllReads
<1>. QED
  BY <1>1, <1>2, <1>3

LEMMA OthersTradeRefines ==
  ASSUME IInv, NEW p \in PoolState, OthersTrade(p)
  PROVE  Reads!Next
<1>1. SetPool(p) /\ p \in [Key -> Nat \ {0}] /\ UNCHANGED <<clock, call>>
  BY PoolAssumption DEF OthersTrade
<1>2. AllReads' = AllReads
  BY <1>1 DEF AllReads, ReadOf
<1>. QED
  BY <1>1, <1>2, WriteRefines DEF Reads!Next

LEMMA TickRefines ==
  ASSUME Tick
  PROVE  Reads!Next
<1>1. AllReads' = AllReads
  BY DEF AllReads, ReadOf, Tick
<1>. QED
  BY <1>1 DEF Tick, Reads!Next, Reads!Tick, AllReads

LEMMA InitRefines == Init => Reads!Init
<1>. SUFFICES ASSUME Init PROVE Reads!Init
  OBVIOUS
<1>1. clock \in Nat /\ pool \in [Key -> Nat] /\ past = [k \in Key |-> {<<pool[k], clock>>}]
  BY TimeAssumption, PoolAssumption DEF Init
<1>2. \A c \in Call, k \in Key : ReadOf(c, k) = Reads!Idle
  BY DEF Init, ReadOf, Unread, Reads!Idle
<1>. QED
  BY <1>1, <1>2 DEF Reads!Init

LEMMA NextRefines == IInv /\ [Next]_vars => [Reads!Next]_(Reads!vars)
<1>. SUFFICES ASSUME IInv, [Next]_vars PROVE [Reads!Next]_(Reads!vars)
  OBVIOUS
<1>1. ASSUME NEW c \in Call, NEW r \in Request[c], Begin(c, r)
      PROVE  [Reads!Next]_(Reads!vars)
  BY <1>1, BeginRefines
<1>2. ASSUME NEW c \in Call, NEW k \in Key,
             NodeReads(c, k) \/ StoreInCache(c, k) \/ ReadHolding(c, k)
      PROVE  [Reads!Next]_(Reads!vars)
  BY <1>2, NodeReadsRefines, StoreInCacheRefines, ReadHoldingRefines
<1>3. ASSUME NEW c \in Call, SendTransaction(c) \/ ConfirmTimesOut(c)
      PROVE  [Reads!Next]_(Reads!vars)
  BY <1>3, SendRefines
<1>4. ASSUME NEW c \in Call, RequestFails(c)
      PROVE  [Reads!Next]_(Reads!vars)
  BY <1>4, RequestFailsRefines
<1>5. ASSUME NEW c \in Call, DepositLands(c) \/ OtherLands(c) \/ TransactionErrs(c)
      PROVE  [Reads!Next]_(Reads!vars)
  BY <1>5, LandingRefines
<1>6. ASSUME NEW p \in PoolState, OthersTrade(p)
      PROVE  [Reads!Next]_(Reads!vars)
  BY <1>6, OthersTradeRefines
<1>7. CASE Tick
  BY <1>7, TickRefines
<1>8. CASE UNCHANGED vars
  BY <1>8 DEF vars, Reads!vars, ReadOf
<1>. QED
  BY <1>1, <1>2, <1>3, <1>4, <1>5, <1>6, <1>7, <1>8 DEF Next

\* Every mint and holding that cached returns is what the chain had while it ran or
\* less than cacheDurationMs before: for any durations, any number of overlapping
\* calls and however late answers come.
THEOREM ReadsRefine == Spec => ReadsAreFreshEnough
<1>1. Init => Reads!Init
  BY InitRefines
<1>2. IInv /\ [Next]_vars => [Reads!Next]_(Reads!vars)
  BY NextRefines
<1>. QED
  BY <1>1, <1>2, Invariance, PTL DEF Spec, Reads!Spec, ReadsAreFreshEnough
=============================================================================
