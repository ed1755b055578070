----------------------------- MODULE SwapProofs -----------------------------
(***************************************************************************)
(* Proofs about SwapAccounts, for any token list, calls and addresses.     *)
(***************************************************************************)
EXTENDS SwapAccounts, FiniteSetTheorems, TLAPS

\* A market has an account, or had one closed.
Provided(m) == chain[m] # {} \/ m \in closed

\* What a call has looked up, and acts upon, are the legs of one path.
LegsInv(r) ==
  /\ r.looked \subseteq LegsOf(r)
  /\ r.pc \in {"building", "built", "sent", "done"} => r.looked = LegsOf(r)
  /\ \A p \in r.creates \cup r.uses : p[1] \in LegsOf(r)

\* Where a lookup found nothing, and where an account is created, the market was
\* without one at some moment of the call.
AbsentInv(c) ==
  /\ \A m \in call[c].looked : call[c].seen[m] = {} => m \notin always[c]
  /\ \A p \in call[c].creates : p[1] \notin always[c]

\* Where a lookup found an account there is one, or one was closed.
FoundInv(c) ==
  \A m \in call[c].looked : call[c].seen[m] # {} => Provided(m)

\* initAccounts leaves the path of swap only if it found all accounts there.
PathInv(c) ==
  LET r == call[c]
      path == SwapPath(r.from, r.to)
  IN  r.kind = "init" /\ c \notin faulty /\ LegsOf(r) # path =>
        path \subseteq Listed /\ \A m \in path : Provided(m)

\* The instructions of initAccounts cover the legs without an account, and have
\* done their work when it returns.
InitInv(c) ==
  LET r == call[c]
  IN  r.kind = "init" =>
        /\ r.pc \in {"built", "sent"} =>
             \A m \in Missing(r) : \E p \in r.creates : p[1] = m
        /\ r.pc = "done" => \A m \in LegsOf(r) : Provided(m)

CallInv(c) ==
  /\ LegsInv(call[c])
  /\ AbsentInv(c)
  /\ FoundInv(c)
  /\ PathInv(c)
  /\ InitInv(c)

\* Only calls that have sent a transaction have one in flight.
PendingInv == \A c \in pending : call[c].pc \in {"sent", "failed"}

\* A market of which always says so has an account.
AlwaysInv == \A c \in Call : \A m \in always[c] : chain[m] # {}

IInv ==
  /\ TypeOK
  /\ \A c \in Call : call[c] # Idle => CallInv(c)
  /\ PendingInv
  /\ AlwaysInv

-----------------------------------------------------------------------------
LEMMA NotIdle ==
  ASSUME TypeOK, NEW c \in Call, call[c].pc # "idle"
  PROVE  call[c] # Idle /\ call[c] \in Calls
  BY DEF TypeOK, Idle

LEMMA RunningIsNotIdle ==
  ASSUME NEW r \in Calls
  PROVE  r # Idle /\ r.pc # "idle"
  BY DEF Calls, Running, Idle

LEMMA AttemptFacts ==
  ASSUME NEW kind \in {"init", "close", "swap"}, NEW from \in Mint,
         NEW to \in Mint, NEW quote \in Usdx
  PROVE  LET r == Attempt(kind, from, to, quote)
         IN  /\ r \in Calls
             /\ r.pc \in {"looking", "failed"}
             /\ r.kind = kind /\ r.from = from /\ r.to = to
             /\ r.looked = {} /\ r.creates = {} /\ r.uses = {}
             /\ LegsOf(r) = Legs(quote, from, to)
  BY DEF Attempt, Calls, Running, LegsOf

LEMMA FirstQuoteType ==
  ASSUME NEW from, NEW to
  PROVE  FirstQuote(from, to) \in Usdx
  BY DEF FirstQuote, Usdx

\* What a throw leads to: the next attempt, or the same call, failed.
LEMMA ThrowFacts ==
  ASSUME NEW r \in Calls, LegsInv(r)
  PROVE  /\ Throw(r) \in Calls
         /\ LegsInv(Throw(r))
         /\ Throw(r).pc \in {"looking", "failed"}
         /\ Throw(r).kind = r.kind
         /\ SwapPath(Throw(r).from, Throw(r).to) = SwapPath(r.from, r.to)
         /\ \/ Throw(r).looked = {} /\ Throw(r).creates = {}
            \/ /\ Throw(r).looked = r.looked /\ Throw(r).creates = r.creates
               /\ Throw(r).seen = r.seen
               /\ LegsOf(Throw(r)) = LegsOf(r)
<1>1. r \in Running
  BY DEF Calls
<1>2. CASE r.kind # "swap" /\ ~Direct(r.from, r.to) /\ r.quote = Usdc
  <2>1. Throw(r) = Attempt(r.kind, r.from, r.to, Usdt)
    BY <1>2 DEF Throw
  <2>2. /\ r.kind \in {"init", "close", "swap"} /\ r.from \in Mint
        /\ r.to \in Mint /\ Usdt \in Usdx
    BY <1>1 DEF Running, Usdx
  <2>. QED
    BY <2>1, <2>2, AttemptFacts DEF LegsInv
<1>3. CASE ~(r.kind # "swap" /\ ~Direct(r.from, r.to) /\ r.quote = Usdc)
  <2>1. Throw(r) = [r EXCEPT !.pc = "failed"]
    BY <1>3 DEF Throw
  <2>2. Throw(r) \in Running /\ Throw(r).pc = "failed"
    BY <1>1, <2>1 DEF Running
  <2>3. /\ Throw(r).kind = r.kind /\ Throw(r).from = r.from
        /\ Throw(r).to = r.to /\ Throw(r).quote = r.quote
        /\ Throw(r).looked = r.looked /\ Throw(r).creates = r.creates
        /\ Throw(r).seen = r.seen /\ Throw(r).uses = r.uses
    BY <1>1, <2>1 DEF Running
  <2>. QED
    BY <2>2, <2>3 DEF Calls, LegsInv, LegsOf
<1>. QED
  BY <1>2, <1>3

\* PathInv of a call after a step, in terms of its record.
LEMMA PathInvNext ==
  ASSUME NEW c, NEW r, call'[c] = r,
         /\ r.kind = "init" /\ c \notin faulty'
         /\ LegsOf(r) # SwapPath(r.from, r.to)
         => /\ SwapPath(r.from, r.to) \subseteq Listed
            /\ \A m \in SwapPath(r.from, r.to) : Provided(m)'
  PROVE  PathInv(c)'
  BY DEF PathInv, SwapPath, FirstQuote, LegsOf, Legs

LEMMA InitIInv == Init => IInv
<1>. SUFFICES ASSUME Init PROVE IInv
  OBVIOUS
<1>1. \A c \in Call : call[c] = Idle
  BY DEF Init
<1>2. TypeOK
  <2>1. used \subseteq Account
    BY DEF Init
  <2>2. /\ chain \in [Listed -> SUBSET Account]
        /\ call \in [Call -> Calls \cup {Idle}]
        /\ always \in [Call -> SUBSET Listed]
        /\ pending = {} /\ closed = {} /\ faulty = {} /\ overlapped = FALSE
    BY DEF Init
  <2>. QED
    BY <2>1, <2>2 DEF TypeOK
<1>. QED
  BY <1>1, <1>2 DEF IInv, PendingInv, AlwaysInv, Init

-----------------------------------------------------------------------------
\* A step that leaves the call d alone keeps what concerns it, if no market
\* loses what was provided, and no market enters always[d].
LEMMA CallInvStable ==
  ASSUME NEW d \in Call, IInv, call[d] # Idle, call'[d] = call[d],
         \A m \in Listed : Provided(m) => Provided(m)',
         always'[d] \subseteq always[d], faulty \subseteq faulty'
  PROVE  CallInv(d)'
<1>1. call[d] \in Calls /\ CallInv(d)
  BY DEF IInv, TypeOK
<1>2. LegsInv(call[d])' /\ AbsentInv(d)'
  BY <1>1 DEF CallInv, LegsInv, AbsentInv, LegsOf, Legs
<1>3. FoundInv(d)'
  BY <1>1 DEF CallInv, FoundInv, Calls, Running
<1>4. PathInv(d)'
  BY <1>1 DEF CallInv, PathInv, SwapPath, FirstQuote, LegsOf, Legs
<1>5. InitInv(d)'
  <2>1. call[d].pc = "done" => LegsOf(call[d]) \subseteq Listed
    BY <1>1 DEF Calls
  <2>. QED
    BY <1>1, <2>1 DEF CallInv, InitInv, Missing, LegsOf, Legs
<1>. QED
  BY <1>2, <1>3, <1>4, <1>5 DEF CallInv

\* A step of the call c that leaves the chain alone.
LEMMA CallStep ==
  ASSUME IInv, NEW c \in Call, NEW r \in Calls,
         call' = [call EXCEPT ![c] = r],
         UNCHANGED <<chain, closed>>,
         always' \in [Call -> SUBSET Listed],
         \A d \in Call \ {c} : always'[d] = always[d],
         \A m \in always'[c] : chain[m] # {},
         used' \subseteq Account,
         pending' \subseteq pending \cup {c},
         c \in pending' => r.pc \in {"sent", "failed"},
         faulty \subseteq faulty', faulty' \subseteq Call,
         overlapped' \in BOOLEAN,
         CallInv(c)'
  PROVE  IInv'
<1>1. TypeOK /\ TypeOK'
  BY DEF IInv, TypeOK
<1>2. call'[c] = r /\ \A d \in Call \ {c} : call'[d] = call[d]
  BY <1>1 DEF TypeOK
<1>3. PendingInv'
  BY <1>1, <1>2 DEF IInv, PendingInv, TypeOK
<1>4. ASSUME NEW d \in Call, call'[d] # Idle
      PROVE  CallInv(d)'
  <2>1. CASE d = c
    BY <2>1
  <2>2. CASE d # c
    <3>1. call'[d] = call[d] /\ always'[d] = always[d]
      BY <1>2, <2>2
    <3>2. \A m \in Listed : Provided(m) => Provided(m)'
      BY DEF Provided
    <3>. QED
      BY <1>4, <3>1, <3>2, CallInvStable
  <2>. QED
    BY <2>1, <2>2
<1>5. AlwaysInv'
  BY DEF IInv, AlwaysInv
<1>. QED
  BY <1>1, <1>3, <1>4, <1>5 DEF IInv

-----------------------------------------------------------------------------
LEMMA BeginKeepsIInv ==
  ASSUME IInv, NEW c \in Call, NEW kind \in {"init", "close", "swap"},
         NEW p \in Pair, Begin(c, kind, p[1], p[2])
  PROVE  IInv'
<1>. DEFINE r == Attempt(kind, p[1], p[2], FirstQuote(p[1], p[2]))
<1>1. TypeOK /\ p[1] \in Mint /\ p[2] \in Mint
  BY PairAssumption DEF IInv
<1>2. /\ r \in Calls /\ r.pc \in {"looking", "failed"}
      /\ r.kind = kind /\ r.from = p[1] /\ r.to = p[2]
      /\ r.looked = {} /\ r.creates = {} /\ r.uses = {}
      /\ LegsOf(r) = SwapPath(p[1], p[2])
  BY <1>1, AttemptFacts, FirstQuoteType DEF SwapPath
<1>3. /\ call[c] = Idle
      /\ call' = [call EXCEPT ![c] = r]
      /\ always' = [always EXCEPT ![c] = {m \in Listed : chain[m] # {}}]
      /\ overlapped' \in BOOLEAN
      /\ UNCHANGED <<chain, used, pending, closed, faulty>>
  BY DEF Begin
<1>4. /\ call'[c] = r
      /\ always' \in [Call -> SUBSET Listed]
      /\ \A d \in Call \ {c} : always'[d] = always[d]
      /\ \A m \in always'[c] : chain[m] # {}
  BY <1>1, <1>3 DEF TypeOK
<1>5. c \notin pending
  BY <1>3 DEF IInv, PendingInv, Idle
<1>6. CallInv(c)'
  <2>1. LegsInv(r) /\ AbsentInv(c)' /\ FoundInv(c)'
    BY <1>2, <1>4 DEF LegsInv, AbsentInv, FoundInv
  <2>2. PathInv(c)'
    BY <1>2, <1>4, PathInvNext
  <2>3. InitInv(c)'
    BY <1>2, <1>4 DEF InitInv
  <2>. QED
    BY <1>4, <2>1, <2>2, <2>3 DEF CallInv, LegsInv, LegsOf, Legs
<1>7. used' \subseteq Account /\ pending' \subseteq pending \cup {c}
      /\ faulty \subseteq faulty' /\ faulty' \subseteq Call
      /\ (c \in pending' => r.pc \in {"sent", "failed"})
  BY <1>1, <1>3, <1>5 DEF TypeOK
<1>. HIDE DEF r
<1>. QED
  BY <1>2, <1>3, <1>4, <1>6, <1>7, CallStep

\* What a lookup makes of the call, as one record.
LEMMA LookCall ==
  ASSUME TypeOK, NEW c \in Call, NEW m \in Listed, Look(c, m)
  PROVE  call' = [call EXCEPT ![c] =
                    [call[c] EXCEPT !.looked = @ \cup {m}, !.seen[m] = chain[m]]]
<1>1. \E S : call \in [Call -> S]
  BY DEF TypeOK
<1>2. call' = [call EXCEPT ![c].looked = @ \cup {m}, ![c].seen[m] = chain[m]]
  BY DEF Look
<1>. QED
  BY <1>1, <1>2

LEMMA LookKeepsIInv ==
  ASSUME IInv, NEW c \in Call, NEW m \in Listed, Look(c, m)
  PROVE  IInv'
<1>. DEFINE r == [call[c] EXCEPT !.looked = @ \cup {m}, !.seen[m] = chain[m]]
<1>1. TypeOK /\ call[c].pc = "looking" /\ m \in LegsOf(call[c])
  BY DEF IInv, Look, Turn
<1>2. call[c] \in Calls /\ call[c] \in Running /\ CallInv(c)
  BY <1>1, NotIdle DEF IInv, Calls
<1>3. /\ UNCHANGED <<chain, used, pending, always, closed, faulty, overlapped>>
      /\ call' = [call EXCEPT ![c] = r]
  BY LookCall DEF Look, IInv
<1>4. r \in Running
  BY <1>1, <1>2 DEF Running, TypeOK
<1>5. /\ r.pc = call[c].pc /\ r.kind = call[c].kind
      /\ r.from = call[c].from /\ r.to = call[c].to
      /\ r.quote = call[c].quote
      /\ r.creates = call[c].creates /\ r.uses = call[c].uses
      /\ r.looked = call[c].looked \cup {m}
      /\ r.seen[m] = chain[m]
      /\ \A l \in Listed : l # m => r.seen[l] = call[c].seen[l]
  BY <1>2 DEF Running
<1>6. r \in Calls /\ LegsOf(r) = LegsOf(call[c])
  BY <1>2, <1>4, <1>5 DEF Calls, LegsOf
<1>7. call'[c] = r
  BY <1>1, <1>3 DEF TypeOK
<1>. HIDE DEF r
<1>8. c \notin pending
  BY <1>1 DEF IInv, PendingInv
<1>9. /\ chain[m] = {} => m \notin always[c]
      /\ chain[m] # {} => Provided(m)
  BY <1>1 DEF IInv, AlwaysInv, Provided
<1>10. CallInv(c)'
  <2>1. LegsInv(r)
    BY <1>1, <1>2, <1>5, <1>6 DEF CallInv, LegsInv
  <2>2. r.looked \subseteq Listed
    BY <1>4 DEF Running
  <2>3. AbsentInv(c)'
    BY <1>2, <1>3, <1>5, <1>7, <1>9, <2>2 DEF CallInv, AbsentInv
  <2>4. FoundInv(c)'
    BY <1>2, <1>3, <1>5, <1>7, <1>9, <2>2 DEF CallInv, FoundInv, Provided
  <2>5. PathInv(c)'
    BY <1>2, <1>3, <1>5, <1>6, <1>7, PathInvNext
       DEF CallInv, PathInv, Provided, SwapPath
  <2>6. InitInv(c)'
    BY <1>1, <1>5, <1>7 DEF InitInv
  <2>. QED
    BY <1>7, <2>1, <2>3, <2>4, <2>5, <2>6 DEF CallInv, LegsInv, LegsOf, Legs
<1>11. /\ always' \in [Call -> SUBSET Listed] /\ \A l \in always'[c] : chain[l] # {}
       /\ used' \subseteq Account /\ faulty' \subseteq Call /\ overlapped' \in BOOLEAN
  BY <1>1, <1>3 DEF IInv, AlwaysInv, TypeOK
<1>. QED
  BY <1>3, <1>6, <1>8, <1>10, <1>11, CallStep

\* A step that throws while the instructions are built, for a failed request or
\* because every account was found.
LEMMA ThrowStep ==
  ASSUME IInv, NEW c \in Call,
         call[c].pc \in {"looking", "building"},
         call' = [call EXCEPT ![c] = Throw(call[c])],
         UNCHANGED <<chain, used, pending, always, closed, overlapped>>,
         faulty \subseteq faulty', faulty' \subseteq Call,
         \/ c \in faulty'
         \/ call[c].kind # "init"
         \/ call[c].looked = LegsOf(call[c]) /\ Missing(call[c]) = {}
  PROVE  IInv'
<1>. DEFINE r == Throw(call[c])
<1>1. TypeOK /\ call[c] \in Calls /\ CallInv(c)
  BY NotIdle DEF IInv
<1>2. /\ r \in Calls /\ LegsInv(r) /\ r.pc \in {"looking", "failed"}
      /\ r.kind = call[c].kind
      /\ SwapPath(r.from, r.to) = SwapPath(call[c].from, call[c].to)
      /\ \/ r.looked = {} /\ r.creates = {}
         \/ /\ r.looked = call[c].looked /\ r.creates = call[c].creates
            /\ r.seen = call[c].seen /\ LegsOf(r) = LegsOf(call[c])
  BY <1>1, ThrowFacts DEF CallInv
<1>. HIDE DEF r
<1>3. call'[c] = r /\ call' = [call EXCEPT ![c] = r]
  BY <1>1 DEF r, TypeOK
<1>4. c \notin pending
  BY DEF IInv, PendingInv
<1>5. AbsentInv(c)'
  BY <1>1, <1>2, <1>3 DEF CallInv, AbsentInv
<1>6. FoundInv(c)'
  BY <1>1, <1>2, <1>3 DEF CallInv, FoundInv, Provided
<1>7. PathInv(c)'
  <2>1. ASSUME r.kind = "init", c \notin faulty'
        PROVE  LET path == SwapPath(r.from, r.to)
               IN  path \subseteq Listed /\ \A m \in path : Provided(m)
    <3>1. /\ call[c].kind = "init" /\ c \notin faulty
          /\ call[c].looked = LegsOf(call[c]) /\ Missing(call[c]) = {}
      BY <1>2, <2>1
    <3>2. CASE LegsOf(call[c]) = SwapPath(call[c].from, call[c].to)
      <4>1. \A m \in LegsOf(call[c]) : Provided(m)
        BY <1>1, <3>1 DEF CallInv, FoundInv, Missing
      <4>2. LegsOf(call[c]) \subseteq Listed
        BY <1>1 DEF Calls
      <4>. QED
        BY <1>2, <3>2, <4>1, <4>2
    <3>3. CASE LegsOf(call[c]) # SwapPath(call[c].from, call[c].to)
      BY <1>1, <1>2, <3>1, <3>3 DEF CallInv, PathInv
    <3>. QED
      BY <3>2, <3>3
  <2>. QED
    BY <1>3, <2>1, PathInvNext DEF Provided
<1>8. CallInv(c)'
  <2>1. InitInv(c)'
    BY <1>2, <1>3 DEF InitInv
  <2>. QED
    BY <1>2, <1>3, <1>5, <1>6, <1>7, <2>1 DEF CallInv, LegsInv, LegsOf, Legs
<1>9. /\ always' \in [Call -> SUBSET Listed]
      /\ \A m \in always'[c] : chain[m] # {}
      /\ used' \subseteq Account /\ overlapped' \in BOOLEAN
  BY <1>1 DEF IInv, AlwaysInv, TypeOK
<1>. QED
  BY <1>2, <1>3, <1>4, <1>8, <1>9, CallStep

\* A step of a call that goes on with the path it has looked up.
LEMMA SamePathStep ==
  ASSUME IInv, NEW c \in Call, NEW r \in Running,
         call[c].pc \notin {"idle", "failed"},
         call' = [call EXCEPT ![c] = r],
         UNCHANGED <<chain, always, closed, overlapped>>,
         used' \subseteq Account,
         pending' \subseteq pending \cup {c},
         c \in pending' => r.pc \in {"sent", "failed"},
         faulty \subseteq faulty', faulty' \subseteq Call,
         r.kind = call[c].kind, r.from = call[c].from, r.to = call[c].to,
         r.quote = call[c].quote, r.looked = call[c].looked,
         r.seen = call[c].seen,
         r.pc # "failed" => r.looked = LegsOf(r),
         \A p \in r.creates \cup r.uses : p[1] \in LegsOf(r),
         \A p \in r.creates : p[1] \notin always[c],
         r.kind = "init" /\ r.pc \in {"built", "sent"} =>
           \A m \in Missing(r) : \E p \in r.creates : p[1] = m,
         r.kind # "init" \/ r.pc # "done"
  PROVE  IInv'
<1>1. TypeOK /\ call[c] \in Calls /\ CallInv(c)
  BY NotIdle DEF IInv
<1>2. call'[c] = r
  BY <1>1 DEF TypeOK
<1>3. LegsOf(r) = LegsOf(call[c]) /\ r \in Calls
  BY <1>1 DEF LegsOf, Calls
<1>4. LegsInv(r)
  BY <1>1, <1>3 DEF CallInv, LegsInv
<1>5. AbsentInv(c)' /\ FoundInv(c)'
  BY <1>1, <1>2 DEF CallInv, AbsentInv, FoundInv, Provided
<1>6. PathInv(c)'
  BY <1>1, <1>2, <1>3, PathInvNext DEF CallInv, PathInv, Provided, SwapPath
<1>7. InitInv(c)'
  BY <1>2 DEF InitInv, Missing, LegsOf, Legs
<1>8. CallInv(c)'
  BY <1>2, <1>4, <1>5, <1>6, <1>7 DEF CallInv, LegsInv, LegsOf, Legs
<1>9. /\ always' \in [Call -> SUBSET Listed]
      /\ \A m \in always'[c] : chain[m] # {}
      /\ overlapped' \in BOOLEAN
  BY <1>1 DEF IInv, AlwaysInv, TypeOK
<1>. QED
  BY <1>3, <1>8, <1>9, CallStep

-----------------------------------------------------------------------------
LEMMA InitAccountsKeepsIInv ==
  ASSUME IInv, NEW c \in Call, InitAccounts(c)
  PROVE  IInv'
<1>. DEFINE r == [call[c] EXCEPT !.pc = "building"]
<1>1. /\ call[c].pc = "looking" /\ call[c].looked = LegsOf(call[c])
      /\ call[c].kind = "init"
      /\ UNCHANGED <<chain, used, pending, always, closed, faulty, overlapped>>
  BY DEF InitAccounts, Looked, SetCall
<1>2. TypeOK /\ call[c] \in Calls /\ call[c] \in Running /\ CallInv(c)
  BY <1>1, NotIdle DEF IInv, Calls
<1>3. CASE Missing(call[c]) = {}
  <2>1. call' = [call EXCEPT ![c] = Throw(call[c])]
    BY <1>3 DEF InitAccounts, SetCall
  <2>2. faulty' \subseteq Call /\ faulty \subseteq faulty'
    BY <1>1, <1>2 DEF TypeOK
  <2>. QED
    BY <1>1, <1>3, <2>1, <2>2, ThrowStep
<1>4. CASE Missing(call[c]) # {}
  <2>1. call' = [call EXCEPT ![c] = r]
    BY <1>4 DEF InitAccounts, SetCall
  <2>2. /\ r \in Running /\ r.pc = "building" /\ LegsOf(r) = LegsOf(call[c])
        /\ r.kind = call[c].kind /\ r.from = call[c].from /\ r.to = call[c].to
        /\ r.quote = call[c].quote /\ r.looked = call[c].looked
        /\ r.seen = call[c].seen /\ r.creates = call[c].creates
        /\ r.uses = call[c].uses
    BY <1>2 DEF Running, LegsOf
  <2>3. /\ used' \subseteq Account /\ faulty' \subseteq Call
        /\ c \notin pending' /\ pending' \subseteq pending \cup {c}
    BY <1>1, <1>2 DEF TypeOK, IInv, PendingInv
  <2>4. /\ \A p \in r.creates \cup r.uses : p[1] \in LegsOf(r)
        /\ \A p \in r.creates : p[1] \notin always[c]
    BY <1>2, <2>2 DEF CallInv, LegsInv, AbsentInv
  <2>. HIDE DEF r
  <2>. QED
    BY <1>1, <2>1, <2>2, <2>3, <2>4, SamePathStep
<1>. QED
  BY <1>3, <1>4

\* closeAccounts and swap have the accounts they use: built, or still to be
\* made by a direct swap.
LEMMA FoundKeepsIInv ==
  ASSUME IInv, NEW c \in Call, Looked(c), call[c].kind # "init",
         NEW u \in Firsts(call[c]),
         SetCall(c, [call[c] EXCEPT !.pc = "built", !.uses = u])
  PROVE  IInv'
<1>. DEFINE r == [call[c] EXCEPT !.pc = "built", !.uses = u]
<1>1. /\ call[c].pc = "looking" /\ call[c].looked = LegsOf(call[c])
      /\ UNCHANGED <<chain, used, pending, always, closed, faulty, overlapped>>
      /\ call' = [call EXCEPT ![c] = r]
  BY DEF Looked, SetCall
<1>2. TypeOK /\ call[c] \in Calls /\ call[c] \in Running /\ CallInv(c)
  BY <1>1, NotIdle DEF IInv, Calls
<1>3. u \subseteq LegsOf(call[c]) \X Account /\ LegsOf(call[c]) \subseteq Listed
  BY <1>1, <1>2 DEF Firsts, Calls
<1>4. u \subseteq Listed \X Account
  BY <1>3
<1>5. /\ r \in Running /\ r.pc = "built" /\ LegsOf(r) = LegsOf(call[c])
      /\ r.kind = call[c].kind /\ r.from = call[c].from /\ r.to = call[c].to
      /\ r.quote = call[c].quote /\ r.looked = call[c].looked
      /\ r.seen = call[c].seen /\ r.creates = call[c].creates /\ r.uses = u
  BY <1>2, <1>4 DEF Running, LegsOf
<1>6. /\ used' \subseteq Account /\ faulty' \subseteq Call
      /\ c \notin pending' /\ pending' \subseteq pending \cup {c}
  BY <1>1, <1>2 DEF TypeOK, IInv, PendingInv
<1>7. /\ \A p \in r.creates \cup r.uses : p[1] \in LegsOf(r)
      /\ \A p \in r.creates : p[1] \notin always[c]
  BY <1>2, <1>3, <1>5 DEF CallInv, LegsInv, AbsentInv
<1>. HIDE DEF r
<1>. QED
  BY <1>1, <1>5, <1>6, <1>7, SamePathStep

LEMMA CloseAccountsKeepsIInv ==
  ASSUME IInv, NEW c \in Call, CloseAccounts(c)
  PROVE  IInv'
<1>1. Looked(c) /\ call[c].kind = "close" /\ TypeOK
  BY DEF CloseAccounts, IInv
<1>2. CASE Missing(call[c]) = LegsOf(call[c])
  <2>1. /\ call' = [call EXCEPT ![c] = Throw(call[c])]
        /\ UNCHANGED <<chain, used, pending, always, closed, faulty, overlapped>>
    BY <1>2 DEF CloseAccounts, SetCall
  <2>2. faulty \subseteq faulty' /\ faulty' \subseteq Call
    BY <1>1, <2>1 DEF TypeOK
  <2>. QED
    BY <1>1, <2>1, <2>2, ThrowStep DEF Looked
<1>3. CASE Missing(call[c]) # LegsOf(call[c])
  <2>1. PICK u \in Firsts(call[c]) :
          SetCall(c, [call[c] EXCEPT !.pc = "built", !.uses = u])
    BY <1>3 DEF CloseAccounts
  <2>. QED
    BY <1>1, <2>1, FoundKeepsIInv
<1>. QED
  BY <1>2, <1>3

LEMMA SwapKeepsIInv ==
  ASSUME IInv, NEW c \in Call, Swap(c)
  PROVE  IInv'
<1>. DEFINE r == [call[c] EXCEPT !.pc = "building"]
<1>1. /\ Looked(c) /\ call[c].kind = "swap" /\ call[c].pc = "looking"
      /\ call[c].looked = LegsOf(call[c])
  BY DEF Swap, Looked
<1>2. TypeOK /\ call[c] \in Calls /\ call[c] \in Running /\ CallInv(c)
  BY <1>1, NotIdle DEF IInv, Calls
<1>3. PICK u \in Firsts(call[c]) :
        SetCall(c, IF Missing(call[c]) = {}
                   THEN [call[c] EXCEPT !.pc = "built", !.uses = u]
                   ELSE IF Direct(call[c].from, call[c].to)
                   THEN r ELSE Throw(call[c]))
  BY DEF Swap
<1>4. /\ UNCHANGED <<chain, used, pending, always, closed, faulty, overlapped>>
      /\ faulty \subseteq faulty' /\ faulty' \subseteq Call
  BY <1>2, <1>3 DEF SetCall, TypeOK
<1>5. CASE Missing(call[c]) = {}
  BY <1>1, <1>3, <1>5, FoundKeepsIInv
<1>6. CASE Missing(call[c]) # {} /\ Direct(call[c].from, call[c].to)
  <2>1. call' = [call EXCEPT ![c] = r]
    BY <1>3, <1>6 DEF SetCall
  <2>2. /\ r \in Running /\ r.pc = "building" /\ LegsOf(r) = LegsOf(call[c])
        /\ r.kind = call[c].kind /\ r.from = call[c].from /\ r.to = call[c].to
        /\ r.quote = call[c].quote /\ r.looked = call[c].looked
        /\ r.seen = call[c].seen /\ r.creates = call[c].creates
        /\ r.uses = call[c].uses
    BY <1>2 DEF Running, LegsOf
  <2>3. /\ used' \subseteq Account
        /\ c \notin pending' /\ pending' \subseteq pending \cup {c}
    BY <1>1, <1>2, <1>4 DEF TypeOK, IInv, PendingInv
  <2>4. /\ \A p \in r.creates \cup r.uses : p[1] \in LegsOf(r)
        /\ \A p \in r.creates : p[1] \notin always[c]
    BY <1>2, <2>2 DEF CallInv, LegsInv, AbsentInv
  <2>. HIDE DEF r
  <2>. QED
    BY <1>1, <1>4, <2>1, <2>2, <2>3, <2>4, SamePathStep
<1>7. CASE Missing(call[c]) # {} /\ ~Direct(call[c].from, call[c].to)
  <2>1. call' = [call EXCEPT ![c] = Throw(call[c])]
    BY <1>3, <1>7 DEF SetCall
  <2>. QED
    BY <1>1, <1>4, <2>1, ThrowStep
<1>. QED
  BY <1>5, <1>6, <1>7

LEMMA MakeCreateAccountKeepsIInv ==
  ASSUME IInv, NEW c \in Call, NEW m \in Listed, NEW a \in Account,
         MakeCreateAccount(c, m, a)
  PROVE  IInv'
<1>. DEFINE more == call[c].creates \cup {<<m, a>>}
            covered == Missing(call[c]) \subseteq {p[1] : p \in more}
            pc == IF covered THEN "built" ELSE "building"
            r == [call[c] EXCEPT !.creates = more, !.pc = pc]
<1>1. /\ call[c].pc = "building" /\ m \in Missing(call[c])
      /\ used' = used \cup {a}
      /\ UNCHANGED <<chain, pending, always, closed, faulty, overlapped>>
  BY DEF MakeCreateAccount
<1>2. TypeOK /\ call[c] \in Calls /\ call[c] \in Running /\ CallInv(c)
  BY <1>1, NotIdle DEF IInv, Calls
<1>3. {p[1] : p \in more} = {p[1] : p \in call[c].creates} \cup {m}
  <2>1. <<m, a>>[1] = m
    OBVIOUS
  <2>. QED
    BY <2>1
<1>4. call' = [call EXCEPT ![c] = r]
  BY <1>1, <1>2, <1>3 DEF MakeCreateAccount, TypeOK
<1>5. /\ more \in SUBSET (Listed \X Account)
      /\ pc \in {"building", "built"}
      /\ covered => \A n \in Missing(call[c]) : \E p \in more : p[1] = n
      /\ ~covered => pc = "building"
  BY <1>2 DEF Running
<1>6. /\ m \in LegsOf(call[c]) /\ m \notin always[c]
      /\ call[c].looked = LegsOf(call[c])
  BY <1>1, <1>2 DEF CallInv, LegsInv, AbsentInv, Missing
<1>7. /\ \A p \in more \cup call[c].uses : p[1] \in LegsOf(call[c])
      /\ \A p \in more : p[1] \notin always[c]
  BY <1>2, <1>6 DEF CallInv, LegsInv, AbsentInv
<1>. HIDE DEF more, covered, pc
<1>8. /\ r \in Running /\ LegsOf(r) = LegsOf(call[c])
      /\ r.kind = call[c].kind /\ r.from = call[c].from /\ r.to = call[c].to
      /\ r.quote = call[c].quote /\ r.looked = call[c].looked
      /\ r.seen = call[c].seen /\ r.uses = call[c].uses
      /\ r.creates = more /\ r.pc = pc
  BY <1>2, <1>5 DEF Running, LegsOf
<1>9. /\ used' \subseteq Account /\ faulty' \subseteq Call
      /\ c \notin pending' /\ pending' \subseteq pending \cup {c}
  BY <1>1, <1>2 DEF TypeOK, IInv, PendingInv
<1>. HIDE DEF r
<1>10. r.kind = "init" /\ r.pc \in {"built", "sent"} =>
         \A n \in Missing(r) : \E p \in r.creates : p[1] = n
  BY <1>5, <1>8 DEF Missing
<1>11. r.pc # "done"
  BY <1>5, <1>8
<1>. QED
  BY <1>1, <1>4, <1>6, <1>7, <1>8, <1>9, <1>10, <1>11, SamePathStep

-----------------------------------------------------------------------------
\* A call that is built is sent, fails before, or is no longer waited for.
LEMMA AfterBuiltStep ==
  ASSUME IInv, NEW c \in Call, NEW pc \in {"sent", "failed"},
         call[c].pc \in {"built", "sent"},
         call' = [call EXCEPT ![c].pc = pc],
         UNCHANGED <<chain, used, always, closed, overlapped>>,
         pending' \subseteq pending \cup {c},
         faulty \subseteq faulty', faulty' \subseteq Call
  PROVE  IInv'
<1>. DEFINE r == [call[c] EXCEPT !.pc = pc]
<1>1. TypeOK /\ call[c] \in Calls /\ call[c] \in Running /\ CallInv(c)
  BY NotIdle DEF IInv, Calls
<1>2. call' = [call EXCEPT ![c] = r]
  BY <1>1 DEF TypeOK
<1>3. /\ r \in Running /\ r.pc = pc /\ LegsOf(r) = LegsOf(call[c])
      /\ r.kind = call[c].kind /\ r.from = call[c].from /\ r.to = call[c].to
      /\ r.quote = call[c].quote /\ r.looked = call[c].looked
      /\ r.seen = call[c].seen /\ r.uses = call[c].uses
      /\ r.creates = call[c].creates
  BY <1>1 DEF Running, LegsOf
<1>4. /\ call[c].looked = LegsOf(call[c])
      /\ \A p \in r.creates \cup r.uses : p[1] \in LegsOf(r)
      /\ \A p \in r.creates : p[1] \notin always[c]
  BY <1>1, <1>3 DEF CallInv, LegsInv, AbsentInv
<1>5. r.kind = "init" /\ r.pc \in {"built", "sent"} =>
        \A m \in Missing(r) : \E p \in r.creates : p[1] = m
  BY <1>1, <1>3 DEF CallInv, InitInv, Missing
<1>6. used' \subseteq Account
  BY <1>1 DEF TypeOK
<1>. HIDE DEF r
<1>. QED
  BY <1>2, <1>3, <1>4, <1>5, <1>6, SamePathStep

LEMMA RequestFailsKeepsIInv ==
  ASSUME IInv, NEW c \in Call, RequestFails(c)
  PROVE  IInv'
<1>1. /\ c \in faulty' /\ faulty \subseteq faulty' /\ faulty' \subseteq Call
      /\ UNCHANGED <<chain, used, pending, always, closed, overlapped>>
  BY DEF RequestFails, IInv, TypeOK
<1>2. CASE /\ call[c].pc \in {"looking", "building"}
           /\ call' = [call EXCEPT ![c] = Throw(@)]
  BY <1>1, <1>2, ThrowStep
<1>3. CASE /\ call[c].pc = "built"
           /\ call' = [call EXCEPT ![c].pc = "failed"]
  BY <1>1, <1>3, AfterBuiltStep
<1>. QED
  BY <1>2, <1>3 DEF RequestFails

LEMMA SendKeepsIInv ==
  ASSUME IInv, NEW c \in Call, Send(c)
  PROVE  IInv'
  BY AfterBuiltStep DEF Send, IInv, TypeOK

LEMMA ConfirmTimesOutKeepsIInv ==
  ASSUME IInv, NEW c \in Call, ConfirmTimesOut(c)
  PROVE  IInv'
<1>1. /\ call[c].pc = "sent"
      /\ call' = [call EXCEPT ![c] = [call[c] EXCEPT !.pc = "failed"]]
      /\ UNCHANGED <<chain, used, pending, always, closed, faulty, overlapped>>
  BY DEF ConfirmTimesOut, SetCall
<1>2. call' = [call EXCEPT ![c].pc = "failed"]
  BY <1>1 DEF IInv, TypeOK
<1>. QED
  BY <1>1, <1>2, AfterBuiltStep DEF IInv, TypeOK

-----------------------------------------------------------------------------
\* A step of the chain on the transaction of the call c: what was provided
\* stays so, and a call that returns has its new accounts.
LEMMA ChainStep ==
  ASSUME IInv, NEW c \in Call, c \in pending,
         NEW end \in {"done", "failed"}, Confirmed(c, end),
         chain' \in [Listed -> SUBSET Account],
         closed' \subseteq Listed,
         \A m \in Listed : Provided(m) => Provided(m)',
         always' \in [Call -> SUBSET Listed],
         \A d \in Call : always'[d] \subseteq always[d],
         \A d \in Call : \A m \in always'[d] : chain'[m] # {},
         UNCHANGED <<used, faulty, overlapped>>,
         end = "done" /\ call[c].kind = "init" =>
           \A p \in call[c].creates : chain'[p[1]] # {}
  PROVE  IInv'
<1>. DEFINE pc == IF call[c].pc = "sent" THEN end ELSE call[c].pc
            r == [call[c] EXCEPT !.pc = pc]
<1>1. TypeOK /\ call[c].pc \in {"sent", "failed"}
  BY DEF IInv, PendingInv
<1>2. call[c] \in Calls /\ call[c] \in Running /\ CallInv(c)
  BY <1>1, NotIdle DEF IInv, Calls
<1>3. call' = [call EXCEPT ![c] = r] /\ pending' = pending \ {c}
  BY <1>1 DEF Confirmed, TypeOK
<1>4. /\ pc \in {"done", "failed"}
      /\ pc = "done" => end = "done" /\ call[c].pc = "sent"
  BY <1>1
<1>. HIDE DEF pc
<1>5. /\ r \in Running /\ r.pc = pc /\ LegsOf(r) = LegsOf(call[c])
      /\ r.kind = call[c].kind /\ r.from = call[c].from /\ r.to = call[c].to
      /\ r.quote = call[c].quote /\ r.looked = call[c].looked
      /\ r.seen = call[c].seen /\ r.uses = call[c].uses
      /\ r.creates = call[c].creates
  BY <1>2, <1>4 DEF Running, LegsOf
<1>. HIDE DEF r
<1>6. r \in Calls
  BY <1>1, <1>2, <1>4, <1>5 DEF Calls
<1>7. call'[c] = r /\ \A d \in Call \ {c} : call'[d] = call[d]
  BY <1>1, <1>3 DEF TypeOK
<1>8. TypeOK'
  BY <1>1, <1>3, <1>6 DEF TypeOK
<1>9. CallInv(c)'
  <2>1. LegsInv(r) /\ AbsentInv(c)'
    BY <1>2, <1>4, <1>5, <1>7 DEF CallInv, LegsInv, AbsentInv
  <2>2. r.looked \subseteq Listed
    BY <1>5 DEF Running
  <2>3. FoundInv(c)'
    BY <1>2, <1>5, <1>7, <2>2 DEF CallInv, FoundInv
  <2>4. PathInv(c)'
    BY <1>2, <1>5, <1>7, PathInvNext DEF CallInv, PathInv, SwapPath
  <2>5. ASSUME r.kind = "init", r.pc = "done", NEW m \in LegsOf(r)
        PROVE  Provided(m)'
    <3>1. m \in call[c].looked /\ m \in Listed
      BY <1>1, <1>2, <1>4, <1>5, <2>2, <2>5 DEF CallInv, LegsInv
    <3>2. CASE call[c].seen[m] # {}
      BY <1>2, <3>1, <3>2 DEF CallInv, FoundInv
    <3>3. CASE call[c].seen[m] = {}
      <4>1. m \in Missing(call[c])
        BY <1>5, <2>5, <3>3 DEF Missing
      <4>2. PICK p \in call[c].creates : p[1] = m
        BY <1>2, <1>4, <1>5, <2>5, <4>1 DEF CallInv, InitInv
      <4>. QED
        BY <1>4, <1>5, <2>5, <4>2 DEF Provided
    <3>. QED
      BY <3>2, <3>3
  <2>6. InitInv(c)'
    BY <1>4, <1>5, <1>7, <2>5 DEF InitInv, LegsOf, Legs
  <2>. QED
    BY <1>7, <2>1, <2>3, <2>4, <2>6 DEF CallInv, LegsInv, LegsOf, Legs
<1>10. ASSUME NEW d \in Call, call'[d] # Idle
       PROVE  CallInv(d)'
  <2>1. CASE d = c
    BY <1>9, <2>1
  <2>2. CASE d # c
    BY <1>7, <1>10, <2>2, CallInvStable
  <2>. QED
    BY <2>1, <2>2
<1>11. PendingInv'
  BY <1>3, <1>7 DEF IInv, PendingInv
<1>12. AlwaysInv'
  BY DEF AlwaysInv
<1>. QED
  BY <1>8, <1>10, <1>11, <1>12 DEF IInv

LEMMA TransactionLandsKeepsIInv ==
  ASSUME IInv, NEW c \in Call, TransactionLands(c)
  PROVE  IInv'
<1>1. /\ c \in pending /\ Confirmed(c, "done")
      /\ chain' = After(call[c])
      /\ always' = [d \in Call |-> {m \in always[d] : chain'[m] # {}}]
      /\ UNCHANGED <<used, faulty, overlapped>>
  BY DEF TransactionLands
<1>2. TypeOK /\ call[c].pc \in {"sent", "failed"}
  BY <1>1 DEF IInv, PendingInv
<1>3. call[c] \in Running
  BY <1>2, NotIdle DEF Calls
<1>4. /\ call[c].creates \subseteq Listed \X Account
      /\ call[c].uses \subseteq Listed \X Account
      /\ call[c].kind \in {"init", "close", "swap"}
  BY <1>3 DEF Running
<1>5. chain' \in [Listed -> SUBSET Account]
  BY <1>1, <1>2, <1>4 DEF After, Accounts, TypeOK
<1>6. closed \subseteq closed' /\ closed' \subseteq Listed
  BY <1>2, <1>4 DEF TransactionLands, TypeOK
<1>7. \A m \in Listed : Provided(m) => Provided(m)'
  <2>1. CASE call[c].kind = "close"
    <3>1. closed' = closed \cup {p[1] : p \in call[c].uses}
      BY <2>1 DEF TransactionLands
    <3>2. ASSUME NEW m \in Listed, Accounts(call[c].uses, m) # {}
          PROVE  m \in closed'
      BY <3>1, <3>2 DEF Accounts
    <3>3. \A m \in Listed : Accounts(call[c].uses, m) = {} => chain'[m] = chain[m]
      BY <1>1, <2>1 DEF After
    <3>. QED
      BY <1>6, <3>2, <3>3 DEF Provided
  <2>2. CASE call[c].kind # "close"
    <3>1. \A m \in Listed : chain[m] \subseteq chain'[m]
      BY <1>1, <2>2 DEF After
    <3>. QED
      BY <1>6, <3>1 DEF Provided
  <2>. QED
    BY <2>1, <2>2
<1>8. ASSUME call[c].kind = "init", NEW p \in call[c].creates
      PROVE  chain'[p[1]] # {}
  <2>1. p[1] \in Listed
    BY <1>4
  <2>2. p[2] \in Accounts(call[c].creates, p[1])
    BY DEF Accounts
  <2>. QED
    BY <1>1, <1>8, <2>1, <2>2 DEF After
<1>9. /\ always' \in [Call -> SUBSET Listed]
      /\ \A d \in Call : always'[d] \subseteq always[d]
      /\ \A d \in Call : \A m \in always'[d] : chain'[m] # {}
  BY <1>1, <1>2 DEF TypeOK
<1>. QED
  BY <1>1, <1>5, <1>6, <1>7, <1>8, <1>9, ChainStep

LEMMA TransactionErrsKeepsIInv ==
  ASSUME IInv, NEW c \in Call, TransactionErrs(c)
  PROVE  IInv'
<1>1. /\ c \in pending /\ Confirmed(c, "failed")
      /\ UNCHANGED <<chain, used, always, closed, faulty, overlapped>>
  BY DEF TransactionErrs
<1>2. /\ chain' \in [Listed -> SUBSET Account] /\ closed' \subseteq Listed
      /\ always' \in [Call -> SUBSET Listed]
      /\ \A m \in Listed : Provided(m) => Provided(m)'
      /\ \A d \in Call : \A m \in always'[d] : chain'[m] # {}
  BY <1>1 DEF IInv, TypeOK, AlwaysInv, Provided
<1>. QED
  BY <1>1, <1>2, ChainStep

LEMMA TransactionExpiresKeepsIInv ==
  ASSUME IInv, NEW c \in Call, TransactionExpires(c)
  PROVE  IInv'
<1>1. /\ pending' = pending \ {c}
      /\ UNCHANGED <<chain, call, used, always, closed, faulty, overlapped>>
  BY DEF TransactionExpires
<1>2. \A m \in Listed : Provided(m) => Provided(m)'
  BY <1>1 DEF Provided
<1>3. \A d \in Call : call'[d] # Idle => CallInv(d)'
  BY <1>1, <1>2, CallInvStable
<1>4. TypeOK' /\ PendingInv' /\ AlwaysInv'
  BY <1>1 DEF IInv, TypeOK, PendingInv, AlwaysInv
<1>. QED
  BY <1>3, <1>4 DEF IInv

-----------------------------------------------------------------------------
LEMMA NextKeepsIInv == IInv /\ [Next]_vars => IInv'
<1>. SUFFICES ASSUME IInv, [Next]_vars PROVE IInv'
  OBVIOUS
<1>1. ASSUME NEW c \in Call, NEW kind \in {"init", "close", "swap"},
             NEW p \in Pair, Begin(c, kind, p[1], p[2])
      PROVE  IInv'
  BY <1>1, BeginKeepsIInv
<1>2. ASSUME NEW c \in Call, NEW m \in Listed, Look(c, m)
      PROVE  IInv'
  BY <1>2, LookKeepsIInv
<1>3. ASSUME NEW c \in Call, NEW m \in Listed, NEW a \in Account,
             MakeCreateAccount(c, m, a)
      PROVE  IInv'
  BY <1>3, MakeCreateAccountKeepsIInv
<1>4. ASSUME NEW c \in Call,
             InitAccounts(c) \/ CloseAccounts(c) \/ Swap(c)
      PROVE  IInv'
  BY <1>4, InitAccountsKeepsIInv, CloseAccountsKeepsIInv, SwapKeepsIInv
<1>5. ASSUME NEW c \in Call,
             RequestFails(c) \/ Send(c) \/ ConfirmTimesOut(c)
      PROVE  IInv'
  BY <1>5, RequestFailsKeepsIInv, SendKeepsIInv, ConfirmTimesOutKeepsIInv
<1>6. ASSUME NEW c \in Call, Chain(c)
      PROVE  IInv'
  BY <1>6, TransactionLandsKeepsIInv, TransactionErrsKeepsIInv,
     TransactionExpiresKeepsIInv DEF Chain
<1>7. CASE UNCHANGED vars
  <2>1. UNCHANGED <<chain, call, used, pending, always, closed, faulty, overlapped>>
    BY <1>7 DEF vars
  <2>2. \A m \in Listed : Provided(m) => Provided(m)'
    BY <2>1 DEF Provided
  <2>3. \A d \in Call : call'[d] # Idle => CallInv(d)'
    BY <2>1, <2>2, CallInvStable
  <2>4. TypeOK' /\ PendingInv' /\ AlwaysInv'
    BY <2>1 DEF IInv, TypeOK, PendingInv, AlwaysInv
  <2>. QED
    BY <2>3, <2>4 DEF IInv
<1>. QED
  BY <1>1, <1>2, <1>3, <1>4, <1>5, <1>6, <1>7 DEF Next, Step

LEMMA IInvImplies == IInv => OnePath /\ NoNeedlessAccount /\ InitProvides
<1>. SUFFICES ASSUME IInv PROVE OnePath /\ NoNeedlessAccount /\ InitProvides
  OBVIOUS
<1>1. OnePath
  BY DEF OnePath, IInv, CallInv, LegsInv
<1>2. NoNeedlessAccount
  BY DEF NoNeedlessAccount, IInv, CallInv, AbsentInv
<1>3. ASSUME NEW c \in Call, call[c].pc = "done", call[c].kind = "init",
             c \notin faulty, NEW m \in SwapPath(call[c].from, call[c].to)
      PROVE  Provided(m)
  <2>1. CallInv(c)
    BY <1>3, NotIdle DEF IInv
  <2>. QED
    BY <1>3, <2>1 DEF CallInv, PathInv, InitInv
<1>4. InitProvides
  BY <1>3 DEF InitProvides, Provided
<1>. QED
  BY <1>1, <1>2, <1>4

-----------------------------------------------------------------------------
\* What a call has found is still so, and what it creates is the only account of
\* its market.
CleanInv(c) ==
  /\ \A m \in call[c].looked : call[c].seen[m] = chain[m]
  /\ \A p, q \in call[c].creates : chain[p[1]] = {} /\ (p[1] = q[1] => p = q)

\* While no call has overlapped another, at most one is under way, transaction
\* included, and nothing has changed under it.
LoneInv ==
  ~overlapped =>
    /\ \A c, d \in Call : ~Ended(c) /\ ~Ended(d) => c = d
    /\ \A c \in Call : ~Ended(c) => CleanInv(c)
    /\ \A m \in Listed : \A a, b \in chain[m] : a = b

LEMMA InitLoneInv == Init => LoneInv
  BY DEF Init, LoneInv, Ended, Idle

\* A step of the call that is under way, which leaves the chain alone.
LEMMA LoneStep ==
  ASSUME TypeOK, LoneInv, NEW c \in Call, ~Ended(c), NEW r,
         call' = [call EXCEPT ![c] = r],
         UNCHANGED <<chain, overlapped>>,
         pending' \cup {c} = pending \cup {c},
         CleanInv(c) => Ended(c)' \/ CleanInv(c)'
  PROVE  LoneInv'
<1>. SUFFICES ASSUME ~overlapped PROVE LoneInv'
  BY DEF LoneInv
<1>1. \A d \in Call \ {c} : Ended(d)
  BY DEF LoneInv
<1>2. \A d \in Call \ {c} : Ended(d)'
  BY <1>1 DEF Ended, TypeOK
<1>3. Ended(c)' \/ CleanInv(c)'
  BY DEF LoneInv
<1>. QED
  BY <1>2, <1>3 DEF LoneInv

\* Such a step that keeps what was looked up and what is to be created.
LEMMA LoneSame ==
  ASSUME TypeOK, LoneInv, NEW c \in Call, ~Ended(c), NEW r,
         call' = [call EXCEPT ![c] = r],
         UNCHANGED <<chain, overlapped>>,
         pending' \cup {c} = pending \cup {c},
         \/ r.looked = {} /\ r.creates = {}
         \/ /\ r.looked = call[c].looked /\ r.creates = call[c].creates
            /\ r.seen = call[c].seen
  PROVE  LoneInv'
<1>1. call'[c] = r
  BY DEF TypeOK
<1>2. CleanInv(c) => CleanInv(c)'
  BY <1>1 DEF CleanInv
<1>. QED
  BY <1>2, LoneStep

LEMMA BeginKeepsLone ==
  ASSUME IInv, LoneInv, NEW c \in Call, NEW kind \in {"init", "close", "swap"},
         NEW p \in Pair, Begin(c, kind, p[1], p[2])
  PROVE  LoneInv'
<1>1. /\ call' = [call EXCEPT
             ![c] = Attempt(kind, p[1], p[2], FirstQuote(p[1], p[2]))]
      /\ overlapped' = (overlapped \/ \E d \in Call : ~Ended(d))
      /\ chain' = chain /\ pending' = pending
  BY DEF Begin
<1>. SUFFICES ASSUME ~overlapped, \A d \in Call : Ended(d)
     PROVE  LoneInv'
  BY <1>1 DEF LoneInv
<1>2. /\ call'[c].looked = {} /\ call'[c].creates = {}
      /\ \A d \in Call \ {c} : call'[d] = call[d]
  BY <1>1 DEF IInv, TypeOK, Attempt
<1>3. \A d \in Call \ {c} : Ended(d)'
  BY <1>1, <1>2 DEF Ended
<1>4. CleanInv(c)'
  BY <1>2 DEF CleanInv
<1>. QED
  BY <1>1, <1>3, <1>4 DEF LoneInv

LEMMA LookKeepsLone ==
  ASSUME IInv, LoneInv, NEW c \in Call, NEW m \in Listed, Look(c, m)
  PROVE  LoneInv'
<1>. DEFINE r == [call[c] EXCEPT !.looked = @ \cup {m}, !.seen[m] = chain[m]]
<1>1. TypeOK /\ ~Ended(c) /\ call[c] \in Running
  BY NotIdle DEF IInv, Look, Ended, Calls
<1>2. /\ call' = [call EXCEPT ![c] = r]
      /\ UNCHANGED <<chain, pending, overlapped>>
  BY LookCall DEF Look, IInv
<1>3. /\ r.looked = call[c].looked \cup {m} /\ r.creates = call[c].creates
      /\ r.seen[m] = chain[m]
      /\ \A l \in Listed : l # m => r.seen[l] = call[c].seen[l]
      /\ call[c].looked \subseteq Listed
  BY <1>1 DEF Running
<1>. HIDE DEF r
<1>4. call'[c] = r
  BY <1>1, <1>2 DEF TypeOK
<1>5. CleanInv(c) => CleanInv(c)'
  BY <1>2, <1>3, <1>4 DEF CleanInv
<1>. QED
  BY <1>1, <1>2, <1>5, LoneStep

\* A step of a call that goes on, or throws.
LEMMA GoesOn ==
  ASSUME IInv, LoneInv, NEW c \in Call,
         call[c].pc \in {"looking", "building", "built", "sent"},
         NEW pc, NEW u,
         \/ call' = [call EXCEPT ![c] = Throw(call[c])]
         \/ call' = [call EXCEPT ![c] = [call[c] EXCEPT !.pc = pc]]
         \/ call' = [call EXCEPT ![c] = [call[c] EXCEPT !.pc = pc, !.uses = u]],
         UNCHANGED <<chain, overlapped>>,
         pending' \cup {c} = pending \cup {c}
  PROVE  LoneInv'
<1>1. TypeOK /\ ~Ended(c) /\ call[c] \in Calls /\ LegsInv(call[c])
  BY NotIdle DEF IInv, Ended, CallInv
<1>2. CASE call' = [call EXCEPT ![c] = Throw(call[c])]
  <2>1. \/ Throw(call[c]).looked = {} /\ Throw(call[c]).creates = {}
        \/ /\ Throw(call[c]).looked = call[c].looked
           /\ Throw(call[c]).creates = call[c].creates
           /\ Throw(call[c]).seen = call[c].seen
    BY <1>1, ThrowFacts
  <2>. QED
    BY <1>1, <1>2, <2>1, LoneSame
<1>3. CASE call' = [call EXCEPT ![c] = [call[c] EXCEPT !.pc = pc]]
  <2>. DEFINE r == [call[c] EXCEPT !.pc = pc]
  <2>1. /\ r.looked = call[c].looked /\ r.creates = call[c].creates
        /\ r.seen = call[c].seen
    BY <1>1 DEF Calls, Running
  <2>2. call' = [call EXCEPT ![c] = r]
    BY <1>3
  <2>. HIDE DEF r
  <2>. QED
    BY <1>1, <2>1, <2>2, LoneSame
<1>4. CASE call' = [call EXCEPT ![c] = [call[c] EXCEPT !.pc = pc, !.uses = u]]
  <2>. DEFINE r == [call[c] EXCEPT !.pc = pc, !.uses = u]
  <2>1. /\ r.looked = call[c].looked /\ r.creates = call[c].creates
        /\ r.seen = call[c].seen
    BY <1>1 DEF Calls, Running
  <2>2. call' = [call EXCEPT ![c] = r]
    BY <1>4
  <2>. HIDE DEF r
  <2>. QED
    BY <1>1, <2>1, <2>2, LoneSame
<1>. QED
  BY <1>2, <1>3, <1>4

LEMMA DecisionsKeepLone ==
  ASSUME IInv, LoneInv, NEW c \in Call,
         InitAccounts(c) \/ CloseAccounts(c) \/ Swap(c)
  PROVE  LoneInv'
<1>1. CASE InitAccounts(c)
  BY <1>1, GoesOn DEF InitAccounts, Looked, SetCall
<1>2. CASE CloseAccounts(c)
  <2>1. PICK u \in Firsts(call[c]) :
          SetCall(c, IF Missing(call[c]) = LegsOf(call[c]) THEN Throw(call[c])
                     ELSE [call[c] EXCEPT !.pc = "built", !.uses = u])
    BY <1>2 DEF CloseAccounts
  <2>2. call[c].pc = "looking"
    BY <1>2 DEF CloseAccounts, Looked
  <2>. QED
    BY <2>1, <2>2, GoesOn DEF SetCall
<1>3. CASE Swap(c)
  <2>1. PICK u \in Firsts(call[c]) :
          SetCall(c, IF Missing(call[c]) = {}
                     THEN [call[c] EXCEPT !.pc = "built", !.uses = u]
                     ELSE IF Direct(call[c].from, call[c].to)
                     THEN [call[c] EXCEPT !.pc = "building"]
                     ELSE Throw(call[c]))
    BY <1>3 DEF Swap
  <2>2. call[c].pc = "looking"
    BY <1>3 DEF Swap, Looked
  <2>. QED
    BY <2>1, <2>2, GoesOn DEF SetCall
<1>. QED
  BY <1>1, <1>2, <1>3

LEMMA RequestsKeepLone ==
  ASSUME IInv, LoneInv, NEW c \in Call,
         RequestFails(c) \/ Send(c) \/ ConfirmTimesOut(c)
  PROVE  LoneInv'
<1>1. CASE RequestFails(c)
  <2>1. \/ call' = [call EXCEPT ![c] = Throw(call[c])]
        \/ call' = [call EXCEPT ![c] = [call[c] EXCEPT !.pc = "failed"]]
    BY <1>1 DEF RequestFails, IInv, TypeOK
  <2>2. /\ call[c].pc \in {"looking", "building", "built"}
        /\ UNCHANGED <<chain, pending, overlapped>>
    BY <1>1 DEF RequestFails
  <2>. QED
    BY <2>1, <2>2, GoesOn
<1>2. CASE Send(c)
  <2>1. call' = [call EXCEPT ![c] = [call[c] EXCEPT !.pc = "sent"]]
    BY <1>2 DEF Send, IInv, TypeOK
  <2>2. /\ call[c].pc = "built" /\ pending' = pending \cup {c}
        /\ UNCHANGED <<chain, overlapped>>
    BY <1>2 DEF Send
  <2>. QED
    BY <2>1, <2>2, GoesOn
<1>3. CASE ConfirmTimesOut(c)
  BY <1>3, GoesOn DEF ConfirmTimesOut, SetCall
<1>. QED
  BY <1>1, <1>2, <1>3

\* The market of a new account was found without one, and gets no other.
LEMMA MakeCreateAccountKeepsLone ==
  ASSUME IInv, LoneInv, NEW c \in Call, NEW m \in Listed, NEW a \in Account,
         MakeCreateAccount(c, m, a)
  PROVE  LoneInv'
<1>. DEFINE created == {p[1] : p \in call[c].creates}
            new == IF Missing(call[c]) \subseteq created \cup {m}
                   THEN "built" ELSE call[c].pc
            r == [call[c] EXCEPT !.creates = @ \cup {<<m, a>>}, !.pc = new]
<1>1. /\ TypeOK /\ ~Ended(c) /\ call[c].pc = "building"
      /\ call[c] \in Running /\ LegsInv(call[c])
  BY NotIdle DEF IInv, MakeCreateAccount, Ended, Calls, CallInv
<1>2. /\ call' = [call EXCEPT ![c] = r]
      /\ UNCHANGED <<chain, pending, overlapped>>
      /\ m \in Missing(call[c]) /\ m \notin created
  BY <1>1 DEF MakeCreateAccount, Turn, TypeOK
<1>3. /\ r.looked = call[c].looked /\ r.seen = call[c].seen
      /\ r.creates = call[c].creates \cup {<<m, a>>}
  BY <1>1 DEF Running
<1>4. \A p \in call[c].creates : p[1] # m
  BY <1>2
<1>. HIDE DEF r, created
<1>5. call'[c] = r
  BY <1>1, <1>2 DEF TypeOK
<1>6. CleanInv(c) => chain[m] = {}
  BY <1>1, <1>2 DEF CleanInv, LegsInv, Missing
<1>7. CleanInv(c) => CleanInv(c)'
  BY <1>2, <1>3, <1>4, <1>5, <1>6 DEF CleanInv
<1>. QED
  BY <1>1, <1>2, <1>7, LoneStep

\* A transaction adds one account at most to a market, and only if it has none.
LEMMA TransactionLandsKeepsLone ==
  ASSUME IInv, LoneInv, NEW c \in Call, TransactionLands(c)
  PROVE  LoneInv'
<1>1. /\ c \in pending /\ Confirmed(c, "done") /\ chain' = After(call[c])
      /\ overlapped' = overlapped
  BY DEF TransactionLands
<1>2. TypeOK /\ call[c].pc \in {"sent", "failed"} /\ ~Ended(c)
  BY <1>1 DEF IInv, PendingInv, Ended
<1>. SUFFICES ASSUME ~overlapped PROVE LoneInv'
  BY <1>1 DEF LoneInv
<1>3. /\ \A d \in Call \ {c} : Ended(d)
      /\ CleanInv(c)
      /\ \A m \in Listed : \A a, b \in chain[m] : a = b
  BY <1>2 DEF LoneInv
<1>4. call[c] \in Running
  BY <1>2, NotIdle DEF Calls
<1>5. ASSUME NEW d \in Call PROVE Ended(d)'
  <2>1. CASE d = c
    <3>1. call'[c].pc \in {"done", "failed"} /\ c \notin pending'
      BY <1>1, <1>2, <1>4 DEF Confirmed, TypeOK, Running
    <3>. QED
      BY <2>1, <3>1 DEF Ended
  <2>2. CASE d # c
    <3>1. call'[d] = call[d] /\ pending' \subseteq pending
      BY <1>1, <1>2, <2>2 DEF Confirmed, TypeOK
    <3>. QED
      BY <1>3, <2>2, <3>1 DEF Ended
  <2>. QED
    BY <2>1, <2>2
<1>6. ASSUME NEW m \in Listed, NEW a \in chain'[m], NEW b \in chain'[m]
      PROVE  a = b
  <2>1. CASE call[c].kind = "close"
    <3>1. chain'[m] \subseteq chain[m]
      BY <1>1, <2>1 DEF After
    <3>. QED
      BY <1>3, <1>6, <3>1
  <2>2. CASE call[c].kind # "close"
    <3>1. chain'[m] = chain[m] \cup Accounts(call[c].creates, m)
      BY <1>1, <2>2 DEF After
    <3>2. \A x \in Accounts(call[c].creates, m) :
            chain[m] = {} /\ \E p \in call[c].creates : p[1] = m /\ p[2] = x
      BY <1>3 DEF Accounts, CleanInv
    <3>3. \A x, y \in Accounts(call[c].creates, m) : x = y
      BY <1>3, <3>2 DEF CleanInv
    <3>. QED
      BY <1>3, <1>6, <3>1, <3>2, <3>3
  <2>. QED
    BY <2>1, <2>2
<1>. QED
  BY <1>5, <1>6 DEF LoneInv

LEMMA TransactionFailsKeepsLone ==
  ASSUME IInv, LoneInv, NEW c \in Call,
         TransactionErrs(c) \/ TransactionExpires(c)
  PROVE  LoneInv'
<1>1. /\ c \in pending /\ pending' = pending \ {c}
      /\ UNCHANGED <<chain, overlapped>>
      /\ call' = call \/ Confirmed(c, "failed")
  BY DEF TransactionErrs, TransactionExpires, Confirmed
<1>2. TypeOK /\ call[c].pc \in {"sent", "failed"} /\ ~Ended(c)
  BY <1>1 DEF IInv, PendingInv, Ended
<1>3. call[c] \in Running
  BY <1>2, NotIdle DEF Calls
<1>4. \E r : /\ call' = [call EXCEPT ![c] = r]
             /\ r.looked = call[c].looked /\ r.creates = call[c].creates
             /\ r.seen = call[c].seen
  <2>1. CASE call' = call
    BY <1>2, <2>1 DEF TypeOK
  <2>2. CASE Confirmed(c, "failed")
    <3>. DEFINE r == [call[c] EXCEPT !.pc = IF @ = "sent" THEN "failed" ELSE @]
    <3>1. call' = [call EXCEPT ![c] = r]
      BY <1>2, <2>2 DEF Confirmed, TypeOK
    <3>2. /\ r.looked = call[c].looked /\ r.creates = call[c].creates
          /\ r.seen = call[c].seen
      BY <1>3 DEF Running
    <3>. HIDE DEF r
    <3>. QED
      BY <3>1, <3>2
  <2>. QED
    BY <1>1, <2>1, <2>2
<1>5. PICK r : /\ call' = [call EXCEPT ![c] = r]
               /\ r.looked = call[c].looked /\ r.creates = call[c].creates
               /\ r.seen = call[c].seen
  BY <1>4
<1>6. pending' \cup {c} = pending \cup {c}
  BY <1>1
<1>. QED
  BY <1>1, <1>2, <1>5, <1>6, LoneSame

LEMMA NextKeepsLone == IInv /\ LoneInv /\ [Next]_vars => LoneInv'
<1>. SUFFICES ASSUME IInv, LoneInv, [Next]_vars PROVE LoneInv'
  OBVIOUS
<1>1. ASSUME NEW c \in Call, NEW kind \in {"init", "close", "swap"},
             NEW p \in Pair, Begin(c, kind, p[1], p[2])
      PROVE  LoneInv'
  BY <1>1, BeginKeepsLone
<1>2. ASSUME NEW c \in Call, NEW m \in Listed, Look(c, m)
      PROVE  LoneInv'
  BY <1>2, LookKeepsLone
<1>3. ASSUME NEW c \in Call, NEW m \in Listed, NEW a \in Account,
             MakeCreateAccount(c, m, a)
      PROVE  LoneInv'
  BY <1>3, MakeCreateAccountKeepsLone
<1>4. ASSUME NEW c \in Call,
             \/ InitAccounts(c) \/ CloseAccounts(c) \/ Swap(c)
             \/ RequestFails(c) \/ Send(c) \/ ConfirmTimesOut(c)
      PROVE  LoneInv'
  BY <1>4, DecisionsKeepLone, RequestsKeepLone
<1>5. ASSUME NEW c \in Call, Chain(c)
      PROVE  LoneInv'
  BY <1>5, TransactionLandsKeepsLone, TransactionFailsKeepsLone DEF Chain
<1>6. CASE UNCHANGED vars
  BY <1>6 DEF vars, LoneInv, CleanInv, Ended
<1>. QED
  BY <1>1, <1>2, <1>3, <1>4, <1>5, <1>6 DEF Next, Step

LEMMA AtMostOne ==
  ASSUME NEW S, \A a, b \in S : a = b
  PROVE  Cardinality(S) <= 1
<1>1. CASE S = {}
  BY <1>1, FS_EmptySet
<1>2. CASE S # {}
  <2>1. PICK x \in S : TRUE
    BY <1>2
  <2>2. S = {x}
    BY <2>1
  <2>. QED
    BY <2>2, FS_Singleton
<1>. QED
  BY <1>1, <1>2

LEMMA LoneInvImplies == LoneInv => OneAccountEach
  BY AtMostOne DEF LoneInv, OneAccountEach

-----------------------------------------------------------------------------
\* IInv is an inductive invariant.
THEOREM Invariant == Spec => []IInv
  BY InitIInv, NextKeepsIInv, PTL DEF Spec

\* Every variable keeps its type: no call that runs is on a path with a market
\* that is not on the token list.
THEOREM TypeCorrect == Spec => []TypeOK
<1>1. IInv => TypeOK
  BY DEF IInv
<1>. QED
  BY Invariant, <1>1, PTL

\* No transaction mixes the paths over the two stable coins.
THEOREM OnePathHolds == Spec => []OnePath
  BY Invariant, IInvImplies, PTL

\* An account that was there throughout a call is never created again by it.
THEOREM NoNeedlessAccountHolds == Spec => []NoNeedlessAccount
  BY Invariant, IInvImplies, PTL

\* An initAccounts that returns has provided what a swap of its tokens needs.
THEOREM InitProvidesHolds == Spec => []InitProvides
  BY Invariant, IInvImplies, PTL

\* While calls do not overlap, transactions in flight included, no market gets a
\* second account, whichever calls are made and however they fail.
THEOREM OneAccountEachHolds == Spec => []OneAccountEach
  BY Invariant, InitLoneInv, NextKeepsLone, LoneInvImplies, PTL DEF Spec

\* Whatever markets are listed, pairs offers for a token every token that swap has a
\* path to, and no other, but for a stable coin that is quoted in the other one.
THEOREM PairsHavePathsHolds == Spec => []PairsHavePaths
<1>1. ASSUME NEW list \in SUBSET {m \in Usdx \X Mint : m[1] # m[2]}
      PROVE  Queries(list)!PairsArePaths
  <2>. SUFFICES
         ASSUME NEW from \in Queries(list)!Tokens \ Usdx, NEW to \in Mint \ {from}
         PROVE  /\ Queries(list)!HasPath(from, to) => to \in Queries(list)!Pairs(from)
                /\ to \in Queries(list)!Pairs(from)
                     /\ to \notin Queries(list)!Tokens \cap Usdx
                   => Queries(list)!HasPath(from, to)
    BY DEF Queries!PairsArePaths, Usdx, Queries!Usdx
  <2>. QED
    BY MintAssumption
    DEF Queries!Tokens, Queries!HasPath, Queries!Pairs, Queries!QuotedWith,
        Queries!Quoted, Queries!SwapPath, Queries!FirstQuote, Queries!Legs,
        Queries!Usdx, Usdx
<1>2. PairsHavePaths
  BY <1>1 DEF PairsHavePaths
<1>. QED
  BY <1>2, PTL
=============================================================================
