---------------------------- MODULE SwapAccounts ----------------------------
(***************************************************************************)
(* The open-orders accounts of a wallet as the swap client looks after     *)
(* them: initAccounts, closeAccounts, and the lookups of swap.             *)
(*                                                                         *)
(* Where a path goes through a stable coin, initAccounts and closeAccounts *)
(* try the one through USDC and, if that throws for whatever reason, the   *)
(* one through USDT.                                                       *)
(*                                                                         *)
(* Each call is an asynchronous function of one JavaScript thread.  The    *)
(* RPC node and the chain appear as the code uses them.                    *)
(***************************************************************************)
EXTENDS SwapPaths, FiniteSets

CONSTANTS
  Pair,     \* <<from, to>>: the tokens callers pass as fromMint and toMint
  Call,     \* asynchronous calls, each made once
  Account   \* addresses of open-orders accounts

ASSUME ListedAssumption == Listed \subseteq Usdx \X Mint
ASSUME PairAssumption ==
  Pair \subseteq {p \in Mint \X Mint : p[1] # p[2]}

VARIABLES
  chain,     \* chain[m]: the wallet's open-orders accounts on the market m
  call,      \* call[c]: where the call c stands, with its local variables
  used,      \* addresses that new Account() has given out, or that exist
  pending,   \* calls whose transaction is in flight
  always,    \* history: always[c]: markets that have never been without an
             \* account since c began
  closed,    \* history: markets on which an account was closed
  faulty,    \* history: calls of which a request failed
  overlapped \* history: a call began before another had ended, transaction
             \* included

vars == <<chain, call, used, pending, always, closed, faulty, overlapped>>

-----------------------------------------------------------------------------
(***************************************************************************)
(* pc:  looking   findForMarketAndOwner requested for the next leg         *)
(*      building  makeCreateAccountTransaction awaits the rent exemption   *)
(*      built     the instructions are complete; send is called            *)
(*      sent      the transaction is sent and not confirmed                *)
(*      done      the call has returned     failed   the call has thrown   *)
(***************************************************************************)
Idle == [pc |-> "idle"]

Running ==
  [pc : {"looking", "building", "built", "sent", "done", "failed"},
   kind : {"init", "close", "swap"},
   from : Mint, to : Mint, quote : Usdx,
   looked : SUBSET Listed,               \* the legs looked up
   seen : [Listed -> SUBSET Account],    \* the accounts found on them
   creates : SUBSET (Listed \X Account),  \* what the instructions create
   uses : SUBSET (Listed \X Account)]     \* what they use, or close

LegsOf(r) == Legs(r.quote, r.from, r.to)

\* Only a call that has failed ever looked for a market that is not listed.
Calls == {r \in Running : r.pc # "failed" => LegsOf(r) \subseteq Listed}

TypeOK ==
  /\ chain \in [Listed -> SUBSET Account]
  /\ call \in [Call -> Calls \cup {Idle}]
  /\ used \subseteq Account
  /\ pending \subseteq Call
  /\ always \in [Call -> SUBSET Listed]
  /\ closed \subseteq Listed
  /\ faulty \subseteq Call
  /\ overlapped \in BOOLEAN

Init ==
  /\ chain \in [Listed -> SUBSET Account]
  /\ \A m \in Listed : \A a, b \in chain[m] : a = b
  /\ \A m, n \in Listed : m # n => chain[m] \cap chain[n] = {}
  /\ call = [c \in Call |-> Idle]
  /\ used = UNION {chain[m] : m \in Listed}
  /\ pending = {}
  /\ always = [c \in Call |-> {}]
  /\ closed = {}
  /\ faulty = {}
  /\ overlapped = FALSE

\* Mutant: a market that is not listed is not noticed.
Attempt_Unchecked(kind, from, to, quote) ==
  [pc |-> "looking",
   kind |-> kind, from |-> from, to |-> to, quote |-> quote, looked |-> {},
   seen |-> [m \in Listed |-> {}], creates |-> {}, uses |-> {}]

\* One attempt over one path.  It throws at once if a market is not listed.
Attempt(kind, from, to, quote) ==
  [pc |-> IF Legs(quote, from, to) \subseteq Listed THEN "looking" ELSE "failed",
   kind |-> kind, from |-> from, to |-> to, quote |-> quote,
   looked |-> {},
   seen |-> [m \in Listed |-> {}], creates |-> {}, uses |-> {}]

\* Mutant: the instructions of the first attempt are kept.
Throw_KeepsInstructions(r) ==
  IF r.kind # "swap" /\ ~Direct(r.from, r.to) /\ r.quote = Usdc
  THEN [Attempt(r.kind, r.from, r.to, Usdt) EXCEPT !.creates = r.creates]
  ELSE [r EXCEPT !.pc = "failed"]

\* What an error leads to while the instructions are built: the catch of
\* initAccounts and closeAccounts takes any error for a path that does not exist.
Throw(r) ==
  IF r.kind # "swap" /\ ~Direct(r.from, r.to) /\ r.quote = Usdc
  THEN Attempt(r.kind, r.from, r.to, Usdt)
  ELSE [r EXCEPT !.pc = "failed"]

Ended(c) == call[c].pc \in {"idle", "done", "failed"} /\ c \notin pending

Begin(c, kind, from, to) ==
  /\ call[c] = Idle
  /\ call' = [call EXCEPT ![c] = Attempt(kind, from, to, FirstQuote(from, to))]
  /\ always' = [always EXCEPT ![c] = {m \in Listed : chain[m] # {}}]
  /\ overlapped' = (overlapped \/ \E d \in Call : ~Ended(d))
  /\ UNCHANGED <<chain, used, pending, closed, faulty>>

\* The first leg comes before the second, in lookups and in instructions; swap
\* requests both at the same time.
Turn(r, m, earlier) ==
  /\ m \in LegsOf(r) \ earlier
  /\ r.kind # "swap" => \A l \in LegsOf(r) \ {m} : l[2] = r.from => l \in earlier

\* The node evaluates findForMarketAndOwner.
Look(c, m) ==
  /\ call[c].pc = "looking"
  /\ Turn(call[c], m, call[c].looked)
  /\ call' = [call EXCEPT ![c].looked = @ \cup {m}, ![c].seen[m] = chain[m]]
  /\ UNCHANGED <<chain, used, pending, always, closed, faulty, overlapped>>

Looked(c) == call[c].pc = "looking" /\ call[c].looked = LegsOf(call[c])
Missing(r) == {m \in LegsOf(r) : r.seen[m] = {}}

SetCall(c, r) ==
  /\ call' = [call EXCEPT ![c] = r]
  /\ UNCHANGED <<chain, used, pending, always, closed, faulty, overlapped>>

\* Mutant: an account on one leg is taken for accounts on all.
InitAccounts_AnyExists(c) ==
  /\ Looked(c)
  /\ call[c].kind = "init"
  /\ SetCall(c, IF Missing(call[c]) # LegsOf(call[c])
                THEN Throw(call[c])
                ELSE [call[c] EXCEPT !.pc = "building"])

\* Mutant: accounts that exist are not noticed.
InitAccounts_NoCheck(c) ==
  /\ Looked(c)
  /\ call[c].kind = "init"
  /\ SetCall(c, [call[c] EXCEPT !.pc = "building",
                                !.seen = [m \in Listed |-> {}]])

\* initAccounts goes on to the legs without an account, or throws if all have one.
InitAccounts(c) ==
  /\ Looked(c)
  /\ call[c].kind = "init"
  /\ SetCall(c, IF Missing(call[c]) = {} THEN Throw(call[c])
                ELSE [call[c] EXCEPT !.pc = "building"])

\* The first account found on each leg.
Firsts(r) ==
  {u \in SUBSET {p \in LegsOf(r) \X Account : p[2] \in r.seen[p[1]]} :
     \A m \in LegsOf(r) \ Missing(r) : \E a \in r.seen[m] :
       {p \in u : p[1] = m} = {<<m, a>>}}

\* closeAccounts closes one account on each leg that has any, or throws if none
\* has.
CloseAccounts(c) ==
  /\ Looked(c)
  /\ call[c].kind = "close"
  /\ \E u \in Firsts(call[c]) :
       SetCall(c, IF Missing(call[c]) = LegsOf(call[c]) THEN Throw(call[c])
                  ELSE [call[c] EXCEPT !.pc = "built", !.uses = u])

\* Mutant: a direct swap makes an account whether it finds one or not.
Swap_AlwaysCreates(c) ==
  /\ Looked(c)
  /\ call[c].kind = "swap"
  /\ \E u \in Firsts(call[c]) :
       SetCall(c, IF Direct(call[c].from, call[c].to)
                  THEN [call[c] EXCEPT !.pc = "building",
                                       !.seen = [m \in Listed |-> {}]]
                  ELSE IF Missing(call[c]) = {}
                  THEN [call[c] EXCEPT !.pc = "built", !.uses = u]
                  ELSE Throw(call[c]))

\* swap uses an account on each leg.  A direct swap makes one if it finds none; a
\* transitive swap cannot be built without.
Swap(c) ==
  /\ Looked(c)
  /\ call[c].kind = "swap"
  /\ \E u \in Firsts(call[c]) :
       SetCall(c, IF Missing(call[c]) = {}
                  THEN [call[c] EXCEPT !.pc = "built", !.uses = u]
                  ELSE IF Direct(call[c].from, call[c].to)
                  THEN [call[c] EXCEPT !.pc = "building"]
                  ELSE Throw(call[c]))

\* makeCreateAccountTransaction has the rent exemption: an instruction for a new
\* account is added.
MakeCreateAccount(c, m, a) ==
  /\ call[c].pc = "building"
  /\ LET created == {p[1] : p \in call[c].creates}
     IN  /\ m \in Missing(call[c])
         /\ Turn(call[c], m, created \cup (LegsOf(call[c]) \ Missing(call[c])))
         /\ call' = [call EXCEPT
              ![c].creates = @ \cup {<<m, a>>},
              ![c].pc = IF Missing(call[c]) \subseteq created \cup {m}
                        THEN "built" ELSE @]
  /\ a \notin used
  /\ used' = used \cup {a}
  /\ UNCHANGED <<chain, pending, always, closed, faulty, overlapped>>

\* A request fails while the instructions are built; or the blockhash cannot be
\* had, or the wallet refuses to sign, before the transaction is sent.
RequestFails(c) ==
  /\ \/ /\ call[c].pc \in {"looking", "building"}
        /\ call' = [call EXCEPT ![c] = Throw(@)]
     \/ /\ call[c].pc = "built"
        /\ call' = [call EXCEPT ![c].pc = "failed"]
  /\ faulty' = faulty \cup {c}
  /\ UNCHANGED <<chain, used, pending, always, closed, overlapped>>

Send(c) ==
  /\ call[c].pc = "built"
  /\ call' = [call EXCEPT ![c].pc = "sent"]
  /\ pending' = pending \cup {c}
  /\ UNCHANGED <<chain, used, always, closed, faulty, overlapped>>

\* The confirmation is given up; the transaction may still be in flight.
ConfirmTimesOut(c) ==
  /\ call[c].pc = "sent"
  /\ SetCall(c, [call[c] EXCEPT !.pc = "failed"])

-----------------------------------------------------------------------------
(* The chain.                                                              *)

Accounts(pairs, m) == {p[2] : p \in {q \in pairs : q[1] = m}}

\* The chain after the transaction of the call r.
After(r) ==
  [m \in Listed |->
     IF r.kind = "close" THEN chain[m] \ Accounts(r.uses, m)
                         ELSE chain[m] \cup Accounts(r.creates, m)]

Confirmed(c, end) ==
  /\ pending' = pending \ {c}
  /\ call' = [call EXCEPT ![c].pc = IF @ = "sent" THEN end ELSE @]

\* The transaction executes as a whole, if the accounts it uses exist.
TransactionLands(c) ==
  /\ c \in pending
  /\ \A p \in call[c].uses : p[2] \in chain[p[1]]
  /\ chain' = After(call[c])
  /\ always' = [d \in Call |-> {m \in always[d] : chain'[m] # {}}]
  /\ closed' = IF call[c].kind = "close"
               THEN closed \cup {p[1] : p \in call[c].uses} ELSE closed
  /\ Confirmed(c, "done")
  /\ UNCHANGED <<used, faulty, overlapped>>

\* The transaction executes with an error, for one of many reasons.
TransactionErrs(c) ==
  /\ c \in pending
  /\ Confirmed(c, "failed")
  /\ UNCHANGED <<chain, used, always, closed, faulty, overlapped>>

\* The transaction is never executed.
TransactionExpires(c) ==
  /\ c \in pending
  /\ pending' = pending \ {c}
  /\ UNCHANGED <<chain, call, used, always, closed, faulty, overlapped>>

-----------------------------------------------------------------------------
Step(c) ==
  \/ \E m \in Listed : Look(c, m) \/ \E a \in Account : MakeCreateAccount(c, m, a)
  \/ InitAccounts(c)
  \/ CloseAccounts(c)
  \/ Swap(c)
  \/ RequestFails(c)
  \/ Send(c)
  \/ ConfirmTimesOut(c)

Chain(c) == TransactionLands(c) \/ TransactionErrs(c) \/ TransactionExpires(c)

Next ==
  \E c \in Call :
    \/ \E kind \in {"init", "close", "swap"}, p \in Pair :
         Begin(c, kind, p[1], p[2])
    \/ Step(c)
    \/ Chain(c)

Spec == Init /\ [][Next]_vars

-----------------------------------------------------------------------------
(* Properties.                                                             *)

\* No call mixes two paths: whatever an abandoned attempt over USDC had built,
\* the transaction creates, uses and closes accounts on the legs of one path.
OnePath ==
  \A c \in Call : call[c] # Idle =>
    \A p \in call[c].creates \cup call[c].uses : p[1] \in LegsOf(call[c])

\* A call creates an account on a market only if there was none at some moment
\* since it began: an account that was there all along is noticed, by
\* initAccounts and by swap, on either path.
NoNeedlessAccount ==
  \A c \in Call : call[c] # Idle =>
    \A p \in call[c].creates : p[1] \notin always[c]

\* When initAccounts returns, and nothing is closed, a swap of the same tokens
\* finds an account on each leg of its path, also when initAccounts went on to
\* the other path because they were all there; unless a request failed.
InitProvides ==
  \A c \in Call : /\ call[c].pc = "done" /\ call[c].kind = "init"
                  /\ c \notin faulty
    => \A m \in SwapPath(call[c].from, call[c].to) :
         chain[m] # {} \/ m \in closed

\* As long as calls do not overlap, and nobody retries while a transaction is in
\* flight, no market gets a second account: closeAccounts, which closes one
\* account on each leg, then leaves none behind.
OneAccountEach ==
  ~overlapped => \A m \in Listed : Cardinality(chain[m]) <= 1

Queries(list) == INSTANCE SwapQueries WITH Listed <- list

\* Before a first call is made: whatever markets are listed, pairs offers for a
\* token what swap finds a path to, and nothing else (PairsArePaths).
PairsHavePaths ==
  call = [c \in Call |-> Idle] =>
    \A list \in SUBSET {m \in Usdx \X Mint : m[1] # m[2]} : Queries(list)!PairsArePaths

=============================================================================
