-------------------------- MODULE OpenOrdersProofs --------------------------
(***************************************************************************)
(* Proofs about OpenOrdersClient, for any owners, calls, accounts and      *)
(* cache durations.                                                        *)
(***************************************************************************)
EXTENDS OpenOrdersClient, TLAPS

\* A list and the time at which it was the owner's list on chain.
WasOnChain(o, accounts, at) == <<accounts, at>> \in past[o]

\* The present list is in the history.
HistoryInv == \A o \in Owner : WasOnChain(o, chain[o], clock)

\* An entry holds a list that the chain had no earlier than the entry's ts: ts
\* is taken before the request is made and is only ever lowered.
EntryInv ==
  \A o \in Owner : cache[o] # None =>
    /\ WasOnChain(o, cache[o].accounts, cache[o].asOf)
    /\ cache[o].asOf >= cache[o].ts

\* What a call may rely on after its lookup.
LookupInv(c) ==
  /\ WasOnChain(call[c].owner, call[c].seen, call[c].asOf)
  /\ Reads!Fresh(call[c].asOf, call[c].start, call[c].duration)

CallInv(c) ==
  /\ call[c].start <= clock
  /\ call[c].pc = "fetched" =>
       /\ WasOnChain(call[c].owner, call[c].seen, call[c].asOf)
       /\ call[c].asOf >= call[c].start
  /\ call[c].pc \in {"found", "built", "sent", "done"} => LookupInv(c)
  /\ call[c].pc = "found" => cache[call[c].owner] # None
  /\ call[c].creates =>
       LookupInv(c) /\ call[c].seen = {} /\ call[c].target \in Account
  /\ call[c].pc \in {"fetching", "fetched"} => ~call[c].creates

\* Only calls that were made have transactions in flight.
PendingInv == \A c \in pending : call[c] # Idle

IInv ==
  /\ TypeOK
  /\ HistoryInv
  /\ EntryInv
  /\ \A c \in Call : call[c] # Idle => CallInv(c)
  /\ PendingInv

-----------------------------------------------------------------------------
\* The history of an owner only grows.
HistoryGrows == \A o \in Owner : past[o] \subseteq past'[o]

\* A call that an action leaves alone keeps what it relies on, if history only
\* grows, time does not go back and no entry goes away.
LEMMA CallInvStable ==
  ASSUME NEW c \in Call, IInv, TypeOK', call[c] # Idle, CallInv(c),
         call'[c] = call[c], HistoryGrows, clock' >= clock,
         \A o \in Owner : cache[o] # None => cache'[o] # None
  PROVE  CallInv(c)'
<1>1. call[c] \in Running /\ clock \in Nat /\ clock' \in Nat
  BY DEF IInv, TypeOK
<1>2. call[c].owner \in Owner
  BY <1>1 DEF Running
<1>. QED
  BY <1>1, <1>2 DEF CallInv, LookupInv, WasOnChain, HistoryGrows, Running,
     Reads!Fresh

THEOREM InitIInv == Init => IInv
<1>. SUFFICES ASSUME Init PROVE IInv
  OBVIOUS
<1>1. TypeOK
  BY ClockAssumption DEF Init, TypeOK
<1>2. HistoryInv /\ EntryInv /\ PendingInv
  BY DEF Init, HistoryInv, EntryInv, PendingInv, WasOnChain
<1>3. \A c \in Call : call[c] = Idle
  BY DEF Init
<1>. QED
  BY <1>1, <1>2, <1>3 DEF IInv

-----------------------------------------------------------------------------
\* A step of one call c that leaves chain and time alone keeps IInv, if it
\* keeps what concerns c, and every entry it writes is a good one.
LEMMA CallStep ==
  ASSUME NEW c \in Call, IInv,
         NEW r \in Running, call' = [call EXCEPT ![c] = r],
         UNCHANGED <<clock, chain, past>>,
         cache' \in [Owner -> Entry \cup {None}], used' \subseteq Account,
         pending' \subseteq pending \cup {c},
         EntryInv', \A o \in Owner : cache[o] # None => cache'[o] # None,
         CallInv(c)'
  PROVE  IInv'
<1>1. TypeOK'
  BY DEF IInv, TypeOK
<1>2. HistoryInv'
  BY DEF IInv, HistoryInv, WasOnChain
<1>3. call'[c] = r /\ r # Idle
  BY DEF IInv, TypeOK, Running, Idle
<1>4. PendingInv'
  <2>1. \A b \in pending' : b = c \/ (b \in pending /\ b \in Call)
    BY DEF IInv, TypeOK
  <2>2. \A b \in pending' : b # c => call'[b] = call[b]
    BY <2>1 DEF IInv, TypeOK
  <2>. QED
    BY <1>3, <2>1, <2>2 DEF IInv, PendingInv
<1>5. ASSUME NEW b \in Call, call'[b] # Idle
      PROVE  CallInv(b)'
  <2>1. CASE b = c
    BY <2>1
  <2>2. CASE b # c
    <3>1. call'[b] = call[b]
      BY <2>2 DEF IInv, TypeOK
    <3>2. HistoryGrows /\ clock' >= clock
      BY DEF HistoryGrows, IInv, TypeOK
    <3>. QED
      BY <1>1, <1>5, <3>1, <3>2, CallInvStable DEF IInv
  <2>. QED
    BY <2>1, <2>2
<1>. QED
  BY <1>1, <1>2, <1>4, <1>5 DEF IInv

LEMMA LookupKeepsIInv ==
  ASSUME IInv, NEW c \in Call, NEW o \in Owner, NEW places \in BOOLEAN,
         NEW d \in Duration, Lookup(c, o, places, d)
  PROVE  IInv'
<1>. DEFINE hit  == Enter(o, places, d, "found", cache[o].accounts, cache[o].asOf)
            miss == Enter(o, places, d, "fetching", {}, 0)
<1>1. EntryInv'
  BY DEF Lookup, IInv, EntryInv, WasOnChain
<1>2. TypeOK /\ d \in Nat /\ clock \in Nat
  BY DurationAssumption DEF IInv, TypeOK
<1>3. UNCHANGED <<clock, chain, cache, used, pending, past>>
  BY DEF Lookup
<1>4. CASE CacheHit(o, d)
  <2>1. call' = [call EXCEPT ![c] = hit]
    BY <1>4 DEF Lookup
  <2>2. cache[o] \in Entry /\ cache[o] # None
    BY <1>2, <1>4 DEF CacheHit, TypeOK
  <2>3. hit \in Running
    BY <1>2, <2>2 DEF Running, Enter, Entry
  <2>4. call'[c] = hit
    BY <1>2, <2>1 DEF TypeOK
  <2>5. Reads!Fresh(cache[o].asOf, clock, d)
    BY <1>2, <1>4, <2>2 DEF IInv, EntryInv, CacheHit, Reads!Fresh, Entry
  <2>6. CallInv(c)'
    BY <1>2, <1>3, <2>2, <2>4, <2>5
       DEF CallInv, LookupInv, WasOnChain, IInv, EntryInv, Enter
  <2>. HIDE DEF hit
  <2>. QED
    BY <1>1, <1>2, <1>3, <2>1, <2>3, <2>6, CallStep DEF TypeOK
<1>5. CASE ~CacheHit(o, d)
  <2>1. call' = [call EXCEPT ![c] = miss]
    BY <1>5 DEF Lookup
  <2>2. miss \in Running
    BY <1>2 DEF Running, Enter
  <2>3. call'[c] = miss
    BY <1>2, <2>1 DEF TypeOK
  <2>4. CallInv(c)'
    BY <1>2, <1>3, <2>3 DEF CallInv, Enter
  <2>. HIDE DEF miss
  <2>. QED
    BY <1>1, <1>2, <1>3, <2>1, <2>2, <2>4, CallStep DEF TypeOK
<1>. QED
  BY <1>4, <1>5

LEMMA GetProgramAccountsKeepsIInv ==
  ASSUME IInv, NEW c \in Call, GetProgramAccounts(c)
  PROVE  IInv'
<1>. DEFINE r == [call[c] EXCEPT !.pc = "fetched",
                                 !.seen = chain[call[c].owner], !.asOf = clock]
<1>1. TypeOK /\ call[c] # Idle /\ CallInv(c)
  BY DEF IInv, GetProgramAccounts, Idle
<1>2. call[c] \in Running
  BY <1>1 DEF TypeOK
<1>3. UNCHANGED <<clock, chain, cache, used, pending, past>>
  BY DEF GetProgramAccounts
<1>4. call' = [call EXCEPT ![c] = r]
  BY <1>1 DEF GetProgramAccounts, TypeOK
<1>5. r \in Running
  BY <1>1, <1>2 DEF Running, TypeOK
<1>6. call'[c] = r
  BY <1>1, <1>4 DEF TypeOK
<1>7. WasOnChain(call[c].owner, chain[call[c].owner], clock)
  BY <1>2 DEF IInv, HistoryInv, Running
<1>8. /\ r.pc = "fetched" /\ r.seen = chain[call[c].owner] /\ r.asOf = clock
      /\ r.owner = call[c].owner /\ r.start = call[c].start
      /\ r.creates = call[c].creates
  BY <1>2 DEF Running
<1>. HIDE DEF r
<1>9. CallInv(c)'
  BY <1>1, <1>3, <1>6, <1>7, <1>8
     DEF CallInv, WasOnChain, GetProgramAccounts, TypeOK
<1>10. EntryInv'
  BY <1>3 DEF IInv, EntryInv, WasOnChain
<1>. QED
  BY <1>1, <1>3, <1>4, <1>5, <1>9, <1>10, CallStep DEF TypeOK

LEMMA StoreInCacheKeepsIInv ==
  ASSUME IInv, NEW c \in Call, StoreInCache(c)
  PROVE  IInv'
<1>. DEFINE r == [call[c] EXCEPT !.pc = "found"]
            o == call[c].owner
            e == [accounts |-> call[c].seen, ts |-> call[c].start,
                  asOf |-> call[c].asOf]
<1>1. TypeOK /\ call[c] # Idle /\ CallInv(c)
  BY DEF IInv, StoreInCache, Idle
<1>2. call[c] \in Running /\ o \in Owner
  BY <1>1 DEF TypeOK, Running
<1>3. UNCHANGED <<clock, chain, used, pending, past>>
  BY DEF StoreInCache
<1>4. call' = [call EXCEPT ![c] = r] /\ cache' = [cache EXCEPT ![o] = e]
  BY <1>1 DEF StoreInCache, TypeOK
<1>5. r \in Running /\ e \in Entry
  BY <1>2 DEF Running, Entry
<1>6. call'[c] = r
  BY <1>1, <1>4 DEF TypeOK
<1>7. /\ WasOnChain(o, e.accounts, e.asOf) /\ e.asOf >= e.ts
      /\ e.accounts = call[c].seen /\ e.asOf = call[c].asOf
      /\ e.ts = call[c].start
  BY <1>1 DEF CallInv, StoreInCache
<1>8. /\ r.pc = "found" /\ r.owner = o /\ r.seen = call[c].seen
      /\ r.asOf = call[c].asOf /\ r.start = call[c].start
      /\ r.duration = call[c].duration /\ r.creates = call[c].creates
  BY <1>2 DEF Running
<1>9. e # None
  BY <1>5, NoneAssumption
<1>10. ~call[c].creates /\ call[c].start <= clock
  BY <1>1 DEF CallInv, StoreInCache
<1>. HIDE DEF r, e
<1>11. cache'[o] = e /\ \A p \in Owner : p # o => cache'[p] = cache[p]
  BY <1>1, <1>2, <1>4 DEF TypeOK
<1>12. EntryInv'
  BY <1>3, <1>7, <1>11 DEF IInv, EntryInv, WasOnChain
<1>13. CallInv(c)'
  BY <1>3, <1>6, <1>7, <1>8, <1>9, <1>10, <1>11
     DEF CallInv, LookupInv, WasOnChain, Reads!Fresh
<1>14. cache' \in [Owner -> Entry \cup {None}]
  BY <1>1, <1>2, <1>4, <1>5 DEF TypeOK
<1>15. \A p \in Owner : cache[p] # None => cache'[p] # None
  BY <1>9, <1>11
<1>. QED
  BY <1>1, <1>3, <1>4, <1>5, <1>12, <1>13, <1>14, <1>15, CallStep DEF TypeOK

LEMMA RequestFailsKeepsIInv ==
  ASSUME IInv, NEW c \in Call, RequestFails(c)
  PROVE  IInv'
<1>. DEFINE r == [call[c] EXCEPT !.pc = "failed"]
<1>1. TypeOK /\ call[c] # Idle /\ CallInv(c)
  BY DEF IInv, RequestFails, Building, Idle
<1>2. call[c] \in Running
  BY <1>1 DEF TypeOK
<1>3. UNCHANGED <<clock, chain, cache, used, pending, past>>
  BY DEF RequestFails
<1>4. call' = [call EXCEPT ![c] = r] /\ r \in Running
  BY <1>1, <1>2 DEF RequestFails, TypeOK, Running
<1>5. call'[c] = r
  BY <1>1, <1>4 DEF TypeOK
<1>6. r.pc = "failed" /\ \A f \in {"owner", "duration", "start", "seen", "asOf",
                                   "target", "creates"} : r[f] = call[c][f]
  BY <1>2 DEF Running
<1>. HIDE DEF r
<1>7. CallInv(c)'
  BY <1>1, <1>3, <1>5, <1>6 DEF CallInv, LookupInv, WasOnChain
<1>8. EntryInv'
  BY <1>3 DEF IInv, EntryInv, WasOnChain
<1>. QED
  BY <1>1, <1>3, <1>4, <1>7, <1>8, CallStep DEF TypeOK

LEMMA BuildWithNewAccountKeepsIInv ==
  ASSUME IInv, NEW c \in Call, NEW opt \in Option, BuildWithNewAccount(c, opt)
  PROVE  IInv'
<1>1. TypeOK /\ call[c] # Idle /\ CallInv(c) /\ call[c].pc = "found"
  BY DEF IInv, BuildWithNewAccount, Building, Idle
<1>2. call[c] \in Running /\ call[c].owner \in Owner
  BY <1>1 DEF TypeOK, Running
<1>3. PICK a \in Account, end \in BuildEnds :
        /\ call' = [call EXCEPT ![c].pc = end, ![c].target = a,
                                ![c].creates = TRUE]
        /\ used' = used \cup {a}
  BY OptionAssumption DEF BuildWithNewAccount
<1>. DEFINE r == [call[c] EXCEPT !.pc = end, !.target = a, !.creates = TRUE]
            o == call[c].owner
            e == [cache[o] EXCEPT !.ts = 0]
<1>4. UNCHANGED <<clock, chain, pending, past>>
  BY DEF BuildWithNewAccount
<1>5. call' = [call EXCEPT ![c] = r]
  BY <1>1, <1>3 DEF TypeOK
<1>6. r \in Running
  BY <1>2, <1>3 DEF Running, BuildEnds
<1>7. call'[c] = r
  BY <1>1, <1>5 DEF TypeOK
<1>8. cache[o] # None /\ cache[o] \in Entry
  BY <1>1, <1>2 DEF CallInv, TypeOK
<1>9. cache' = [cache EXCEPT ![o] = e]
  BY <1>1, <1>2 DEF BuildWithNewAccount, TypeOK
<1>10. e \in Entry /\ e.accounts = cache[o].accounts /\ e.asOf = cache[o].asOf
       /\ e.ts = 0
  BY <1>8 DEF Entry
<1>11. /\ r.pc = end /\ r.target = a /\ r.creates = TRUE /\ r.owner = o
       /\ \A f \in {"seen", "asOf", "start", "duration"} : r[f] = call[c][f]
  BY <1>2 DEF Running
<1>. HIDE DEF r, e
<1>12. e # None
  BY <1>10, NoneAssumption
<1>13. cache'[o] = e /\ \A p \in Owner : p # o => cache'[p] = cache[p]
  BY <1>1, <1>2, <1>9 DEF TypeOK
<1>14. EntryInv'
  BY <1>4, <1>8, <1>10, <1>13 DEF IInv, EntryInv, WasOnChain, Entry
<1>15. call[c].seen = {}
  BY DEF BuildWithNewAccount
<1>16. CallInv(c)'
  BY <1>1, <1>4, <1>7, <1>11, <1>15
     DEF CallInv, LookupInv, WasOnChain, BuildEnds
<1>17. cache' \in [Owner -> Entry \cup {None}]
  BY <1>1, <1>2, <1>9, <1>10 DEF TypeOK
<1>18. \A p \in Owner : cache[p] # None => cache'[p] # None
  BY <1>12, <1>13
<1>19. used' \subseteq Account
  BY <1>1, <1>3 DEF TypeOK
<1>. QED
  BY <1>1, <1>4, <1>5, <1>6, <1>14, <1>16, <1>17, <1>18, <1>19, CallStep
     DEF TypeOK

LEMMA BuildWithAccountKeepsIInv ==
  ASSUME IInv, NEW c \in Call, NEW opt \in Option, BuildWithAccount(c, opt)
  PROVE  IInv'
<1>1. TypeOK /\ call[c] # Idle /\ CallInv(c) /\ call[c].pc = "found"
  BY DEF IInv, BuildWithAccount, Building, Idle
<1>2. call[c] \in Running
  BY <1>1 DEF TypeOK
<1>3. PICK a \in Account, end \in BuildEnds :
        call' = [call EXCEPT ![c].pc = end, ![c].target = a]
  <2>1. opt.account \in Account \cup {None} /\ opt.key \in Account \cup {None}
    BY OptionAssumption
  <2>2. call[c].seen \subseteq Account
    BY <1>2 DEF Running
  <2>. QED
    BY <2>1, <2>2 DEF BuildWithAccount
<1>. DEFINE r == [call[c] EXCEPT !.pc = end, !.target = a]
<1>4. UNCHANGED <<clock, chain, cache, used, pending, past>>
  BY DEF BuildWithAccount
<1>5. call' = [call EXCEPT ![c] = r]
  BY <1>1, <1>3 DEF TypeOK
<1>6. r \in Running
  BY <1>2, <1>3 DEF Running, BuildEnds
<1>7. call'[c] = r
  BY <1>1, <1>5 DEF TypeOK
<1>8. /\ r.pc = end /\ r.target = a
      /\ \A f \in {"owner", "seen", "asOf", "start", "duration", "creates"} :
           r[f] = call[c][f]
  BY <1>2 DEF Running
<1>. HIDE DEF r
<1>9. CallInv(c)'
  BY <1>1, <1>4, <1>7, <1>8 DEF CallInv, LookupInv, WasOnChain, BuildEnds
<1>10. EntryInv'
  BY <1>4 DEF IInv, EntryInv, WasOnChain
<1>. QED
  BY <1>1, <1>4, <1>5, <1>6, <1>9, <1>10, CallStep DEF TypeOK

LEMMA SendKeepsIInv ==
  ASSUME IInv, NEW c \in Call, SendTransaction(c) \/ ConfirmTimesOut(c)
  PROVE  IInv'
<1>1. PICK pc \in {"sent", "failed"} : call' = [call EXCEPT ![c].pc = pc]
  BY DEF SendTransaction, ConfirmTimesOut
<1>. DEFINE r == [call[c] EXCEPT !.pc = pc]
<1>2. TypeOK /\ call[c] # Idle /\ CallInv(c) /\ call[c].pc \in {"built", "sent"}
  BY DEF IInv, SendTransaction, ConfirmTimesOut, Idle
<1>3. call[c] \in Running
  BY <1>2 DEF TypeOK
<1>4. UNCHANGED <<clock, chain, cache, used, past>>
      /\ pending' \subseteq pending \cup {c}
  BY DEF SendTransaction, ConfirmTimesOut
<1>5. call' = [call EXCEPT ![c] = r] /\ r \in Running
  BY <1>1, <1>2, <1>3 DEF TypeOK, Running
<1>6. call'[c] = r
  BY <1>2, <1>5 DEF TypeOK
<1>7. r.pc = pc /\ \A f \in {"owner", "duration", "start", "seen", "asOf",
                             "target", "creates"} : r[f] = call[c][f]
  BY <1>3 DEF Running
<1>. HIDE DEF r
<1>8. CallInv(c)'
  BY <1>2, <1>4, <1>6, <1>7 DEF CallInv, LookupInv, WasOnChain
<1>9. EntryInv'
  BY <1>4 DEF IInv, EntryInv, WasOnChain
<1>. QED
  BY <1>2, <1>4, <1>5, <1>8, <1>9, CallStep DEF TypeOK

-----------------------------------------------------------------------------
\* A step of the chain or of time keeps IInv: history grows with it, and the
\* calls it concerns change in pc alone, from sent to done or failed.
LEMMA WorldStep ==
  ASSUME IInv, UNCHANGED <<cache, used>>, clock' \in Nat, clock' >= clock,
         chain' \in [Owner -> SUBSET Account],
         past' \in [Owner -> SUBSET ((SUBSET Account) \X Nat)],
         HistoryGrows, HistoryInv', pending' \subseteq pending,
         call' \in [Call -> Running \cup {Idle}],
         \A c \in Call :
           \/ call'[c] = call[c]
           \/ /\ call[c] # Idle /\ call[c].pc = "sent"
              /\ \/ call'[c] = [call[c] EXCEPT !.pc = "done"]
                 \/ call'[c] = [call[c] EXCEPT !.pc = "failed"]
  PROVE  IInv'
<1>1. TypeOK /\ TypeOK'
  BY DEF IInv, TypeOK
<1>2. EntryInv'
  <2>1. \A o \in Owner : cache[o] # None => cache[o] \in Entry
    BY <1>1 DEF TypeOK
  <2>. QED
    BY <2>1 DEF IInv, EntryInv, WasOnChain, HistoryGrows
<1>3. \A c \in Call : call[c] # Idle => call[c] \in Running /\ CallInv(c)
  BY <1>1 DEF IInv, TypeOK
<1>4. PendingInv'
  <2>1. \A c \in Call : call[c] # Idle => call'[c] # Idle
    BY <1>3 DEF Running, Idle
  <2>. QED
    BY <1>1, <2>1 DEF IInv, PendingInv, TypeOK
<1>5. ASSUME NEW c \in Call, call'[c] # Idle PROVE CallInv(c)'
  <2>1. CASE call'[c] = call[c]
    BY <1>1, <1>3, <1>5, <2>1, CallInvStable
  <2>2. ASSUME call[c] # Idle, call[c].pc = "sent",
               NEW end \in {"done", "failed"},
               call'[c] = [call[c] EXCEPT !.pc = end]
        PROVE  CallInv(c)'
    <3>1. call[c] \in Running /\ CallInv(c)
      BY <1>3, <2>2
    <3>2. /\ call'[c].pc = end
          /\ call'[c].owner = call[c].owner /\ call'[c].seen = call[c].seen
          /\ call'[c].asOf = call[c].asOf /\ call'[c].start = call[c].start
          /\ call'[c].duration = call[c].duration
          /\ call'[c].creates = call[c].creates
          /\ call'[c].target = call[c].target
      BY <2>2, <3>1 DEF Running
    <3>3. call[c].owner \in Owner /\ call[c].start \in Nat
      BY <3>1 DEF Running
    <3>4. clock \in Nat /\ call[c].start <= clock'
      BY <1>1, <3>1, <3>3 DEF CallInv, TypeOK
    <3>5. LookupInv(c)'
      BY <2>2, <3>1, <3>2, <3>3
         DEF CallInv, LookupInv, WasOnChain, HistoryGrows
    <3>. QED
      BY <2>2, <3>1, <3>2, <3>4, <3>5 DEF CallInv
  <2>. QED
    BY <1>3, <2>1, <2>2
<1>. QED
  BY <1>1, <1>2, <1>4, <1>5 DEF IInv

\* What SetChain does to chain and history.
LEMMA SetChainFacts ==
  ASSUME IInv, NEW o \in Owner, NEW accounts \in SUBSET Account,
         SetChain(o, accounts), clock' = clock
  PROVE  /\ chain' \in [Owner -> SUBSET Account]
         /\ past' \in [Owner -> SUBSET ((SUBSET Account) \X Nat)]
         /\ HistoryGrows
         /\ HistoryInv'
<1>1. /\ chain \in [Owner -> SUBSET Account] /\ clock \in Nat
      /\ past \in [Owner -> SUBSET ((SUBSET Account) \X Nat)]
  BY DEF IInv, TypeOK
<1>2. past' = [past EXCEPT ![o] = past[o] \cup {<<accounts, clock>>}]
  BY <1>1 DEF SetChain
<1>3. <<accounts, clock>> \in (SUBSET Account) \X Nat
  BY <1>1
<1>4. past[o] \cup {<<accounts, clock>>} \in SUBSET ((SUBSET Account) \X Nat)
  BY <1>1, <1>3
<1>5. past' \in [Owner -> SUBSET ((SUBSET Account) \X Nat)]
  BY <1>1, <1>2, <1>4
<1>6. chain' \in [Owner -> SUBSET Account]
  BY <1>1 DEF SetChain
<1>7. HistoryGrows
  BY <1>1, <1>2 DEF HistoryGrows
<1>8. HistoryInv'
  <2>. SUFFICES ASSUME NEW p \in Owner PROVE <<chain'[p], clock>> \in past'[p]
    BY DEF HistoryInv, WasOnChain
  <2>1. CASE p = o
    BY <1>1, <1>2, <2>1 DEF SetChain
  <2>2. CASE p # o
    BY <1>1, <1>2, <2>2 DEF SetChain, IInv, HistoryInv, WasOnChain
  <2>. QED
    BY <2>1, <2>2
<1>. QED
  BY <1>5, <1>6, <1>7, <1>8

\* What Confirmed does to the calls.
LEMMA ConfirmedFacts ==
  ASSUME IInv, NEW c \in Call, c \in pending, NEW end \in {"done", "failed"},
         Confirmed(c, end)
  PROVE  /\ call' \in [Call -> Running \cup {Idle}]
         /\ pending' \subseteq pending
         /\ \A b \in Call :
              \/ call'[b] = call[b]
              \/ /\ call[b] # Idle /\ call[b].pc = "sent"
                 /\ \/ call'[b] = [call[b] EXCEPT !.pc = "done"]
                    \/ call'[b] = [call[b] EXCEPT !.pc = "failed"]
<1>1. call[c] # Idle /\ call[c] \in Running
  BY DEF IInv, PendingInv, TypeOK
<1>2. call \in [Call -> Running \cup {Idle}]
  BY DEF IInv, TypeOK
<1>3. pending' \subseteq pending
  BY DEF Confirmed
<1>4. CASE call[c].pc = "sent"
  <2>1. call' = [call EXCEPT ![c] = [call[c] EXCEPT !.pc = end]]
    BY <1>2, <1>4 DEF Confirmed
  <2>2. [call[c] EXCEPT !.pc = end] \in Running
    BY <1>1 DEF Running
  <2>. QED
    BY <1>1, <1>2, <1>3, <1>4, <2>1, <2>2
<1>5. CASE call[c].pc # "sent"
  <2>1. call' = [call EXCEPT ![c] = [call[c] EXCEPT !.pc = call[c].pc]]
    BY <1>2, <1>5 DEF Confirmed
  <2>2. [call[c] EXCEPT !.pc = call[c].pc] = call[c]
    BY <1>1 DEF Running
  <2>3. call' = call
    BY <1>2, <2>1, <2>2
  <2>. QED
    BY <1>2, <1>3, <2>3
<1>. QED
  BY <1>4, <1>5

LEMMA TransactionStepKeepsIInv ==
  ASSUME IInv, NEW c \in Call,
         TransactionLands(c) \/ TransactionErrs(c) \/ TransactionExpires(c)
  PROVE  IInv'
<1>1. TypeOK
  BY DEF IInv
<1>2. CASE TransactionLands(c)
  <2>1. c \in pending /\ clock' = clock /\ UNCHANGED <<cache, used>>
        /\ Confirmed(c, "done")
    BY <1>2 DEF TransactionLands
  <2>2. call[c] \in Running /\ CallInv(c)
    BY <2>1 DEF IInv, PendingInv, TypeOK
  <2>. DEFINE o == call[c].owner
              accounts == IF call[c].creates THEN chain[o] \cup {call[c].target}
                                             ELSE chain[o]
  <2>3. o \in Owner /\ accounts \in SUBSET Account
    BY <1>1, <2>2 DEF Running, CallInv, TypeOK
  <2>4. SetChain(o, accounts)
    BY <1>2 DEF TransactionLands
  <2>5. clock \in Nat /\ clock' \in Nat /\ clock' >= clock
    BY <1>1, <2>1 DEF TypeOK
  <2>. HIDE DEF o, accounts
  <2>. QED
    BY <2>1, <2>3, <2>4, <2>5, SetChainFacts, ConfirmedFacts, WorldStep
<1>3. CASE TransactionErrs(c) \/ TransactionExpires(c)
  <2>1. UNCHANGED <<clock, chain, cache, used, past>> /\ c \in pending
    BY <1>3 DEF TransactionErrs, TransactionExpires
  <2>2. /\ clock' \in Nat /\ clock' >= clock
        /\ chain' \in [Owner -> SUBSET Account]
        /\ past' \in [Owner -> SUBSET ((SUBSET Account) \X Nat)]
    BY <1>1, <2>1 DEF TypeOK
  <2>3. HistoryGrows /\ HistoryInv'
    BY <2>1 DEF HistoryGrows, HistoryInv, WasOnChain, IInv
  <2>4. CASE TransactionErrs(c)
    <3>1. Confirmed(c, "failed")
      BY <2>4 DEF TransactionErrs
    <3>. QED
      BY <2>1, <2>2, <2>3, <3>1, ConfirmedFacts, WorldStep
  <2>5. CASE TransactionExpires(c)
    <3>1. call' = call /\ pending' \subseteq pending
      BY <2>5 DEF TransactionExpires
    <3>. QED
      BY <1>1, <2>1, <2>2, <2>3, <3>1, WorldStep DEF TypeOK
  <2>. QED
    BY <1>3, <2>4, <2>5
<1>. QED
  BY <1>2, <1>3

LEMMA CloseOpenOrdersKeepsIInv ==
  ASSUME IInv, NEW o \in Owner, NEW a \in Account, CloseOpenOrders(o, a)
  PROVE  IInv'
<1>1. TypeOK
  BY DEF IInv
<1>2. UNCHANGED <<clock, cache, call, used, pending>>
      /\ SetChain(o, chain[o] \ {a})
  BY DEF CloseOpenOrders
<1>3. chain[o] \ {a} \in SUBSET Account /\ clock' \in Nat /\ clock' >= clock
  BY <1>1, <1>2 DEF TypeOK
<1>. QED
  BY <1>1, <1>2, <1>3, SetChainFacts, WorldStep DEF TypeOK

LEMMA TickKeepsIInv ==
  ASSUME IInv, Tick
  PROVE  IInv'
<1>1. TypeOK
  BY DEF IInv
<1>2. /\ clock' = clock + 1 /\ UNCHANGED <<chain, cache, call, used, pending>>
      /\ past' = [o \in Owner |-> past[o] \cup {<<chain[o], clock + 1>>}]
  BY DEF Tick
<1>3. clock' \in Nat /\ clock' >= clock
  BY <1>1, <1>2 DEF TypeOK
<1>4. HistoryGrows /\ HistoryInv'
  BY <1>2 DEF HistoryGrows, HistoryInv, WasOnChain
<1>5. past' \in [Owner -> SUBSET ((SUBSET Account) \X Nat)]
  <2>1. ASSUME NEW o \in Owner
        PROVE  past[o] \cup {<<chain[o], clock + 1>>}
                 \in SUBSET ((SUBSET Account) \X Nat)
    BY <1>1 DEF TypeOK
  <2>. QED
    BY <1>2, <2>1
<1>. QED
  BY <1>1, <1>2, <1>3, <1>4, <1>5, WorldStep DEF TypeOK

\* IInv is an invariant of every behaviour of the client and its environment.
THEOREM Invariance == Spec => []IInv
<1>1. IInv /\ [Next]_vars => IInv'
  <2>. SUFFICES ASSUME IInv, [Next]_vars PROVE IInv'
    OBVIOUS
  <2>1. CASE UNCHANGED vars
    BY <2>1 DEF vars, IInv, TypeOK, HistoryInv, EntryInv, CallInv, LookupInv,
       WasOnChain, PendingInv
  <2>2. CASE Environment
    BY <2>2, TransactionStepKeepsIInv, CloseOpenOrdersKeepsIInv, TickKeepsIInv
       DEF Environment
  <2>3. ASSUME NEW c \in Call, PlaceOrderStep(c) PROVE IInv'
    BY <2>3, BuildWithNewAccountKeepsIInv, BuildWithAccountKeepsIInv,
       SendKeepsIInv DEF PlaceOrderStep
  <2>. QED
    BY <2>1, <2>2, <2>3, LookupKeepsIInv, GetProgramAccountsKeepsIInv,
       StoreInCacheKeepsIInv, RequestFailsKeepsIInv DEF Next
<1>. QED
  BY <1>1, InitIInv, PTL DEF Spec

\* Every variable always has its type: in particular the market client never
\* builds a transaction around an address it does not have.
THEOREM TypeCorrect == Spec => []TypeOK
<1>1. IInv => TypeOK
  BY DEF IInv
<1>. QED
  BY <1>1, Invariance, PTL

\* placeOrder creates an account only if the owner had none at a moment that
\* cacheDurationMs still allows, for any number of concurrent calls.
THEOREM CreatesOnlyIfAbsentHolds == Spec => []CreatesOnlyIfAbsent
<1>1. IInv => CreatesOnlyIfAbsent
  <2>. SUFFICES ASSUME IInv, NEW c \in Call, call[c] # Idle, call[c].creates
                PROVE  \E p \in past[call[c].owner] :
                         /\ p[1] = {}
                         /\ Reads!Fresh(p[2], call[c].start, call[c].duration)
    BY DEF CreatesOnlyIfAbsent
  <2>1. CallInv(c)
    BY DEF IInv
  <2>2. <<call[c].seen, call[c].asOf>> \in past[call[c].owner]
    BY <2>1 DEF CallInv, LookupInv, WasOnChain
  <2>. QED
    BY <2>1, <2>2 DEF CallInv, LookupInv
<1>. QED
  BY <1>1, Invariance, PTL

\* When placeOrder marks an owner's entry as expired, the entry exists.
THEOREM InvalidationHasEntryHolds == Spec => []InvalidationHasEntry
<1>1. IInv => InvalidationHasEntry
  <2>. SUFFICES ASSUME IInv, NEW c \in Call, Building(c)
                PROVE  cache[call[c].owner] # None
    BY DEF InvalidationHasEntry
  <2>1. call[c] # Idle /\ call[c].pc = "found"
    BY DEF Building, Idle
  <2>. QED
    BY <2>1 DEF IInv, CallInv
<1>. QED
  BY <1>1, Invariance, PTL

-----------------------------------------------------------------------------
(* The client implements reads of bounded staleness.                       *)

\* The reads as the callers see them, all calls together.
AllReads == [c \in Call |-> ReadOf(c)]

LEMMA InitRefines == Init => Reads!Init
<1>. SUFFICES ASSUME Init PROVE Reads!Init
  OBVIOUS
<1>1. clock \in Nat /\ past = [o \in Owner |-> {<<chain[o], clock>>}]
  BY ClockAssumption DEF Init
<1>2. chain \in [Owner -> SUBSET Account]
  BY DEF Init
<1>3. \A c \in Call : ReadOf(c) = Reads!Idle
  BY DEF Init, ReadOf, Reads!Idle
<1>. QED
  BY <1>1, <1>2, <1>3 DEF Reads!Init

\* If only c changes, only the read of c changes.
LEMMA OtherReads ==
  ASSUME NEW c \in Call, \A b \in Call : b # c => call'[b] = call[b]
  PROVE  AllReads' = [AllReads EXCEPT ![c] = ReadOf(c)']
<1>1. \A b \in Call : b # c => ReadOf(b)' = ReadOf(b)
  BY DEF ReadOf
<1>. QED
  BY <1>1 DEF AllReads

\* If no read changes, neither do the reads together.
LEMMA SameReads ==
  ASSUME \A c \in Call : ReadOf(c)' = ReadOf(c)
  PROVE  AllReads' = AllReads
BY DEF AllReads

\* What a call's step does to its read: nothing, an answer out of history, or
\* failure.
LEMMA QuietStep ==
  ASSUME UNCHANGED <<clock, chain, past>>, \A c \in Call : ReadOf(c)' = ReadOf(c)
  PROVE  UNCHANGED Reads!vars
BY SameReads DEF Reads!vars, AllReads

LEMMA FailStep ==
  ASSUME IInv, NEW c \in Call, UNCHANGED <<clock, chain, past>>,
         \A b \in Call : b # c => call'[b] = call[b],
         call[c] # Idle, call[c].pc # "failed",
         call'[c] # Idle, call'[c].pc = "failed"
  PROVE  Reads!Next
<1>1. ReadOf(c)' = [state |-> "failed"]
  BY DEF ReadOf
<1>2. AllReads' = [AllReads EXCEPT ![c] = [state |-> "failed"]]
  BY <1>1, OtherReads
<1>3. AllReads[c].state \in {"asked", "returned"}
  BY DEF AllReads, ReadOf
<1>4. Reads!Fail(c)
  BY <1>2, <1>3 DEF Reads!Fail, AllReads
<1>5. AllReads'[c] # AllReads[c]
  BY <1>1, <1>3 DEF AllReads
<1>. QED
  BY <1>4, <1>5 DEF Reads!Next, AllReads

LEMMA LookupRefines ==
  ASSUME IInv, NEW c \in Call, NEW o \in Owner, NEW places \in BOOLEAN,
         NEW d \in Duration, Lookup(c, o, places, d)
  PROVE  Reads!Next
<1>1. /\ call \in [Call -> Running \cup {Idle}] /\ clock \in Nat /\ d \in Nat
      /\ cache \in [Owner -> Entry \cup {None}] /\ call[c] = Idle
      /\ UNCHANGED <<clock, chain, past>>
  BY DurationAssumption DEF IInv, TypeOK, Lookup
<1>2. \A b \in Call : b # c => call'[b] = call[b]
  BY <1>1 DEF Lookup
<1>3. AllReads[c] = [state |-> "idle"]
  BY <1>1 DEF AllReads, ReadOf
<1>4. CASE CacheHit(o, d)
  <2>. DEFINE e == cache[o]
  <2>1. call'[c] = Enter(o, places, d, "found", e.accounts, e.asOf)
    BY <1>1, <1>4 DEF Lookup
  <2>2. ReadOf(c)' = [state |-> "returned", key |-> o, tolerance |-> d,
                      value |-> e.accounts]
    BY <2>1 DEF ReadOf, Enter, Idle
  <2>3. e \in Entry /\ <<e.accounts, e.asOf>> \in past[o] /\ e.asOf >= e.ts
        /\ clock - e.ts < d
    BY <1>1, <1>4 DEF CacheHit, IInv, EntryInv, WasOnChain
  <2>4. e.asOf \in Nat /\ e.ts \in Nat
    BY <2>3 DEF Entry
  <2>5. Reads!Fresh(e.asOf, clock, d)
    BY <1>1, <2>3, <2>4 DEF Reads!Fresh
  <2>. DEFINE p == <<e.accounts, e.asOf>>
  <2>6. AllReads' = [AllReads EXCEPT ![c] =
          [state |-> "returned", key |-> o, tolerance |-> d, value |-> p[1]]]
    BY <1>2, <2>2, OtherReads
  <2>7. p \in past[o] /\ Reads!Fresh(p[2], clock, d)
    BY <2>3, <2>5
  <2>. HIDE DEF p
  <2>8. Reads!Return(c, o, d, clock)
    BY <1>1, <2>6, <2>7 DEF Reads!Return, AllReads
  <2>9. Reads!Answer(c)
    BY <1>3, <2>8 DEF Reads!Answer, Reads!Idle, AllReads
  <2>10. AllReads'[c] # AllReads[c]
    BY <1>3, <2>2 DEF AllReads
  <2>. QED
    BY <2>9, <2>10 DEF Reads!Next, AllReads
<1>5. CASE ~CacheHit(o, d)
  <2>1. call'[c] = Enter(o, places, d, "fetching", {}, 0)
    BY <1>1, <1>5 DEF Lookup
  <2>2. ReadOf(c)' = [state |-> "asked", key |-> o, tolerance |-> d,
                      start |-> clock]
    BY <2>1 DEF ReadOf, Enter, Idle
  <2>3. AllReads' = [AllReads EXCEPT ![c] =
          [state |-> "asked", key |-> o, tolerance |-> d, start |-> clock]]
    BY <1>2, <2>2, OtherReads
  <2>4. Reads!Ask(c, o, d)
    BY <1>1, <1>3, <2>3 DEF Reads!Ask, Reads!Idle, AllReads
  <2>5. AllReads'[c] # AllReads[c]
    BY <1>3, <2>2 DEF AllReads
  <2>. QED
    BY <1>1, <2>4, <2>5 DEF Reads!Next, AllReads
<1>. QED
  BY <1>4, <1>5

LEMMA StoreInCacheRefines ==
  ASSUME IInv, NEW c \in Call, StoreInCache(c)
  PROVE  Reads!Next
<1>1. /\ call \in [Call -> Running \cup {Idle}] /\ call[c].pc = "fetched"
      /\ UNCHANGED <<clock, chain, past>>
      /\ call' = [call EXCEPT ![c].pc = "found"]
  BY DEF IInv, TypeOK, StoreInCache
<1>2. call[c] # Idle /\ call[c] \in Running /\ CallInv(c)
  BY <1>1 DEF Idle, IInv
<1>. DEFINE o == call[c].owner
            d == call[c].duration
            s == call[c].start
            p == <<call[c].seen, call[c].asOf>>
<1>3. call'[c] = [call[c] EXCEPT !.pc = "found"]
  BY <1>1
<1>4. ReadOf(c)' = [state |-> "returned", key |-> o, tolerance |-> d,
                    value |-> p[1]]
  BY <1>2, <1>3 DEF ReadOf, Running, Idle
<1>5. AllReads[c] = [state |-> "asked", key |-> o, tolerance |-> d, start |-> s]
  BY <1>1, <1>2 DEF AllReads, ReadOf
<1>6. p \in past[o] /\ Reads!Fresh(p[2], s, d)
  BY <1>1, <1>2 DEF CallInv, WasOnChain, Reads!Fresh
<1>7. \A b \in Call : b # c => call'[b] = call[b]
  BY <1>1
<1>8. AllReads' = [AllReads EXCEPT ![c] =
        [state |-> "returned", key |-> o, tolerance |-> d, value |-> p[1]]]
  BY <1>4, <1>7, OtherReads
<1>. HIDE DEF p, o, d, s
<1>9. Reads!Return(c, o, d, s)
  BY <1>1, <1>6, <1>8 DEF Reads!Return, AllReads
<1>10. AllReads[c].state = "asked" /\ AllReads[c].key = o
       /\ AllReads[c].tolerance = d /\ AllReads[c].start = s
  BY <1>5
<1>11. Reads!Answer(c)
  BY <1>9, <1>10 DEF Reads!Answer, AllReads
<1>12. AllReads'[c] # AllReads[c]
  BY <1>4, <1>10 DEF AllReads
<1>. QED
  BY <1>11, <1>12 DEF Reads!Next, AllReads

\* A call's step that keeps the phase of its read, and what the phase shows,
\* is none of the reads' business.
LEMMA SameRead ==
  ASSUME NEW c \in Call, call[c] # Idle, call'[c] # Idle,
         \/ /\ call[c].pc \in {"fetching", "fetched"}
            /\ call'[c].pc \in {"fetching", "fetched"}
            /\ call'[c].owner = call[c].owner
            /\ call'[c].duration = call[c].duration
            /\ call'[c].start = call[c].start
         \/ /\ call[c].pc \in {"found", "built", "sent", "done"}
            /\ call'[c].pc \in {"found", "built", "sent", "done"}
            /\ call'[c].owner = call[c].owner
            /\ call'[c].duration = call[c].duration
            /\ call'[c].seen = call[c].seen
         \/ call[c].pc = "failed" /\ call'[c].pc = "failed"
  PROVE  ReadOf(c)' = ReadOf(c)
BY DEF ReadOf

\* A step of placeOrder is a stutter of the reads, or its read fails.
LEMMA CallerStep ==
  ASSUME IInv, NEW c \in Call, UNCHANGED <<clock, chain, past>>,
         \A b \in Call : b # c => call'[b] = call[b],
         call[c] # Idle, call[c].pc \in {"found", "built", "sent"},
         call'[c] # Idle, call'[c].seen = call[c].seen,
         call'[c].owner = call[c].owner, call'[c].duration = call[c].duration,
         call'[c].pc \in {"found", "built", "sent", "done", "failed"}
  PROVE  [Reads!Next]_(Reads!vars)
<1>1. CASE call'[c].pc = "failed"
  BY <1>1, FailStep
<1>2. CASE call'[c].pc # "failed"
  <2>1. ReadOf(c)' = ReadOf(c)
    BY <1>2, SameRead
  <2>2. \A b \in Call : ReadOf(b)' = ReadOf(b)
    BY <2>1 DEF ReadOf
  <2>. QED
    BY <2>2, QuietStep
<1>. QED
  BY <1>1, <1>2

LEMMA CallRefines ==
  ASSUME IInv, NEW c \in Call,
         \/ GetProgramAccounts(c)
         \/ RequestFails(c)
         \/ PlaceOrderStep(c)
  PROVE  [Reads!Next]_(Reads!vars)
<1>1. call \in [Call -> Running \cup {Idle}]
  BY DEF IInv, TypeOK
<1>2. CASE GetProgramAccounts(c)
  <2>1. call[c] # Idle /\ call[c].pc = "fetching" /\ call[c] \in Running
    BY <1>1, <1>2 DEF GetProgramAccounts, Idle
  <2>2. /\ UNCHANGED <<clock, chain, past>>
        /\ call'[c] = [call[c] EXCEPT !.pc = "fetched",
                         !.seen = chain[call[c].owner], !.asOf = clock]
        /\ \A b \in Call : b # c => call'[b] = call[b]
    BY <1>1, <1>2 DEF GetProgramAccounts
  <2>3. /\ call'[c].pc = "fetched" /\ call'[c].owner = call[c].owner
        /\ call'[c].duration = call[c].duration
        /\ call'[c].start = call[c].start /\ call'[c] # Idle
    BY <2>1, <2>2 DEF Running, Idle
  <2>4. ReadOf(c)' = ReadOf(c)
    BY <2>1, <2>3, SameRead
  <2>5. \A b \in Call : ReadOf(b)' = ReadOf(b)
    BY <2>2, <2>4 DEF ReadOf
  <2>. QED
    BY <2>2, <2>5, QuietStep
<1>3. CASE RequestFails(c)
  <2>1. /\ call[c] # Idle /\ call[c] \in Running
        /\ call[c].pc \in {"fetching", "fetched", "found"}
    BY <1>1, <1>3 DEF RequestFails, Building, Idle
  <2>2. /\ UNCHANGED <<clock, chain, past>>
        /\ call'[c] = [call[c] EXCEPT !.pc = "failed"]
        /\ \A b \in Call : b # c => call'[b] = call[b]
    BY <1>1, <1>3 DEF RequestFails
  <2>3. call'[c] # Idle /\ call'[c].pc = "failed"
    BY <2>1, <2>2 DEF Running, Idle
  <2>. QED
    BY <2>1, <2>2, <2>3, FailStep
<1>4. CASE PlaceOrderStep(c)
  <2>1. /\ call[c] # Idle /\ call[c] \in Running
        /\ call[c].pc \in {"found", "built", "sent"}
    <3>1. call[c].pc \in {"found", "built", "sent"}
      BY <1>4 DEF PlaceOrderStep, BuildWithNewAccount, BuildWithAccount,
                  SendTransaction, ConfirmTimesOut, Building
    <3>2. call[c] # Idle
      BY <3>1 DEF Idle
    <3>. QED
      BY <1>1, <3>1, <3>2
  <2>2. UNCHANGED <<clock, chain, past>>
    BY <1>4 DEF PlaceOrderStep, BuildWithNewAccount, BuildWithAccount,
                SendTransaction, ConfirmTimesOut
  <2>3. ASSUME NEW opt \in Option, BuildWithNewAccount(c, opt)
        PROVE  [Reads!Next]_(Reads!vars)
    <3>1. PICK a \in Account, end \in BuildEnds :
            call' = [call EXCEPT ![c].pc = end, ![c].target = a,
                                 ![c].creates = TRUE]
      BY <2>3, OptionAssumption DEF BuildWithNewAccount
    <3>2. /\ call'[c] = [call[c] EXCEPT !.pc = end, !.target = a,
                                        !.creates = TRUE]
          /\ \A b \in Call : b # c => call'[b] = call[b]
      BY <1>1, <3>1
    <3>3. /\ call'[c].pc = end /\ call'[c].seen = call[c].seen /\ call'[c] # Idle
          /\ call'[c].owner = call[c].owner
          /\ call'[c].duration = call[c].duration
      BY <2>1, <3>2 DEF Running, Idle
    <3>. QED
      BY <2>1, <2>2, <3>2, <3>3, CallerStep DEF BuildEnds
  <2>4. ASSUME NEW opt \in Option, BuildWithAccount(c, opt)
        PROVE  [Reads!Next]_(Reads!vars)
    <3>0. /\ opt.account \in Account \cup {None}
          /\ opt.key \in Account \cup {None}
          /\ call[c].seen \subseteq Account
      BY <2>1, OptionAssumption DEF Running
    <3>1. PICK a \in Account, end \in BuildEnds :
            call' = [call EXCEPT ![c].pc = end, ![c].target = a]
      BY <2>4, <3>0 DEF BuildWithAccount
    <3>2. /\ call'[c] = [call[c] EXCEPT !.pc = end, !.target = a]
          /\ \A b \in Call : b # c => call'[b] = call[b]
      BY <1>1, <3>1
    <3>3. /\ call'[c].pc = end /\ call'[c].seen = call[c].seen /\ call'[c] # Idle
          /\ call'[c].owner = call[c].owner
          /\ call'[c].duration = call[c].duration
      BY <2>1, <3>2 DEF Running, Idle
    <3>. QED
      BY <2>1, <2>2, <3>2, <3>3, CallerStep DEF BuildEnds
  <2>5. CASE SendTransaction(c) \/ ConfirmTimesOut(c)
    <3>1. PICK pc \in {"sent", "failed"} : call' = [call EXCEPT ![c].pc = pc]
      BY <2>5 DEF SendTransaction, ConfirmTimesOut
    <3>2. /\ call'[c] = [call[c] EXCEPT !.pc = pc]
          /\ \A b \in Call : b # c => call'[b] = call[b]
      BY <1>1, <3>1
    <3>3. /\ call'[c].pc = pc /\ call'[c].seen = call[c].seen /\ call'[c] # Idle
          /\ call'[c].owner = call[c].owner
          /\ call'[c].duration = call[c].duration
      BY <2>1, <3>2 DEF Running, Idle
    <3>. QED
      BY <2>1, <2>2, <3>2, <3>3, CallerStep
  <2>. QED
    BY <1>4, <2>3, <2>4, <2>5 DEF PlaceOrderStep
<1>. QED
  BY <1>2, <1>3, <1>4

\* A change of one owner's accounts is a write.
LEMMA WriteRefines ==
  ASSUME IInv, NEW o \in Owner, NEW accounts \in SUBSET Account,
         SetChain(o, accounts), clock' = clock, AllReads' = AllReads
  PROVE  Reads!Write
<1>1. /\ chain \in [Owner -> SUBSET Account]
      /\ past \in [Owner -> SUBSET ((SUBSET Account) \X Nat)]
      /\ \A p \in Owner : <<chain[p], clock>> \in past[p]
  BY DEF IInv, TypeOK, HistoryInv, WasOnChain
<1>2. chain' \in [Owner -> SUBSET Account]
  BY <1>1 DEF SetChain
<1>3. past' = [p \in Owner |-> past[p] \cup {<<chain'[p], clock>>}]
  <2>1. /\ past' = [past EXCEPT ![o] = @ \cup {<<accounts, clock>>}]
        /\ chain' = [chain EXCEPT ![o] = accounts]
    BY DEF SetChain
  <2>2. ASSUME NEW p \in Owner
        PROVE  past'[p] = past[p] \cup {<<chain'[p], clock>>}
    <3>1. CASE p = o
      BY <1>1, <2>1, <3>1
    <3>2. CASE p # o
      BY <1>1, <2>1, <3>2
    <3>. QED
      BY <3>1, <3>2
  <2>3. past' = [p \in Owner |-> past'[p]]
    BY <1>1, <2>1
  <2>. QED
    BY <2>2, <2>3
<1>. QED
  BY <1>2, <1>3 DEF Reads!Write, AllReads

\* A transaction's end is a write, a failed read or nothing.
LEMMA TransactionRefines ==
  ASSUME IInv, NEW c \in Call,
         TransactionLands(c) \/ TransactionErrs(c) \/ TransactionExpires(c)
  PROVE  [Reads!Next]_(Reads!vars)
<1>1. /\ call \in [Call -> Running \cup {Idle}]
      /\ chain \in [Owner -> SUBSET Account]
      /\ c \in pending /\ call[c] # Idle
  BY DEF IInv, TypeOK, PendingInv, TransactionLands, TransactionErrs,
         TransactionExpires
<1>2. call[c] \in Running
  BY <1>1
<1>3. CASE TransactionLands(c)
  <2>. DEFINE o == call[c].owner
              accounts == IF call[c].creates THEN chain[o] \cup {call[c].target}
                                             ELSE chain[o]
  <2>1. o \in Owner /\ accounts \in SUBSET Account
    BY <1>1, <1>2 DEF Running, IInv, CallInv
  <2>2. SetChain(o, accounts) /\ clock' = clock /\ Confirmed(c, "done")
    BY <1>3 DEF TransactionLands
  <2>3. ASSUME NEW b \in Call PROVE ReadOf(b)' = ReadOf(b)
    <3>1. \/ call'[b] = call[b]
          \/ /\ call[b] # Idle /\ call[b].pc = "sent"
             /\ call'[b] = [call[b] EXCEPT !.pc = "done"]
      <4>1. CASE b # c
        BY <1>1, <2>2, <4>1 DEF Confirmed
      <4>2. CASE b = c /\ call[c].pc = "sent"
        BY <1>1, <2>2, <4>2 DEF Confirmed
      <4>3. CASE b = c /\ call[c].pc # "sent"
        <5>1. call'[c] = [call[c] EXCEPT !.pc = call[c].pc]
          BY <1>1, <2>2, <4>3 DEF Confirmed
        <5>. QED
          BY <1>2, <4>3, <5>1 DEF Running
      <4>. QED
        BY <4>1, <4>2, <4>3
    <3>2. CASE call'[b] = call[b]
      BY <3>2 DEF ReadOf
    <3>3. CASE /\ call[b] # Idle /\ call[b].pc = "sent"
               /\ call'[b] = [call[b] EXCEPT !.pc = "done"]
      <4>1. call[b] \in Running
        BY <1>1, <3>3
      <4>2. call'[b].pc = "done" /\ call'[b].seen = call[b].seen
            /\ call'[b] # Idle
            /\ call'[b].owner = call[b].owner
            /\ call'[b].duration = call[b].duration
        BY <3>3, <4>1 DEF Running, Idle
      <4>. QED
        BY <3>3, <4>2, SameRead
    <3>. QED
      BY <3>1, <3>2, <3>3
  <2>4. AllReads' = AllReads
    BY <2>3, SameReads
  <2>. HIDE DEF o, accounts
  <2>5. Reads!Write
    BY <2>1, <2>2, <2>4, WriteRefines
  <2>. QED
    BY <2>5 DEF Reads!Next
<1>4. CASE TransactionErrs(c)
  <2>1. UNCHANGED <<clock, chain, past>> /\ Confirmed(c, "failed")
    BY <1>4 DEF TransactionErrs
  <2>2. \A b \in Call : b # c => call'[b] = call[b]
    BY <1>1, <2>1 DEF Confirmed
  <2>3. CASE call[c].pc = "sent"
    <3>1. call'[c] = [call[c] EXCEPT !.pc = "failed"]
      BY <1>1, <2>1, <2>3 DEF Confirmed
    <3>2. call'[c].pc = "failed" /\ call'[c] # Idle
      BY <1>2, <3>1 DEF Running, Idle
    <3>. QED
      BY <1>1, <2>1, <2>2, <2>3, <3>2, FailStep
  <2>4. CASE call[c].pc # "sent"
    <3>1. call'[c] = [call[c] EXCEPT !.pc = call[c].pc]
      BY <1>1, <2>1, <2>4 DEF Confirmed
    <3>2. call'[c] = call[c]
      BY <1>2, <3>1 DEF Running
    <3>3. \A b \in Call : ReadOf(b)' = ReadOf(b)
      BY <2>2, <3>2 DEF ReadOf
    <3>. QED
      BY <2>1, <3>3, QuietStep
  <2>. QED
    BY <2>3, <2>4
<1>5. CASE TransactionExpires(c)
  <2>1. UNCHANGED <<clock, chain, past, call>>
    BY <1>5 DEF TransactionExpires
  <2>2. \A b \in Call : ReadOf(b)' = ReadOf(b)
    BY <2>1 DEF ReadOf
  <2>. QED
    BY <2>1, <2>2, QuietStep
<1>. QED
  BY <1>3, <1>4, <1>5

LEMMA CloseRefines ==
  ASSUME IInv, NEW o \in Owner, NEW a \in Account, CloseOpenOrders(o, a)
  PROVE  Reads!Next
<1>1. SetChain(o, chain[o] \ {a}) /\ UNCHANGED <<clock, call>>
  BY DEF CloseOpenOrders
<1>2. AllReads' = AllReads
  BY <1>1 DEF AllReads, ReadOf
<1>3. chain[o] \ {a} \in SUBSET Account
  BY DEF IInv, TypeOK
<1>. QED
  BY <1>1, <1>2, <1>3, WriteRefines DEF Reads!Next

LEMMA TickRefines ==
  ASSUME Tick
  PROVE  Reads!Next
<1>1. AllReads' = AllReads
  BY DEF Tick, AllReads, ReadOf
<1>2. Reads!Tick
  BY <1>1 DEF Tick, Reads!Tick, AllReads
<1>. QED
  BY <1>2 DEF Reads!Next

\* findOpenOrdersAccountsForOwner implements a read of bounded staleness:
\* whatever the interleaving of calls, answers, invalidations and changes on
\* chain, a returned list was the owner's during the call, or less than
\* cacheDurationMs before it.
THEOREM ReadsRefine == Spec => ReadsAreFreshEnough
<1>1. IInv /\ [Next]_vars => [Reads!Next]_(Reads!vars)
  <2>. SUFFICES ASSUME IInv, [Next]_vars PROVE [Reads!Next]_(Reads!vars)
    OBVIOUS
  <2>1. CASE UNCHANGED vars
    <3>1. UNCHANGED <<clock, chain, past, call>>
      BY <2>1 DEF vars
    <3>2. \A b \in Call : ReadOf(b)' = ReadOf(b)
      BY <3>1 DEF ReadOf
    <3>. QED
      BY <3>1, <3>2, QuietStep
  <2>2. CASE Environment
    BY <2>2, TransactionRefines, CloseRefines, TickRefines DEF Environment
  <2>. QED
    BY <2>1, <2>2, LookupRefines, StoreInCacheRefines, CallRefines DEF Next
<1>. QED
  BY <1>1, InitRefines, Invariance, PTL DEF Spec, ReadsAreFreshEnough, Reads!Spec
=============================================================================
