--------------------------- MODULE MultisigProofs ---------------------------
(***************************************************************************)
(* Proofs about Multisig, for any multisigs, owners and changes, any       *)
(* number of calls and any bound.                                          *)
(*                                                                         *)
(* What the page shows, and what is on its way to it, was read from the    *)
(* chain at many moments.  The invariant says of each such reading what    *)
(* is left of it: the program never takes back an approval, a transaction  *)
(* or a list of owners that was in force.                                  *)
(***************************************************************************)
EXTENDS Multisig, SequenceTheorems, WellFoundedInduction, TLAPS

List == UNION {[K -> Tx] : K \in SUBSET TxKey}

Request ==
  [multisig : Address, what : {"account"}, may : SUBSET (Account \cup {None})]
    \cup [multisig : Address, what : {"list"}, may : SUBSET List]

CallState == {IdleCall, DoneCall} \cup Proposal \cup Creation

\* TypeOK, and requests are a sequence.
TypeInv ==
  /\ account \in [Address -> Account \cup {None}]
  /\ tx \in [TxKey -> Tx \cup {None}]
  /\ approved \subseteq TxKey \X Owner
  /\ multisig \in Address
  /\ multisigAccount \in Account \cup {Undefined, None}
  /\ transactions \in List \cup {None}
  /\ forceRefresh \in BOOLEAN
  /\ txAccount \in List
  /\ request \in Seq(Request)
  /\ subscribed \in [Subject -> {"no", "asked", "active"}]
  /\ events \in [Subject -> Seq(Account) \cup Seq(Tx)]
  /\ \A m \in Address : events[m] \in Seq(Account)
  /\ \A k \in TxKey : events[k] \in Seq(Tx)
  /\ call \in [Call -> CallState]
  /\ told \subseteq TxKey
  /\ heard \subseteq Address \cup DOMAIN txAccount
  /\ excused \subseteq {"overlap", "reordered"}

\* What is left of an account as it was read: its owners were in force under its
\* number.
Versions ==
  {a \in Account :
     /\ account[a.of] # None
     /\ a.seqno <= account[a.of].seqno
     /\ a.owners = account[a.of].past[a.seqno + 1]}

\* The multisig whose derived address is asked to sign is the transaction's own.
SignedByItself(t) ==
  \A a \in t.accounts : a.isSigner => a.key = "multisigSigner" /\ a.of = t.multisig

\* What is left of a transaction as it was read: of the owners it was proposed to,
\* those who had signed have approved it.
IsReading(k, t) ==
  /\ tx[k] # None
  /\ t.multisig = tx[k].multisig
  /\ SignedByItself(t)
  /\ account[t.multisig] # None
  /\ t.seqno <= account[t.multisig].seqno
  /\ DOMAIN t.signers = DOMAIN account[t.multisig].past[t.seqno + 1]
  /\ \A i \in SignersOf(t) :
       <<k, account[t.multisig].past[t.seqno + 1][i]>> \in approved

TxVersions == {v \in TxKey \X Tx : IsReading(v[1], v[2])}

HistoryInv ==
  \A m \in Address : account[m] # None =>
    /\ account[m].of = m
    /\ Len(account[m].past) = account[m].seqno + 1
    /\ account[m].past[account[m].seqno + 1] = account[m].owners

ChainInv ==
  /\ HistoryInv
  /\ \A k \in TxKey : tx[k] # None => <<k, tx[k]>> \in TxVersions

\* What is on its way to the page.
NetInv ==
  /\ \A n \in DOMAIN request : request[n].what = "account" =>
       request[n].may \ {None} \subseteq Versions
  /\ \A n \in DOMAIN request : request[n].what = "list" =>
       \A l \in request[n].may : \A k \in DOMAIN l : <<k, l[k]>> \in TxVersions
  /\ \A m \in Address : \A i \in DOMAIN events[m] : events[m][i] \in Versions
  /\ \A k \in TxKey : \A i \in DOMAIN events[k] : <<k, events[k][i]>> \in TxVersions

PageInv ==
  /\ Found(multisigAccount) => multisigAccount \in Versions
  /\ transactions # None =>
       \A k \in DOMAIN transactions : <<k, transactions[k]>> \in TxVersions
  /\ \A k \in DOMAIN txAccount : <<k, txAccount[k]>> \in TxVersions
  /\ DOMAIN txAccount # {} => Found(multisigAccount)

\* What the chain holds, and the page shows, at an address.
Held(s) == IF s \in Address THEN account[s] ELSE tx[s]
Shown(s) == IF s \in Address THEN multisigAccount ELSE txAccount[s]

\* The last notification on its way is of what the chain holds.
HeardInv ==
  /\ \A s \in Subject : events[s] # <<>> =>
       subscribed[s] = "active" /\ events[s][Len(events[s])] = Held(s)
  /\ \A s \in heard :
       subscribed[s] = "active" /\ (events[s] = <<>> => Shown(s) = Held(s))

UnderWay(c) == call[c].pc \in {"sent", "landed"} /\ call[c].kind = "propose"

Live(c) == call[c] # IdleCall /\ call[c] # DoneCall

CallsInv ==
  /\ \A c \in Call : call[c].pc = "landed" /\ call[c].kind = "propose" =>
       tx[call[c].key] # None
  /\ \A c \in Call : call[c].pc \in {"sent", "late"} /\ call[c].kind = "create" =>
       account[call[c].key] = None
  /\ \A c \in Call : Live(c) /\ call[c].kind = "create" =>
       /\ call[c].account.of = call[c].key
       /\ call[c].account.seqno = 0
       /\ call[c].account.past = <<call[c].account.owners>>
  /\ \A c, d \in Call : d < c /\ call[c] # IdleCall => call[d] # IdleCall
  /\ \A c, d \in Call : c # d /\ Live(c) /\ Live(d) => call[c].key # call[d].key

\* Unless proposals overlapped, each will change the flag.
FlagInv ==
  excused = {} =>
    /\ \A c \in Call : UnderWay(c) => call[c].flag # forceRefresh
    /\ \A c, d \in Call : UnderWay(c) /\ UnderWay(d) => c = d

LastList(n) ==
  /\ n \in DOMAIN request
  /\ request[n].what = "list"
  /\ \A i \in DOMAIN request : request[i].what = "list" => i <= n

\* The list has all transactions of the page's multisig that were reported.
HasTold(l) == \A k \in told : tx[k].multisig = multisig => k \in DOMAIN l

\* The last list requested is one for this page, and of a moment when all that is
\* reported was on the chain.
ToldInv ==
  /\ \A k \in told : tx[k] # None
  /\ excused = {} => \E n \in DOMAIN request :
       /\ LastList(n)
       /\ request[n].multisig = multisig
       /\ \A l \in request[n].may : HasTold(l)
       /\ Answered(n) /\ transactions # None => HasTold(transactions)

IInv ==
  /\ TypeInv
  /\ ChainInv
  /\ NetInv
  /\ PageInv
  /\ HeardInv
  /\ CallsInv
  /\ FlagInv
  /\ ToldInv

-----------------------------------------------------------------------------
(* Lists, records and sequences.                                           *)

LEMMA ListType ==
  /\ \A l \in List : DOMAIN l \in SUBSET TxKey /\ \A k \in DOMAIN l : l[k] \in Tx
  /\ \A l \in List : IsList(l)
BY DEF List, IsList

LEMMA MakesList ==
  ASSUME NEW K \in SUBSET TxKey, NEW l \in [K -> Tx]
  PROVE  l \in List
BY DEF List

LEMMA EmptyList == <<>> \in List /\ DOMAIN <<>> = {}
<1>1. DOMAIN <<>> = {}
  OBVIOUS
<1>2. <<>> \in [{} -> Tx]
  OBVIOUS
<1>3. QED
  BY <1>1, <1>2, MakesList

LEMMA ListedType ==
  ASSUME NEW T \in [TxKey -> Tx \cup {None}], NEW m
  PROVE  /\ Listed(T, m) \in List
         /\ \A k : k \in DOMAIN Listed(T, m) <=>
                     k \in TxKey /\ T[k] # None /\ T[k].multisig = m
         /\ \A k \in DOMAIN Listed(T, m) : Listed(T, m)[k] = T[k]
<1> DEFINE K == {k \in TxKey : T[k] # None /\ T[k].multisig = m}
<1>1. Listed(T, m) = [k \in K |-> T[k]]
  BY DEF Listed
<1>2. \A k \in K : T[k] \in Tx
  OBVIOUS
<1>3. K \in SUBSET TxKey
  OBVIOUS
<1> HIDE DEF K
<1>4. [k \in K |-> T[k]] \in [K -> Tx]
  BY <1>2
<1>5. QED
  BY <1>1, <1>3, <1>4, MakesList DEF K

LEMMA TypeInvIsTypeOK == TypeInv => TypeOK
<1> SUFFICES ASSUME TypeInv PROVE TypeOK
  OBVIOUS
<1>1. transactions = None \/ IsList(transactions)
  BY ListType DEF TypeInv
<1>2. IsList(txAccount)
  BY ListType DEF TypeInv
<1>3. ASSUME NEW n \in DOMAIN request PROVE IsRequest(request[n])
  <2>1. request[n] \in Request
    BY <1>3, ElementOfSeq, LenProperties DEF TypeInv
  <2>2. QED
    BY <2>1, ListType DEF Request, IsRequest
<1>4. QED
  BY <1>1, <1>2, <1>3 DEF TypeInv, TypeOK, CallState

LEMMA RequestType ==
  ASSUME TypeInv, NEW n \in DOMAIN request
  PROVE  /\ request[n].multisig \in Address
         /\ request[n].what \in {"account", "list"}
         /\ request[n].what = "account" => request[n].may \in SUBSET (Account \cup {None})
         /\ request[n].what = "list" => request[n].may \in SUBSET List
<1>1. request[n] \in Request
  BY ElementOfSeq, LenProperties DEF TypeInv
<1>2. QED
  BY <1>1 DEF Request

-----------------------------------------------------------------------------
(* The chain evolves: it keeps what the page relies on.                    *)

Evolves ==
  /\ \A m \in Address : account[m] # None =>
       /\ account'[m] # None
       /\ account[m].seqno <= account'[m].seqno
       /\ \A i \in 1 .. account[m].seqno + 1 : account'[m].past[i] = account[m].past[i]
  /\ \A k \in TxKey : tx[k] # None =>
       tx'[k] # None /\ tx'[k].multisig = tx[k].multisig
  /\ approved \subseteq approved'

LEMMA VersionsStay ==
  ASSUME TypeInv, account' \in [Address -> Account \cup {None}], Evolves
  PROVE  Versions \subseteq Versions'
<1> SUFFICES ASSUME NEW a \in Versions PROVE a \in Versions'
  OBVIOUS
<1>1. a \in Account /\ a.of \in Address /\ a.seqno \in Nat
  BY DEF Account, Versions
<1>2. account[a.of] \in Account /\ account'[a.of] \in Account
  BY <1>1 DEF TypeInv, Versions, Evolves
<1>3. account[a.of].seqno \in Nat /\ account'[a.of].seqno \in Nat
  BY <1>2 DEF Account
<1>4. QED
  BY <1>1, <1>3 DEF Versions, Evolves

LEMMA TxVersionsStay ==
  ASSUME TypeInv, account' \in [Address -> Account \cup {None}], Evolves
  PROVE  TxVersions \subseteq TxVersions'
<1> SUFFICES ASSUME NEW k \in TxKey, NEW t \in Tx, IsReading(k, t)
             PROVE  IsReading(k, t)'
  BY DEF TxVersions
<1>1. t.multisig \in Address /\ t.seqno \in Nat
  BY DEF Tx
<1>2. account[t.multisig] \in Account /\ account'[t.multisig] \in Account
  BY <1>1 DEF TypeInv, IsReading, Evolves
<1>3. account[t.multisig].seqno \in Nat /\ account'[t.multisig].seqno \in Nat
  BY <1>2 DEF Account
<1>4. account'[t.multisig].past[t.seqno + 1] = account[t.multisig].past[t.seqno + 1]
  <2>1. t.seqno + 1 \in 1 .. account[t.multisig].seqno + 1
    BY <1>1, <1>3 DEF IsReading
  <2>2. account[t.multisig] # None
    BY DEF IsReading
  <2>3. QED
    BY <1>1, <2>1, <2>2 DEF Evolves
<1>5. t.seqno <= account'[t.multisig].seqno
  BY <1>1, <1>3 DEF IsReading, Evolves
<1>6. /\ tx'[k] # None /\ t.multisig = tx'[k].multisig
      /\ account'[t.multisig] # None
      /\ approved \subseteq approved'
  BY <1>1 DEF IsReading, Evolves
<1>7. QED
  BY <1>4, <1>5, <1>6 DEF IsReading, SignedByItself, SignersOf

LEMMA ContentType ==
  ASSUME TypeInv, NEW A \in [Address -> Account \cup {None}],
         NEW T \in [TxKey -> Tx \cup {None}], NEW m \in Address
  PROVE  /\ Content("account", m, A, T) = A[m]
         /\ Content("account", m, A, T) \in Account \cup {None}
         /\ Content("list", m, A, T) = Listed(T, m)
         /\ Content("list", m, A, T) \in List
BY ListedType DEF Content

\* A change of the chain adds to what requests under way may be answered.
LEMMA BecomeRequests ==
  ASSUME TypeInv, NEW A \in [Address -> Account \cup {None}],
         NEW T \in [TxKey -> Tx \cup {None}], Become(A, T)
  PROVE  /\ request' \in Seq(Request)
         /\ DOMAIN request' = DOMAIN request
         /\ \A n \in DOMAIN request :
              /\ request'[n].what = request[n].what
              /\ request'[n].multisig = request[n].multisig
              /\ request[n].may = {} <=> request'[n].may = {}
              /\ \A x \in request'[n].may :
                   \/ x \in request[n].may
                   \/ x = Content(request[n].what, request[n].multisig, A, T)
<1> DEFINE may(n) ==
             IF request[n].may = {} THEN {} ELSE
               request[n].may \cup {Content(request[n].what, request[n].multisig, A, T)}
<1>1. /\ request' = [n \in DOMAIN request |-> [request[n] EXCEPT !.may = may(n)]]
      /\ DOMAIN request = 1 .. Len(request) /\ Len(request) \in Nat
  BY LenProperties DEF Become, TypeInv
<1>2. ASSUME NEW n \in DOMAIN request
      PROVE  /\ request'[n] \in Request
             /\ request'[n].what = request[n].what
             /\ request'[n].multisig = request[n].multisig
             /\ request'[n].may = may(n)
  <2>1. /\ request[n] \in Request
        /\ request[n].multisig \in Address
        /\ request[n].what \in {"account", "list"}
        /\ request[n].what = "account" => request[n].may \in SUBSET (Account \cup {None})
        /\ request[n].what = "list" => request[n].may \in SUBSET List
    BY <1>2, RequestType, ElementOfSeq, LenProperties DEF TypeInv
  <2>2. /\ request[n].what = "account" => may(n) \in SUBSET (Account \cup {None})
        /\ request[n].what = "list" => may(n) \in SUBSET List
    BY <2>1, ContentType
  <2> HIDE DEF may
  <2>3. request'[n] = [request[n] EXCEPT !.may = may(n)]
    BY <1>1, <1>2
  <2>4. QED
    BY <2>1, <2>2, <2>3 DEF Request
<1>3. request' \in Seq(Request) /\ DOMAIN request' = DOMAIN request
  <2>1. DOMAIN request' = 1 .. Len(request)
    BY <1>1
  <2>2. request' = [n \in 1 .. Len(request) |-> request'[n]]
    BY <1>1
  <2>3. \A n \in 1 .. Len(request) : request'[n] \in Request
    BY <1>1, <1>2
  <2> DEFINE q == request'
             f == [n \in 1 .. Len(request) |-> q[n]]
  <2>4. f \in [1 .. Len(request) -> Request]
    BY <2>3
  <2>5. f \in Seq(Request)
    BY <1>1, <2>4, SeqDef
  <2>6. QED
    BY <1>1, <2>2, <2>5
<1>4. QED
  BY <1>2, <1>3

\* Subscribers are notified of what changed.
LEMMA BecomeEvents ==
  ASSUME TypeInv, NEW A \in [Address -> Account \cup {None}],
         NEW T \in [TxKey -> Tx \cup {None}], Become(A, T), Evolves
  PROVE  /\ events' \in [Subject -> Seq(Account) \cup Seq(Tx)]
         /\ \A m \in Address : events'[m] \in Seq(Account)
         /\ \A k \in TxKey : events'[k] \in Seq(Tx)
         /\ \A s \in Subject :
              \/ events'[s] = events[s]
                   /\ (subscribed[s] = "active" => Held(s)' = Held(s))
              \/ events'[s] = Append(events[s], Held(s)') /\ Held(s)' # None
                   /\ subscribed[s] = "active"
<1> DEFINE X(s) == IF s \in Address THEN A[s] ELSE T[s]
<1>1. /\ account' = A /\ tx' = T
      /\ events' = [s \in Subject |->
           IF subscribed[s] = "active" /\ X(s) # Held(s)
           THEN Append(events[s], X(s)) ELSE events[s]]
  BY DEF Become, Held
<1>2. \A s \in Subject : Held(s)' = X(s)
  BY <1>1 DEF Held
<1>3. \A s \in Subject : X(s) # Held(s) => X(s) # None
  BY <1>1 DEF Subject, Held, Evolves, TypeInv
<1>4. \A m \in Address : X(m) \in Account \cup {None} /\ m \in Subject
  BY DEF Subject
<1>5. \A k \in TxKey : X(k) \in Tx \cup {None} /\ k \in Subject
  BY MultisigAssumption DEF Subject
<1>6. \A s \in Subject : events'[s] =
        IF subscribed[s] = "active" /\ X(s) # Held(s)
        THEN Append(events[s], X(s)) ELSE events[s]
  BY <1>1
<1> HIDE DEF X
<1>7. ASSUME NEW m \in Address PROVE events'[m] \in Seq(Account)
  <2>1. events[m] \in Seq(Account)
    BY DEF TypeInv
  <2>2. X(m) # Held(m) => Append(events[m], X(m)) \in Seq(Account)
    BY <1>3, <1>4, <2>1, AppendProperties
  <2>3. QED
    BY <1>4, <1>6, <2>1, <2>2
<1>8. ASSUME NEW k \in TxKey PROVE events'[k] \in Seq(Tx)
  <2>1. events[k] \in Seq(Tx)
    BY DEF TypeInv
  <2>2. X(k) # Held(k) => Append(events[k], X(k)) \in Seq(Tx)
    BY <1>3, <1>5, <2>1, AppendProperties
  <2>3. QED
    BY <1>5, <1>6, <2>1, <2>2
<1>9. \A s \in Subject : events'[s] \in Seq(Account) \cup Seq(Tx)
  BY <1>7, <1>8 DEF Subject
<1>10. events' \in [Subject -> Seq(Account) \cup Seq(Tx)]
  BY <1>1, <1>9
<1>11. QED
  BY <1>2, <1>3, <1>6, <1>7, <1>8, <1>10

LEMMA Appended ==
  ASSUME NEW S, NEW q \in Seq(S), NEW x
  PROVE  /\ Append(q, x) # <<>>
         /\ Append(q, x)[Len(Append(q, x))] = x
         /\ \A i \in DOMAIN Append(q, x) :
              \/ Append(q, x)[i] = x
              \/ i \in DOMAIN q /\ Append(q, x)[i] = q[i]
<1>1. q \in Seq(S \cup {x}) /\ x \in S \cup {x}
  BY SeqMonotonic
<1>2. QED
  BY <1>1, AppendProperties, LenProperties

\* A step of the chain, with the notifications and possible answers it brings.
LEMMA ChainStep ==
  ASSUME IInv, NEW A \in [Address -> Account \cup {None}],
         NEW T \in [TxKey -> Tx \cup {None}], Become(A, T), Evolves,
         approved' \subseteq TxKey \X Owner, ChainInv',
         UNCHANGED <<subscribed, page, history>>,
         call' \in [Call -> CallState], CallsInv', FlagInv'
  PROVE  IInv'
<1>1. account' = A /\ tx' = T
  BY DEF Become
<1>2. TypeInv'
  BY <1>1, BecomeRequests, BecomeEvents DEF IInv, TypeInv, page, history
<1>3. Versions \subseteq Versions' /\ TxVersions \subseteq TxVersions'
  BY <1>1, VersionsStay, TxVersionsStay DEF IInv
<1>4. \A m \in Address : A[m] # None => A[m] \in Versions'
  <2>1. \A m \in Address : A[m] # None => A[m] \in Account /\ A[m].of = m
    BY <1>1 DEF ChainInv, HistoryInv
  <2>2. QED
    BY <1>1, <2>1 DEF ChainInv, HistoryInv, Versions, Account
<1>5. ASSUME NEW m, NEW k \in DOMAIN Listed(T, m)
      PROVE  <<k, Listed(T, m)[k]>> \in TxVersions'
  <2>1. k \in TxKey /\ T[k] # None /\ Listed(T, m)[k] = T[k]
    BY <1>5, ListedType
  <2>2. QED
    BY <1>1, <2>1 DEF ChainInv
<1>6. NetInv'
  <2>1. ASSUME NEW n \in DOMAIN request', request'[n].what = "account",
               NEW a \in request'[n].may \ {None}
        PROVE  a \in Versions'
    <3>1. /\ n \in DOMAIN request /\ request[n].what = "account"
          /\ request[n].multisig \in Address
          /\ a \in request[n].may \/ a = Content("account", request[n].multisig, A, T)
      BY <2>1, BecomeRequests, RequestType DEF IInv
    <3>2. CASE a \in request[n].may
      BY <1>3, <3>1, <3>2 DEF IInv, NetInv
    <3>3. CASE a = Content("account", request[n].multisig, A, T)
      BY <1>4, <3>1, <3>3 DEF Content
    <3>4. QED
      BY <3>1, <3>2, <3>3
  <2>2. ASSUME NEW n \in DOMAIN request', request'[n].what = "list",
               NEW l \in request'[n].may, NEW k \in DOMAIN l
        PROVE  <<k, l[k]>> \in TxVersions'
    <3>1. /\ n \in DOMAIN request /\ request[n].what = "list"
          /\ l \in request[n].may \/ l = Content("list", request[n].multisig, A, T)
      BY <2>2, BecomeRequests DEF IInv
    <3>2. CASE l \in request[n].may
      BY <1>3, <3>1, <3>2 DEF IInv, NetInv
    <3>3. CASE l = Content("list", request[n].multisig, A, T)
      BY <1>5, <3>1, <3>3 DEF Content
    <3>4. QED
      BY <3>1, <3>2, <3>3
  <2>3. ASSUME NEW m \in Address, NEW i \in DOMAIN events'[m]
        PROVE  events'[m][i] \in Versions'
    <3>1. /\ m \in Subject /\ Held(m)' = A[m]
          /\ events[m] \in Seq(Account)
          /\ events'[m] = events[m]
               \/ (events'[m] = Append(events[m], Held(m)') /\ Held(m)' # None)
      BY <1>1, BecomeEvents DEF IInv, TypeInv, Subject, Held
    <3>2. CASE i \in DOMAIN events[m] /\ events'[m][i] = events[m][i]
      BY <1>3, <3>2 DEF IInv, NetInv
    <3>3. CASE events'[m][i] = A[m] /\ A[m] # None
      BY <1>4, <3>3
    <3>4. CASE events'[m] = events[m]
      BY <2>3, <3>2, <3>4
    <3>5. CASE events'[m] = Append(events[m], A[m]) /\ A[m] # None
      <4>1. \A j \in DOMAIN Append(events[m], A[m]) :
              \/ Append(events[m], A[m])[j] = A[m]
              \/ j \in DOMAIN events[m] /\ Append(events[m], A[m])[j] = events[m][j]
        BY <3>1, Appended
      <4>2. QED
        BY <2>3, <3>2, <3>3, <3>5, <4>1
    <3>6. QED
      BY <3>1, <3>4, <3>5
  <2>4. ASSUME NEW k \in TxKey, NEW i \in DOMAIN events'[k]
        PROVE  <<k, events'[k][i]>> \in TxVersions'
    <3>1. /\ k \in Subject /\ Held(k)' = T[k]
          /\ events[k] \in Seq(Tx)
          /\ events'[k] = events[k]
               \/ (events'[k] = Append(events[k], Held(k)') /\ Held(k)' # None)
      BY <1>1, BecomeEvents, MultisigAssumption DEF IInv, TypeInv, Subject, Held
    <3>2. CASE i \in DOMAIN events[k] /\ events'[k][i] = events[k][i]
      BY <1>3, <3>2 DEF IInv, NetInv
    <3>3. CASE events'[k][i] = T[k] /\ T[k] # None
      BY <1>1, <3>3 DEF ChainInv
    <3>4. CASE events'[k] = events[k]
      BY <2>4, <3>2, <3>4
    <3>5. CASE events'[k] = Append(events[k], T[k]) /\ T[k] # None
      <4>1. \A j \in DOMAIN Append(events[k], T[k]) :
              \/ Append(events[k], T[k])[j] = T[k]
              \/ j \in DOMAIN events[k] /\ Append(events[k], T[k])[j] = events[k][j]
        BY <3>1, Appended
      <4>2. QED
        BY <2>4, <3>2, <3>3, <3>5, <4>1
    <3>6. QED
      BY <3>1, <3>4, <3>5
  <2>5. QED
    BY <2>1, <2>2, <2>3, <2>4 DEF NetInv
<1>7. PageInv'
  BY <1>3 DEF IInv, PageInv, page, Found
<1>8. HeardInv'
  <2>1. ASSUME NEW s \in Subject, events'[s] # <<>>
        PROVE  subscribed'[s] = "active" /\ events'[s][Len(events'[s])] = Held(s)'
    <3>1. CASE events'[s] = events[s] /\ (subscribed[s] = "active" => Held(s)' = Held(s))
      BY <2>1, <3>1 DEF IInv, HeardInv
    <3>2. CASE events'[s] = Append(events[s], Held(s)') /\ subscribed[s] = "active"
      <4>1. events[s] \in Seq(Account) \cup Seq(Tx)
        BY DEF IInv, TypeInv
      <4>2. QED
        BY <3>2, <4>1, Appended
    <3>3. QED
      BY <3>1, <3>2, BecomeEvents DEF IInv
  <2>2. ASSUME NEW s \in heard'
        PROVE  subscribed'[s] = "active" /\ (events'[s] = <<>> => Shown(s)' = Held(s)')
    <3>1. s \in Subject /\ s \in heard
      BY <2>2, ListType DEF IInv, TypeInv, Subject, history
    <3>2. events[s] \in Seq(Account) \cup Seq(Tx)
      BY <3>1 DEF IInv, TypeInv
    <3>3. subscribed[s] = "active" /\ (events[s] = <<>> => Shown(s) = Held(s))
      BY <3>1 DEF IInv, HeardInv
    <3>4. Shown(s)' = Shown(s)
      BY DEF Shown, page
    <3>5. \/ events'[s] = events[s] /\ Held(s)' = Held(s)
          \/ events'[s] = Append(events[s], Held(s)')
      BY <3>1, <3>3, BecomeEvents DEF IInv
    <3>6. QED
      BY <3>2, <3>3, <3>4, <3>5, Appended
  <2>3. QED
    BY <2>1, <2>2 DEF HeardInv
<1>9. ToldInv'
  <2>1. \A k \in told : k \in TxKey /\ tx[k] # None /\ T[k] # None
                          /\ T[k].multisig = tx[k].multisig
    BY <1>1 DEF IInv, ToldInv, Evolves, TypeInv
  <2>2. \A l : HasTold(l) => HasTold(l)'
    BY <1>1, <2>1 DEF HasTold, page, history
  <2>3. ASSUME excused = {}, NEW n \in DOMAIN request, LastList(n),
               request[n].multisig = multisig,
               \A l \in request[n].may : HasTold(l),
               Answered(n) /\ transactions # None => HasTold(transactions)
        PROVE  /\ n \in DOMAIN request' /\ LastList(n)'
               /\ request'[n].multisig = multisig
               /\ \A l \in request'[n].may : HasTold(l)'
               /\ Answered(n)' /\ transactions # None => HasTold(transactions)'
    <3>1. /\ n \in DOMAIN request' /\ LastList(n)'
          /\ request'[n].what = "list" /\ request'[n].multisig = multisig
      BY <2>3, BecomeRequests DEF IInv, LastList
    <3>2. ASSUME NEW l \in request'[n].may PROVE HasTold(l)'
      <4>1. l \in request[n].may \/ l = Content("list", multisig, A, T)
        BY <2>3, <3>2, BecomeRequests DEF IInv, LastList
      <4>2. CASE l \in request[n].may
        BY <2>2, <2>3, <4>2
      <4>3. CASE l = Listed(T, multisig)
        BY <1>1, <2>1, <4>3, ListedType DEF HasTold, page, history
      <4>4. QED
        BY <4>1, <4>2, <4>3 DEF Content
    <3>3. Answered(n)' => Answered(n)
      BY <2>3, BecomeRequests DEF IInv, Answered
    <3>4. Answered(n)' /\ transactions # None => HasTold(transactions)'
      BY <1>1, <2>1, <2>3, <3>3 DEF HasTold, page, history
    <3>5. QED
      BY <3>1, <3>2, <3>4
  <2>4. QED
    BY <2>1, <2>3, <1>1 DEF IInv, ToldInv, page, history, HasTold
<1>10. QED
  BY <1>2, <1>6, <1>7, <1>8, <1>9 DEF IInv

\* A step of the chain that belongs to no call of the page.
LEMMA OthersStep ==
  ASSUME IInv, NEW A \in [Address -> Account \cup {None}],
         NEW T \in [TxKey -> Tx \cup {None}], Become(A, T), Evolves,
         \A m \in Address : account[m] = None => A[m] = None,
         approved' \subseteq TxKey \X Owner, ChainInv',
         UNCHANGED <<subscribed, page, call, history>>
  PROVE  IInv'
<1>1. account' = A /\ tx' = T
  BY DEF Become
<1>2. call' \in [Call -> CallState]
  BY DEF IInv, TypeInv
<1>3. CallsInv'
  <2>1. \A c \in Call : call[c].pc = "landed" /\ call[c].kind = "propose" =>
          T[call[c].key] # None
    <3>1. \A c \in Call : call[c].pc = "landed" /\ call[c].kind = "propose" =>
            call[c].key \in TxKey
      BY DEF IInv, TypeInv, CallState, IdleCall, DoneCall, Proposal, Creation
    <3>2. QED
      BY <1>1, <3>1 DEF IInv, CallsInv, Evolves
  <2>2. \A c \in Call : call[c].pc \in {"sent", "late"} /\ call[c].kind = "create" =>
          A[call[c].key] = None
    <3>1. \A c \in Call : call[c].pc \in {"sent", "late"} /\ call[c].kind = "create" =>
            call[c].key \in Address
      BY DEF IInv, TypeInv, CallState, IdleCall, DoneCall, Proposal, Creation
    <3>2. QED
      BY <1>1, <3>1 DEF IInv, CallsInv
  <2>3. QED
    BY <1>1, <2>1, <2>2 DEF IInv, CallsInv, Live, IdleCall, DoneCall
<1>4. FlagInv'
  BY DEF IInv, FlagInv, UnderWay, page, history
<1>5. QED
  BY <1>2, <1>3, <1>4, ChainStep, Zenon

-----------------------------------------------------------------------------
(* The instructions of the program.                                        *)

\* Well-foundedness of < in place of induction.
LEMMA LeastOf ==
  ASSUME NEW S, S \subseteq Nat, S # {}
  PROVE  \E m \in S : \A n \in S : m <= n
<1>1. PICK x \in S : \A y \in S : ~ (<<y, x>> \in OpToRel(<, Nat))
  BY NatLessThanWellFounded, WFMin
<1>2. \A y \in S : ~ (y < x)
  BY <1>1 DEF OpToRel
<1> QED
  BY <1>2

LEMMA PositionIn ==
  ASSUME NEW owners \in Seq(Owner), NEW o, \E i \in DOMAIN owners : owners[i] = o
  PROVE  /\ Position(owners, o) \in DOMAIN owners
         /\ owners[Position(owners, o)] = o
<1> DEFINE S == {i \in DOMAIN owners : owners[i] = o}
<1>1. DOMAIN owners = 1 .. Len(owners) /\ Len(owners) \in Nat
  BY LenProperties
<1>2. PICK i \in S : \A j \in S : i <= j
  <2>1. S \subseteq Nat /\ S # {}
    BY <1>1
  <2> HIDE DEF S
  <2>2. QED
    BY <2>1, LeastOf
<1>3. \A j \in 1 .. i - 1 : owners[j] # o
  BY <1>1, <1>2
<1>4. QED
  BY <1>2, <1>3 DEF Position

LEMMA MetasType ==
  ASSUME NEW m \in Address, NEW keys,
         keys \subseteq {"multisig", "multisigSigner", "spill", "upgrade"},
         NEW signers, signers \subseteq {"multisigSigner"}
  PROVE  /\ Metas(m, keys, signers) \in SUBSET AccountMeta
         /\ \A a \in Metas(m, keys, signers) :
              a.isSigner => a.key = "multisigSigner" /\ a.of = m
<1> SUFFICES ASSUME NEW key \in keys
             PROVE  LET a == [key |-> key, of |-> m, isSigner |-> key \in signers]
                    IN /\ a \in AccountMeta
                       /\ a.isSigner => a.key = "multisigSigner" /\ a.of = m
  BY Zenon DEF Metas
<1>1. CASE key \in signers
  <2>1. (key \in signers) = TRUE
    BY <1>1
  <2>2. QED
    BY <1>1, <2>1 DEF AccountMeta
<1>2. CASE key \notin signers
  <2>1. (key \in signers) = FALSE
    BY <1>2
  <2>2. QED
    BY <1>2, <2>1 DEF AccountMeta
<1>3. QED
  BY <1>1, <1>2

LEMMA AccountsType ==
  ASSUME NEW change \in Change, NEW m \in Address
  PROVE  /\ AccountsOf(change, m) \in SUBSET AccountMeta
         /\ \A a \in AccountsOf(change, m) :
              a.isSigner => a.key = "multisigSigner" /\ a.of = m
<1>1. change.kind \in {"owners", "threshold", "idl", "program"}
  BY MultisigAssumption
<1>2. CASE change.kind \in {"owners", "threshold"}
  <2>1. AccountsOf(change, m) = Metas(m, {"multisig", "multisigSigner"}, {"multisigSigner"})
    BY <1>2 DEF AccountsOf, AccountsOfSelf
  <2>2. QED
    BY <2>1, MetasType
<1>3. CASE change.kind = "idl"
  <2>1. AccountsOf(change, m) = Metas(m, {"upgrade", "multisigSigner"}, {})
    BY <1>3 DEF AccountsOf, AccountsOfIdl
  <2>2. QED
    BY <2>1, MetasType
<1>4. CASE change.kind = "program"
  <2>1. AccountsOf(change, m) = Metas(m, {"upgrade", "spill", "multisigSigner"}, {})
    BY <1>4 DEF AccountsOf, AccountsOfProgram
  <2>2. QED
    BY <2>1, MetasType
<1>5. QED
  BY <1>1, <1>2, <1>3, <1>4

\* What one transaction becomes, in a step that leaves the others alone.
LEMMA OneTx ==
  ASSUME IInv, NEW k \in TxKey, NEW t \in Tx, NEW T,
         T = [tx EXCEPT ![k] = t], tx' = T, UNCHANGED account,
         tx[k] # None => t.multisig = tx[k].multisig,
         approved \subseteq approved', IsReading(k, t)'
  PROVE  /\ T \in [TxKey -> Tx \cup {None}]
         /\ Evolves
         /\ ChainInv'
<1>1. /\ T \in [TxKey -> Tx \cup {None}] /\ t # None
      /\ T[k] = t /\ \A j \in TxKey : j # k => T[j] = tx[j]
  BY NullAssumption DEF IInv, TypeInv
<1>2. \A m \in Address : account[m] # None => account[m].seqno \in Nat
  BY DEF IInv, TypeInv, Account
<1>3. Evolves
  <2>1. \A m \in Address : account[m] # None => account[m].seqno <= account[m].seqno
    BY <1>2
  <2>2. \A j \in TxKey : tx[j] # None => T[j] # None /\ T[j].multisig = tx[j].multisig
    BY <1>1
  <2>3. QED
    BY <2>1, <2>2 DEF Evolves
<1>4. TxVersions \subseteq TxVersions'
  BY <1>3, TxVersionsStay DEF IInv, TypeInv
<1>5. HistoryInv'
  BY DEF IInv, ChainInv, HistoryInv
<1>6. ASSUME NEW j \in TxKey, tx'[j] # None PROVE <<j, tx'[j]>> \in TxVersions'
  BY <1>1, <1>4, <1>6 DEF IInv, ChainInv, TxVersions
<1>7. QED
  BY <1>1, <1>3, <1>5, <1>6 DEF ChainInv

LEMMA HasOwnerMeans ==
  ASSUME IInv, NEW m \in Address, NEW o, HasOwner(m, o)
  PROVE  /\ account[m] \in Account
         /\ account[m].owners \in Seq(Owner)
         /\ account[m].seqno \in Nat
         /\ account[m].past[account[m].seqno + 1] = account[m].owners
         /\ Position(account[m].owners, o) \in DOMAIN account[m].owners
         /\ account[m].owners[Position(account[m].owners, o)] = o
<1>1. /\ account[m] # None
      /\ \E i \in DOMAIN account[m].owners : account[m].owners[i] = o
  BY DEF HasOwner
<1>2. account[m] \in Account
  BY <1>1 DEF IInv, TypeInv
<1>3. account[m].owners \in Seq(Owner) /\ account[m].seqno \in Nat
  BY <1>2, MultisigAssumption DEF Account
<1>4. account[m].past[account[m].seqno + 1] = account[m].owners
  BY <1>1 DEF IInv, ChainInv, HistoryInv
<1>5. QED
  BY <1>1, <1>2, <1>3, <1>4, PositionIn

LEMMA CreateChanges ==
  ASSUME IInv, NEW k \in TxKey, NEW m \in Address, NEW o \in Owner,
         NEW change \in Change, CreateTransaction(k, m, o, change)
  PROVE  \E T \in [TxKey -> Tx \cup {None}] :
           /\ Become(account, T) /\ Evolves /\ ChainInv'
           /\ T[k] # None
           /\ approved' \subseteq TxKey \X Owner
<1> DEFINE a == account[m]
           p == Position(a.owners, o)
           sig == [i \in DOMAIN a.owners |-> i = p]
<1> PICK t : t = [multisig |-> m, change |-> change, accounts |-> AccountsOf(change, m),
                  didExecute |-> FALSE, seqno |-> a.seqno, signers |-> sig]
  OBVIOUS
<1> DEFINE T == [tx EXCEPT ![k] = t]
<1>1. /\ tx[k] = None /\ HasOwner(m, o)
      /\ Become(account, T)
      /\ approved' = approved \cup {<<k, o>>}
  BY DEF CreateTransaction
<1>2. account' = account /\ tx' = T
  BY <1>1 DEF Become
<1>3. /\ a \in Account /\ a.owners \in Seq(Owner) /\ a.seqno \in Nat
      /\ a.past[a.seqno + 1] = a.owners
      /\ p \in DOMAIN a.owners /\ a.owners[p] = o
  BY <1>1, HasOwnerMeans
<1>4. sig \in Seq(BOOLEAN) /\ DOMAIN sig = DOMAIN a.owners
  <2>1. DOMAIN a.owners = 1 .. Len(a.owners) /\ Len(a.owners) \in Nat
    BY <1>3, LenProperties
  <2>2. sig \in [1 .. Len(a.owners) -> BOOLEAN]
    BY <2>1
  <2>3. QED
    BY <2>1, <2>2, SeqDef
<1>5. \A i : i \in DOMAIN sig /\ sig[i] => i = p
  OBVIOUS
<1>6. /\ AccountsOf(change, m) \in SUBSET AccountMeta
      /\ \A b \in AccountsOf(change, m) :
           b.isSigner => b.key = "multisigSigner" /\ b.of = m
  BY AccountsType
<1>7. a # None
  BY <1>1 DEF HasOwner
<1> HIDE DEF sig, a, p
<1>8. t \in Tx
  BY <1>3, <1>4, <1>6 DEF Tx
<1>9. tx'[k] = t
  BY <1>2 DEF IInv, TypeInv
<1>10. IsReading(k, t)'
  <2>1. SignedByItself(t)
    BY <1>6 DEF SignedByItself
  <2>2. \A i \in SignersOf(t) : <<k, a.past[a.seqno + 1][i]>> \in approved'
    BY <1>1, <1>3, <1>5 DEF SignersOf
  <2>3. /\ t.multisig = m /\ t.seqno = a.seqno /\ DOMAIN t.signers = DOMAIN a.owners
        /\ a.seqno <= a.seqno
    BY <1>3, <1>4
  <2>4. account'[m] = a /\ tx'[k] # None /\ t.multisig = tx'[k].multisig
    BY <1>2, <1>8, <1>9, NullAssumption DEF a
  <2>5. QED
    BY <1>3, <1>7, <2>1, <2>2, <2>3, <2>4 DEF IsReading, SignedByItself, SignersOf
<1> HIDE DEF T
<1>11. T \in [TxKey -> Tx \cup {None}] /\ Evolves /\ ChainInv'
  BY <1>1, <1>2, <1>8, <1>10, OneTx DEF T
<1>12. T[k] # None
  BY <1>2, <1>8, <1>9, NullAssumption
<1>13. approved' \subseteq TxKey \X Owner
  BY <1>1 DEF IInv, TypeInv
<1>14. QED
  BY <1>1, <1>11, <1>12, <1>13

LEMMA ApproveChanges ==
  ASSUME IInv, NEW k \in TxKey, NEW m \in Address, NEW o \in Owner,
         ApproveTransaction(k, m, o)
  PROVE  \E T \in [TxKey -> Tx \cup {None}] :
           /\ Become(account, T) /\ Evolves /\ ChainInv'
           /\ approved' \subseteq TxKey \X Owner
<1> DEFINE a == account[m]
           i == Position(a.owners, o)
           T == [tx EXCEPT ![k].signers[i] = TRUE]
<1>1. /\ tx[k] # None /\ tx[k].multisig = m /\ HasOwner(m, o)
      /\ tx[k].seqno = a.seqno
      /\ Become(account, T)
      /\ approved' = approved \cup {<<k, o>>}
  BY DEF ApproveTransaction
<1>2. account' = account /\ tx' = T
  BY <1>1 DEF Become
<1>3. /\ a \in Account /\ a.owners \in Seq(Owner) /\ a.seqno \in Nat
      /\ a.past[a.seqno + 1] = a.owners
      /\ i \in DOMAIN a.owners /\ a.owners[i] = o
  BY <1>1, HasOwnerMeans
<1>4. tx[k] \in Tx /\ IsReading(k, tx[k])
  BY <1>1 DEF IInv, ChainInv, TxVersions
<1>5. DOMAIN tx[k].signers = DOMAIN a.owners /\ tx[k].signers \in Seq(BOOLEAN)
  BY <1>1, <1>3, <1>4 DEF IsReading, Tx
<1> PICK sig : sig = [tx[k].signers EXCEPT ![i] = TRUE]
  OBVIOUS
<1>6. /\ sig \in Seq(BOOLEAN) /\ DOMAIN sig = DOMAIN a.owners
      /\ \A j \in DOMAIN sig : sig[j] => j = i \/ tx[k].signers[j]
  <2>1. i \in 1 .. Len(tx[k].signers)
    BY <1>3, <1>5, LenProperties
  <2>2. sig \in Seq(BOOLEAN)
    BY <1>5, <2>1, ExceptSeq
  <2>3. QED
    BY <1>5, <2>2
<1> PICK t : t = [tx[k] EXCEPT !.signers = sig]
  OBVIOUS
<1>7. T = [tx EXCEPT ![k] = t]
  OBVIOUS
<1> HIDE DEF a, i, T
<1>8. /\ t \in Tx /\ t.multisig = m /\ t.seqno = a.seqno /\ t.signers = sig
      /\ t.accounts = tx[k].accounts
  BY <1>1, <1>4, <1>6 DEF Tx
<1>9. tx'[k] = t
  BY <1>2, <1>7 DEF IInv, TypeInv
<1>10. IsReading(k, t)'
  <2>1. SignedByItself(t)
    BY <1>1, <1>4, <1>8 DEF SignedByItself, IsReading
  <2>2. \A j \in SignersOf(t) : <<k, a.past[a.seqno + 1][j]>> \in approved'
    <3>1. \A j \in SignersOf(t) : j = i \/ j \in SignersOf(tx[k])
      BY <1>5, <1>6, <1>8 DEF SignersOf
    <3>2. \A j \in SignersOf(tx[k]) : <<k, a.past[a.seqno + 1][j]>> \in approved
      BY <1>1, <1>4 DEF IsReading, a
    <3>3. QED
      BY <1>1, <1>3, <3>1, <3>2
  <2>3. a # None /\ a.seqno <= a.seqno
    BY <1>3, <1>4, <1>1 DEF IsReading, a
  <2>4. account'[m] = a /\ tx'[k] # None /\ t.multisig = tx'[k].multisig
    BY <1>2, <1>8, <1>9, NullAssumption DEF a
  <2>5. QED
    BY <1>3, <1>6, <1>8, <2>1, <2>2, <2>3, <2>4 DEF IsReading, SignedByItself, SignersOf
<1>11. T \in [TxKey -> Tx \cup {None}] /\ Evolves /\ ChainInv'
  BY <1>1, <1>2, <1>7, <1>8, <1>10, OneTx
<1>12. approved' \subseteq TxKey \X Owner
  BY <1>1 DEF IInv, TypeInv
<1>13. QED
  BY <1>1, <1>11, <1>12

\* What an executed transaction makes of its multisig.
Executed(a, c) ==
  CASE c.kind = "owners" -> SetOwners(a, c.owners)
    [] c.kind = "threshold" -> [a EXCEPT !.threshold = c.threshold]
    [] OTHER -> a

\* Owners are replaced, never what was in force.
LEMMA ExecutedKeeps ==
  ASSUME NEW a \in Account, NEW c \in Change,
         Len(a.past) = a.seqno + 1, a.past[a.seqno + 1] = a.owners
  PROVE  LET b == Executed(a, c)
         IN /\ b \in Account /\ b.of = a.of
            /\ a.seqno <= b.seqno
            /\ \A i \in 1 .. a.seqno + 1 : b.past[i] = a.past[i]
            /\ Len(b.past) = b.seqno + 1 /\ b.past[b.seqno + 1] = b.owners
<1> DEFINE b == Executed(a, c)
<1>1. /\ a.past \in Seq(OwnerList) /\ a.seqno \in Nat /\ a.threshold \in Nat
      /\ a.owners \in OwnerList
  BY DEF Account
<1>2. CASE c.kind = "owners"
  <2>1. c.owners \in OwnerList /\ Len(c.owners) \in Nat
    BY <1>2, MultisigAssumption, LenProperties
  <2>2. b = [a EXCEPT !.owners = c.owners, !.seqno = a.seqno + 1,
                      !.past = Append(a.past, c.owners),
                      !.threshold = IF Len(c.owners) < a.threshold THEN Len(c.owners)
                                                                   ELSE a.threshold]
    BY <1>2 DEF Executed, SetOwners
  <2>3. /\ Append(a.past, c.owners) \in Seq(OwnerList)
        /\ Len(Append(a.past, c.owners)) = a.seqno + 2
        /\ \A i \in 1 .. a.seqno + 1 : Append(a.past, c.owners)[i] = a.past[i]
        /\ Append(a.past, c.owners)[a.seqno + 2] = c.owners
    BY <1>1, <2>1, AppendProperties
  <2>4. /\ b \in Account /\ b.of = a.of /\ b.seqno = a.seqno + 1
        /\ b.past = Append(a.past, c.owners) /\ b.owners = c.owners
    <3>1. PICK past : past = Append(a.past, c.owners)
      OBVIOUS
    <3>2. PICK th : th = IF Len(c.owners) < a.threshold THEN Len(c.owners) ELSE a.threshold
      OBVIOUS
    <3>3. past \in Seq(OwnerList) /\ th \in Nat /\ a.seqno + 1 \in Nat
      BY <1>1, <2>1, <2>3, <3>1, <3>2
    <3>4. b = [a EXCEPT !.owners = c.owners, !.seqno = a.seqno + 1, !.past = past,
                        !.threshold = th]
      BY <2>2, <3>1, <3>2
    <3>5. QED
      BY <2>1, <3>1, <3>3, <3>4 DEF Account
  <2> HIDE DEF b
  <2>5. b.seqno + 1 = a.seqno + 2
    BY <1>1, <2>4
  <2>6. QED
    BY <1>1, <2>3, <2>4, <2>5 DEF b
<1>3. CASE c.kind = "threshold"
  <2>1. c.threshold \in Nat
    BY <1>3, MultisigAssumption
  <2>2. b = [a EXCEPT !.threshold = c.threshold]
    BY <1>3 DEF Executed
  <2>3. QED
    BY <1>1, <2>1, <2>2 DEF Account
<1>4. CASE c.kind \notin {"owners", "threshold"}
  <2>1. b = a
    BY <1>4 DEF Executed
  <2>2. QED
    BY <1>1, <2>1
<1>5. QED
  BY <1>2, <1>3, <1>4

LEMMA ExecuteChanges ==
  ASSUME IInv, NEW k \in TxKey, NEW m \in Address, ExecuteTransaction(k, m)
  PROVE  \E A \in [Address -> Account \cup {None}], T \in [TxKey -> Tx \cup {None}] :
           /\ Become(A, T) /\ Evolves /\ ChainInv'
           /\ \A n \in Address : account[n] = None => A[n] = None
           /\ approved' \subseteq TxKey \X Owner
<1> DEFINE a == account[m]
           c == tx[k].change
           A == [account EXCEPT ![m] = Executed(a, c)]
           T == [tx EXCEPT ![k].didExecute = TRUE]
<1>1. /\ tx[k] # None /\ tx[k].multisig = m
      /\ Become(A, T) /\ approved' = approved
  BY DEF ExecuteTransaction, Executed
<1>2. account' = A /\ tx' = T
  BY <1>1 DEF Become
<1>3. tx[k] \in Tx /\ IsReading(k, tx[k])
  BY <1>1 DEF IInv, ChainInv, TxVersions
<1>4. /\ a \in Account /\ a # None /\ a.of = m /\ c \in Change
      /\ Len(a.past) = a.seqno + 1 /\ a.past[a.seqno + 1] = a.owners
  BY <1>1, <1>3 DEF IInv, TypeInv, ChainInv, HistoryInv, IsReading, Tx
<1> PICK b : b = Executed(a, c)
  OBVIOUS
<1>5. /\ b \in Account /\ b.of = a.of /\ b # None
      /\ a.seqno <= b.seqno
      /\ \A i \in 1 .. a.seqno + 1 : b.past[i] = a.past[i]
      /\ Len(b.past) = b.seqno + 1 /\ b.past[b.seqno + 1] = b.owners
  BY <1>4, ExecutedKeeps, NullAssumption
<1> PICK t : t = [tx[k] EXCEPT !.didExecute = TRUE]
  OBVIOUS
<1>6. A = [account EXCEPT ![m] = b] /\ T = [tx EXCEPT ![k] = t]
  OBVIOUS
<1> HIDE DEF A, T
<1>7. /\ A \in [Address -> Account \cup {None}] /\ A[m] = b
      /\ \A n \in Address : n # m => A[n] = account[n]
  BY <1>5, <1>6 DEF IInv, TypeInv
<1>8. /\ t \in Tx /\ t # None /\ t.multisig = m /\ t.seqno = tx[k].seqno
      /\ t.signers = tx[k].signers /\ t.accounts = tx[k].accounts
  BY <1>1, <1>3, NullAssumption DEF Tx
<1>9. /\ T \in [TxKey -> Tx \cup {None}] /\ T[k] = t
      /\ \A j \in TxKey : j # k => T[j] = tx[j]
  BY <1>6, <1>8 DEF IInv, TypeInv
<1>10. \A n \in Address : account[n] # None => account[n].seqno \in Nat
  BY DEF IInv, TypeInv, Account
<1>11. Evolves
  <2>1. \A n \in Address : account[n] # None =>
          /\ A[n] # None /\ account[n].seqno <= A[n].seqno
          /\ \A i \in 1 .. account[n].seqno + 1 : A[n].past[i] = account[n].past[i]
    BY <1>5, <1>7, <1>10
  <2>2. \A j \in TxKey : tx[j] # None => T[j] # None /\ T[j].multisig = tx[j].multisig
    BY <1>1, <1>8, <1>9
  <2>3. QED
    BY <1>1, <1>2, <2>1, <2>2 DEF Evolves
<1>12. TxVersions \subseteq TxVersions'
  BY <1>2, <1>7, <1>11, TxVersionsStay DEF IInv
<1>13. HistoryInv'
  BY <1>2, <1>4, <1>5, <1>7 DEF IInv, ChainInv, HistoryInv
<1>14. ASSUME NEW j \in TxKey, T[j] # None PROVE <<j, T[j]>> \in TxVersions'
  <2>1. CASE j # k
    BY <1>9, <1>12, <1>14, <2>1 DEF IInv, ChainInv
  <2>2. CASE j = k
    <3>1. PICK u : u = tx[k]
      OBVIOUS
    <3>2. <<k, u>> \in TxVersions'
      BY <1>1, <1>12, <3>1 DEF IInv, ChainInv
    <3>3. IsReading(k, u)'
      BY <3>2 DEF TxVersions
    <3>4. IsReading(k, t)'
      BY <1>1, <1>8, <3>1, <3>3 DEF IsReading, SignedByItself, SignersOf
    <3>5. QED
      BY <1>8, <1>9, <2>2, <3>4 DEF TxVersions
  <2>3. QED
    BY <2>1, <2>2
<1>15. ChainInv'
  BY <1>2, <1>13, <1>14 DEF ChainInv
<1>16. approved' \subseteq TxKey \X Owner
  BY <1>1 DEF IInv, TypeInv
<1>17. \A n \in Address : account[n] = None => A[n] = None
  BY <1>4, <1>7
<1>18. QED
  BY <1>1, <1>7, <1>9, <1>11, <1>15, <1>16, <1>17

-----------------------------------------------------------------------------
(* Steps of the chain.                                                     *)

LEMMA ApproveStep ==
  ASSUME IInv, NEW k \in TxKey, NEW m \in Address, NEW o \in Owner,
         ApproveTransaction(k, m, o), UNCHANGED <<subscribed, page, call, history>>
  PROVE  IInv'
<1>1. PICK T \in [TxKey -> Tx \cup {None}] :
        Become(account, T) /\ Evolves /\ ChainInv' /\ approved' \subseteq TxKey \X Owner
  BY ApproveChanges
<1>2. account \in [Address -> Account \cup {None}]
  BY DEF IInv, TypeInv
<1>3. QED
  BY <1>1, <1>2, OthersStep

LEMMA CreateStep ==
  ASSUME IInv, NEW k \in TxKey, NEW m \in Address, NEW o \in Owner,
         NEW change \in Change, CreateTransaction(k, m, o, change),
         UNCHANGED <<subscribed, page, call, history>>
  PROVE  IInv'
<1>1. PICK T \in [TxKey -> Tx \cup {None}] :
        Become(account, T) /\ Evolves /\ ChainInv' /\ approved' \subseteq TxKey \X Owner
  BY CreateChanges
<1>2. account \in [Address -> Account \cup {None}]
  BY DEF IInv, TypeInv
<1>3. QED
  BY <1>1, <1>2, OthersStep

LEMMA ExecuteStep ==
  ASSUME IInv, NEW k \in TxKey, NEW m \in Address,
         ExecuteTransaction(k, m), UNCHANGED <<subscribed, page, call, history>>
  PROVE  IInv'
<1>1. PICK A \in [Address -> Account \cup {None}], T \in [TxKey -> Tx \cup {None}] :
        /\ Become(A, T) /\ Evolves /\ ChainInv'
        /\ \A n \in Address : account[n] = None => A[n] = None
        /\ approved' \subseteq TxKey \X Owner
  BY ExecuteChanges
<1>2. QED
  BY <1>1, OthersStep

LEMMA ElsewhereStep == IInv /\ Elsewhere => IInv'
<1> SUFFICES ASSUME IInv, Elsewhere PROVE IInv'
  OBVIOUS
<1>1. UNCHANGED <<subscribed, page, call, history>>
  BY DEF Elsewhere
<1>2. CASE \E k \in TxKey, m \in Address, o \in Owner \ {Wallet}, change \in Change :
             CreateTransaction(k, m, o, change)
  BY <1>1, <1>2, CreateStep
<1>3. CASE \E k \in TxKey, m \in Address, o \in Owner \ {Wallet} :
             ApproveTransaction(k, m, o)
  BY <1>1, <1>3, ApproveStep
<1>4. CASE \E k \in TxKey, m \in Address : ExecuteTransaction(k, m)
  BY <1>1, <1>4, ExecuteStep
<1>5. QED
  BY <1>2, <1>3, <1>4 DEF Elsewhere

-----------------------------------------------------------------------------
(* Steps that leave the chain alone.                                       *)

LEMMA ChainUnchanged ==
  ASSUME IInv, UNCHANGED chain
  PROVE  /\ Versions' = Versions /\ TxVersions' = TxVersions
         /\ ChainInv'
         /\ \A s : Held(s)' = Held(s)
<1>1. Versions' = Versions
  BY DEF Versions, chain
<1>2. TxVersions' = TxVersions
  BY DEF TxVersions, IsReading, SignedByItself, SignersOf, chain
<1>3. ChainInv'
  BY <1>2 DEF IInv, ChainInv, HistoryInv, chain
<1>4. \A s : Held(s)' = Held(s)
  BY DEF Held, chain
<1>5. QED
  BY <1>1, <1>2, <1>3, <1>4

LEMMA CallsUnchanged ==
  ASSUME IInv, UNCHANGED <<chain, call>>
  PROVE  CallsInv'
BY DEF IInv, CallsInv, Live, chain, IdleCall, DoneCall

LEMMA ShowStep ==
  ASSUME IInv, UNCHANGED chain,
         NEW a \in Account \cup {Undefined, None}, Found(a) => a \in Versions,
         NEW list \in List \cup {None},
         list # None => \A k \in DOMAIN list : <<k, list[k]>> \in TxVersions,
         Show(a, list)
  PROVE  /\ multisigAccount' = a /\ transactions' = list
         /\ txAccount' \in List
         /\ \A k \in DOMAIN txAccount \cap DOMAIN txAccount' :
              txAccount'[k] = txAccount[k]
         /\ PageInv'
         /\ subscribed' \in [Subject -> {"no", "asked", "active"}]
         /\ \A s \in Subject : subscribed[s] = "active" => subscribed'[s] = "active"
<1> DEFINE K == IF Found(a) /\ list # None THEN DOMAIN list ELSE {}
<1>1. /\ multisigAccount' = a /\ transactions' = list
      /\ txAccount' = [k \in K |-> IF k \in DOMAIN txAccount THEN txAccount[k] ELSE list[k]]
      /\ subscribed' = [s \in Subject |->
           IF s \in DOMAIN txAccount' /\ subscribed[s] = "no" THEN "asked"
           ELSE subscribed[s]]
  BY DEF Show, Mounted, Subscribe
<1>2. txAccount \in List /\ \A k \in DOMAIN txAccount : <<k, txAccount[k]>> \in TxVersions
  BY DEF IInv, TypeInv, PageInv
<1>3. K \in SUBSET TxKey /\ K # {} => Found(a)
  BY ListType
<1>4. \A k \in K : <<k, txAccount'[k]>> \in TxVersions
  BY <1>1, <1>2
<1>5. K \in SUBSET TxKey
  BY ListType
<1> HIDE DEF K
<1>6. DOMAIN txAccount' = K
  BY <1>1
<1>7. \A k \in K : txAccount'[k] \in Tx
  BY <1>4 DEF TxVersions
<1>8. txAccount' \in List
  <2>1. txAccount' \in [K -> Tx]
    BY <1>1, <1>6, <1>7
  <2>2. QED
    BY <1>5, <2>1 DEF List
<1>9. PageInv'
  BY <1>1, <1>3, <1>4, <1>5, <1>6, ChainUnchanged DEF PageInv, Found
<1>10. \A k \in DOMAIN txAccount \cap DOMAIN txAccount' : txAccount'[k] = txAccount[k]
  BY <1>1, <1>6
<1>11. /\ subscribed' \in [Subject -> {"no", "asked", "active"}]
       /\ \A s \in Subject : subscribed[s] = "active" => subscribed'[s] = "active"
  BY <1>1 DEF IInv, TypeInv
<1>12. QED
  BY <1>1, <1>8, <1>9, <1>10, <1>11

LEMMA AnswerRequests ==
  ASSUME TypeInv, NEW n \in DOMAIN request, NEW what, Answer(n, what)
  PROVE  /\ request' \in Seq(Request)
         /\ DOMAIN request' = DOMAIN request
         /\ request[n].what = what /\ request'[n].may = {} /\ request[n].may # {}
         /\ \A i \in DOMAIN request :
              /\ request'[i].what = request[i].what
              /\ request'[i].multisig = request[i].multisig
              /\ i # n => request'[i].may = request[i].may
<1>1. PICK r : r = [request[n] EXCEPT !.may = {}]
  OBVIOUS
<1>2. /\ request' = [request EXCEPT ![n] = r]
      /\ request[n].what = what /\ request[n].may # {}
  BY <1>1 DEF Answer, Answered
<1>3. request[n] \in Request /\ n \in 1 .. Len(request)
  BY ElementOfSeq, LenProperties DEF TypeInv
<1>4. /\ r \in Request /\ r.may = {} /\ r.what = request[n].what
      /\ r.multisig = request[n].multisig
  BY <1>1, <1>3 DEF Request
<1>5. request' \in Seq(Request)
  BY <1>2, <1>3, <1>4, ExceptSeq DEF TypeInv
<1>6. QED
  BY <1>2, <1>4, <1>5

LEMMA NetAfterAnswer ==
  ASSUME IInv, NEW n \in DOMAIN request, NEW what, Answer(n, what)
  PROVE  NetInv'
<1>1. UNCHANGED <<chain, events>>
  BY DEF Answer
<1>2. Versions' = Versions /\ TxVersions' = TxVersions
  BY <1>1, ChainUnchanged
<1>3. \A i \in DOMAIN request : i \in DOMAIN request' /\ request'[i].what = request[i].what
        /\ request'[i].may \subseteq request[i].may
  BY AnswerRequests DEF IInv
<1>4. DOMAIN request' = DOMAIN request
  BY AnswerRequests DEF IInv
<1>5. QED
  BY <1>1, <1>2, <1>3, <1>4 DEF IInv, NetInv

LEMMA ToldStays ==
  ASSUME IInv, UNCHANGED <<chain, told, multisig, transactions>>,
         excused' = {} => excused = {},
         DOMAIN request' = DOMAIN request,
         \A i \in DOMAIN request :
           /\ request'[i].what = request[i].what
           /\ request'[i].multisig = request[i].multisig
           /\ LastList(i) => request'[i].may = request[i].may
  PROVE  ToldInv'
<1>1. \A i \in DOMAIN request : LastList(i) => LastList(i)'
  BY DEF LastList
<1>2. \A l : HasTold(l)' <=> HasTold(l)
  BY DEF HasTold, chain
<1>3. HasTold(transactions)' <=> HasTold(transactions)
  BY DEF HasTold, chain
<1>4. (\A k \in told : tx[k] # None)'
  BY DEF IInv, ToldInv, chain
<1>5. ASSUME excused = {}
      PROVE  \E i \in DOMAIN request' :
               /\ LastList(i)'
               /\ request'[i].multisig = multisig'
               /\ \A l \in request'[i].may : HasTold(l)'
               /\ Answered(i)' /\ transactions' # None => HasTold(transactions)'
  <2>1. PICK i \in DOMAIN request :
          /\ LastList(i)
          /\ request[i].multisig = multisig
          /\ \A l \in request[i].may : HasTold(l)
          /\ Answered(i) /\ transactions # None => HasTold(transactions)
    BY <1>5 DEF IInv, ToldInv
  <2>2. QED
    BY <1>1, <1>2, <1>3, <2>1 DEF Answered
<1>6. QED
  BY <1>4, <1>5 DEF ToldInv

\* What the page heard of before is kept in its items.
LEMMA HeardAfterShow ==
  ASSUME IInv, UNCHANGED <<chain, events>>, txAccount' \in List,
         \A k \in DOMAIN txAccount \cap DOMAIN txAccount' : txAccount'[k] = txAccount[k],
         \A s \in Subject : subscribed[s] = "active" => subscribed'[s] = "active",
         NEW s \in heard, s \in DOMAIN txAccount'
  PROVE  subscribed'[s] = "active" /\ (events'[s] = <<>> => Shown(s)' = Held(s)')
<1>1. s \in TxKey /\ s \notin Address /\ s \in Subject
  BY ListType, MultisigAssumption DEF Subject
<1>2. s \in DOMAIN txAccount
  BY <1>1 DEF IInv, TypeInv
<1>3. Shown(s)' = Shown(s)
  BY <1>1, <1>2 DEF Shown
<1>4. Held(s)' = Held(s)
  BY ChainUnchanged
<1>5. QED
  BY <1>1, <1>3, <1>4 DEF IInv, HeardInv

LEMMA AccountArrivesStep ==
  ASSUME IInv, NEW n \in DOMAIN request, AccountArrives(n)
  PROVE  IInv'
<1>1. /\ Answer(n, "account") /\ UNCHANGED excused
      /\ heard' = heard \cap DOMAIN txAccount'
  BY DEF AccountArrives
<1>2. PICK a \in request[n].may \cup {None} : Show(a, transactions)
  BY DEF AccountArrives
<1>3. UNCHANGED <<chain, multisig, forceRefresh, events, call, told>>
  BY <1>1 DEF Answer
<1>4. /\ request' \in Seq(Request) /\ DOMAIN request' = DOMAIN request
      /\ request[n].what = "account"
      /\ \A i \in DOMAIN request :
           /\ request'[i].what = request[i].what
           /\ request'[i].multisig = request[i].multisig
           /\ i # n => request'[i].may = request[i].may
  BY <1>1, AnswerRequests DEF IInv
<1>5. a \in Account \cup {None} /\ (a # None => a \in Versions)
  BY <1>2, <1>4, RequestType DEF IInv, NetInv
<1>6. /\ multisigAccount' = a /\ transactions' = transactions
      /\ txAccount' \in List
      /\ \A k \in DOMAIN txAccount \cap DOMAIN txAccount' : txAccount'[k] = txAccount[k]
      /\ PageInv'
      /\ subscribed' \in [Subject -> {"no", "asked", "active"}]
      /\ \A s \in Subject : subscribed[s] = "active" => subscribed'[s] = "active"
  <2>1. a \in Account \cup {Undefined, None} /\ (Found(a) => a \in Versions)
    BY <1>5 DEF Found
  <2>2. transactions \in List \cup {None}
    BY DEF IInv, TypeInv
  <2>3. transactions # None =>
          \A k \in DOMAIN transactions : <<k, transactions[k]>> \in TxVersions
    BY DEF IInv, PageInv
  <2>4. QED
    BY <1>2, <1>3, <2>1, <2>2, <2>3, ShowStep
<1>7. TypeInv'
  BY <1>1, <1>3, <1>4, <1>5, <1>6 DEF IInv, TypeInv, chain
<1>8. ChainInv' /\ NetInv' /\ CallsInv'
  BY <1>1, <1>3, NetAfterAnswer, CallsUnchanged, ChainUnchanged
<1>9. HeardInv'
  <2>1. ASSUME NEW s \in Subject, events'[s] # <<>>
        PROVE  subscribed'[s] = "active" /\ events'[s][Len(events'[s])] = Held(s)'
    BY <1>3, <1>6, <2>1, ChainUnchanged DEF IInv, HeardInv
  <2>2. ASSUME NEW s \in heard'
        PROVE  subscribed'[s] = "active" /\ (events'[s] = <<>> => Shown(s)' = Held(s)')
    BY <1>1, <1>3, <1>6, <2>2, HeardAfterShow
  <2>3. QED
    BY <2>1, <2>2 DEF HeardInv
<1>10. FlagInv'
  BY <1>1, <1>3 DEF IInv, FlagInv, UnderWay
<1>11. ToldInv'
  <2>1. \A i \in DOMAIN request : LastList(i) => request'[i].may = request[i].may
    BY <1>4 DEF LastList
  <2>2. QED
    BY <1>1, <1>3, <1>4, <1>6, <2>1, ToldStays
<1>12. QED
  BY <1>6, <1>7, <1>8, <1>9, <1>10, <1>11 DEF IInv

LEMMA ListArrivesStep ==
  ASSUME IInv, NEW n \in DOMAIN request, ListArrives(n)
  PROVE  IInv'
<1>1. /\ Answer(n, "list")
      /\ heard' = heard \cap (Address \cup DOMAIN txAccount')
      /\ excused' = IF AnsweredLater(n) THEN excused \cup {"reordered"} ELSE excused
  BY DEF ListArrives
<1>2. PICK list \in request[n].may : Show(multisigAccount, list)
  BY DEF ListArrives
<1>3. UNCHANGED <<chain, multisig, forceRefresh, events, call, told>>
  BY <1>1 DEF Answer
<1>4. /\ request' \in Seq(Request) /\ DOMAIN request' = DOMAIN request
      /\ request[n].what = "list" /\ request'[n].may = {}
      /\ \A i \in DOMAIN request :
           /\ request'[i].what = request[i].what
           /\ request'[i].multisig = request[i].multisig
           /\ i # n => request'[i].may = request[i].may
  BY <1>1, AnswerRequests DEF IInv
<1>5. list \in List /\ \A k \in DOMAIN list : <<k, list[k]>> \in TxVersions
  BY <1>2, <1>4, RequestType DEF IInv, NetInv
<1>6. /\ multisigAccount' = multisigAccount /\ transactions' = list
      /\ txAccount' \in List
      /\ \A k \in DOMAIN txAccount \cap DOMAIN txAccount' : txAccount'[k] = txAccount[k]
      /\ PageInv'
      /\ subscribed' \in [Subject -> {"no", "asked", "active"}]
      /\ \A s \in Subject : subscribed[s] = "active" => subscribed'[s] = "active"
  <2>1. /\ multisigAccount \in Account \cup {Undefined, None}
        /\ Found(multisigAccount) => multisigAccount \in Versions
    BY DEF IInv, TypeInv, PageInv
  <2>2. list \in List \cup {None}
    BY <1>5
  <2>3. QED
    BY <1>2, <1>3, <1>5, <2>1, <2>2, ShowStep
<1>7. TypeInv'
  BY <1>1, <1>3, <1>4, <1>5, <1>6 DEF IInv, TypeInv, chain
<1>8. ChainInv' /\ NetInv' /\ CallsInv'
  BY <1>1, <1>3, NetAfterAnswer, CallsUnchanged, ChainUnchanged
<1>9. HeardInv'
  <2>1. ASSUME NEW s \in Subject, events'[s] # <<>>
        PROVE  subscribed'[s] = "active" /\ events'[s][Len(events'[s])] = Held(s)'
    BY <1>3, <1>6, <2>1, ChainUnchanged DEF IInv, HeardInv
  <2>2. ASSUME NEW s \in heard'
        PROVE  subscribed'[s] = "active" /\ (events'[s] = <<>> => Shown(s)' = Held(s)')
    <3>1. CASE s \in DOMAIN txAccount'
      BY <1>1, <1>3, <1>6, <2>2, <3>1, HeardAfterShow
    <3>2. CASE s \in Address
      <4>1. Shown(s)' = Shown(s) /\ Held(s)' = Held(s) /\ s \in Subject /\ s \in heard
        BY <1>1, <1>3, <1>6, <2>2, <3>2, ChainUnchanged DEF Shown, Subject
      <4>2. QED
        BY <1>3, <1>6, <4>1 DEF IInv, HeardInv
    <3>3. QED
      BY <1>1, <2>2, <3>1, <3>2
  <2>3. QED
    BY <2>1, <2>2 DEF HeardInv
<1>10. FlagInv'
  BY <1>1, <1>3 DEF IInv, FlagInv, UnderWay
<1>11. ToldInv'
  <2>1. (\A k \in told : tx[k] # None)'
    BY <1>3 DEF IInv, ToldInv, chain
  <2>2. ASSUME excused' = {}
        PROVE  \E i \in DOMAIN request' :
                 /\ LastList(i)'
                 /\ request'[i].multisig = multisig'
                 /\ \A l \in request'[i].may : HasTold(l)'
                 /\ Answered(i)' /\ transactions' # None => HasTold(transactions)'
    <3>1. excused = {} /\ ~AnsweredLater(n)
      BY <1>1, <2>2
    <3>2. PICK i \in DOMAIN request :
            /\ LastList(i)
            /\ request[i].multisig = multisig
            /\ \A l \in request[i].may : HasTold(l)
            /\ Answered(i) /\ transactions # None => HasTold(transactions)
      BY <3>1 DEF IInv, ToldInv
    <3>3. LastList(i)' /\ request'[i].multisig = multisig'
      BY <1>3, <1>4, <3>2 DEF LastList
    <3>4. \A l : HasTold(l)' <=> HasTold(l)
      BY <1>3 DEF HasTold, chain
    <3>5. CASE i = n
      <4>1. HasTold(list)
        BY <1>2, <3>2, <3>5
      <4>2. HasTold(transactions)'
        BY <1>3, <1>6, <4>1 DEF HasTold, chain
      <4>3. QED
        BY <1>4, <3>3, <3>5, <4>2
    <3>6. CASE i # n
      <4>1. ~Answered(i)
        <5>1. i \in n + 1 .. Len(request) /\ request[i].what = "list"
          <6>1. /\ i \in 1 .. Len(request) /\ n \in 1 .. Len(request)
                /\ Len(request) \in Nat
            BY <3>2, LenProperties DEF IInv, TypeInv
          <6>2. n <= i
            BY <1>4, <3>2 DEF LastList
          <6>3. QED
            BY <3>2, <3>6, <6>1, <6>2 DEF LastList
        <5>2. QED
          BY <3>1, <5>1 DEF AnsweredLater
      <4>2. ~Answered(i)' /\ \A l \in request'[i].may : HasTold(l)'
        BY <1>4, <3>2, <3>4, <3>6, <4>1 DEF Answered
      <4>3. QED
        BY <1>4, <3>3, <4>2
    <3>7. QED
      BY <3>5, <3>6
  <2>3. QED
    BY <2>1, <2>2 DEF ToldInv
<1>12. QED
  BY <1>6, <1>7, <1>8, <1>9, <1>10, <1>11 DEF IInv

\* The steps that follow change no request, or only add one.
LEMMA NetUnchanged ==
  ASSUME IInv, UNCHANGED <<chain, request, events>>
  PROVE  NetInv'
BY ChainUnchanged DEF IInv, NetInv

LEMMA AccountChangedStep ==
  ASSUME IInv, NEW m \in Address, AccountChanged(m)
  PROVE  IInv'
<1>1. /\ events[m] # <<>> /\ Show(Head(events[m]), transactions)
      /\ events' = [events EXCEPT ![m] = Tail(events[m])]
      /\ heard' = {m} \cup (heard \cap DOMAIN txAccount')
      /\ UNCHANGED <<chain, request, multisig, forceRefresh, call, told, excused>>
  BY DEF AccountChanged
<1> DEFINE q == events[m]
<1>2. /\ q \in Seq(Account) /\ Head(q) \in Account /\ Tail(q) \in Seq(Account)
      /\ Len(q) \in Nat \ {0}
      /\ Len(Tail(q)) = Len(q) - 1
      /\ \A i \in 1 .. Len(Tail(q)) : Tail(q)[i] = q[i + 1]
      /\ Head(q) = q[1]
      /\ DOMAIN q = 1 .. Len(q) /\ DOMAIN Tail(q) = 1 .. Len(Tail(q))
  BY <1>1, HeadTailProperties, LenProperties, EmptySeq DEF IInv, TypeInv
<1>3. /\ m \in Subject /\ Held(m)' = Held(m)
      /\ subscribed[m] = "active" /\ q[Len(q)] = Held(m)
  BY <1>1, ChainUnchanged DEF IInv, HeardInv, Subject
<1>4. Head(q) \in Versions
  BY <1>2 DEF IInv, NetInv
<1>5. events'[m] = Tail(q) /\ \A s \in Subject : s # m => events'[s] = events[s]
  BY <1>1, <1>3 DEF IInv, TypeInv
<1> HIDE DEF q
<1>6. /\ multisigAccount' = Head(q) /\ transactions' = transactions
      /\ txAccount' \in List
      /\ \A k \in DOMAIN txAccount \cap DOMAIN txAccount' : txAccount'[k] = txAccount[k]
      /\ PageInv'
      /\ subscribed' \in [Subject -> {"no", "asked", "active"}]
      /\ \A s \in Subject : subscribed[s] = "active" => subscribed'[s] = "active"
  <2>1. Head(q) \in Account \cup {Undefined, None}
    BY <1>2
  <2>2. transactions \in List \cup {None}
    BY DEF IInv, TypeInv
  <2>3. transactions # None =>
          \A k \in DOMAIN transactions : <<k, transactions[k]>> \in TxVersions
    BY DEF IInv, PageInv
  <2>4. QED
    BY <1>1, <1>4, <2>1, <2>2, <2>3, ShowStep DEF q
<1>7. TypeInv'
  <2>1. /\ events' \in [Subject -> Seq(Account) \cup Seq(Tx)]
        /\ \A a \in Address : events'[a] \in Seq(Account)
        /\ \A k \in TxKey : events'[k] \in Seq(Tx)
    BY <1>1, <1>2, <1>3, <1>5, MultisigAssumption DEF IInv, TypeInv, Subject, q
  <2>2. QED
    BY <1>1, <1>2, <1>6, <2>1 DEF IInv, TypeInv, chain
<1>8. NetInv'
  <2>1. \A i \in DOMAIN Tail(q) : Tail(q)[i] \in Versions
    BY <1>2 DEF IInv, NetInv, q
  <2>2. Versions' = Versions /\ TxVersions' = TxVersions
    BY <1>1, ChainUnchanged
  <2>3. \A a \in Address : \A i \in DOMAIN events'[a] : events'[a][i] \in Versions'
    BY <1>5, <2>1, <2>2 DEF IInv, NetInv, Subject
  <2>4. \A k \in TxKey : \A i \in DOMAIN events'[k] : <<k, events'[k][i]>> \in TxVersions'
    BY <1>5, <2>2, MultisigAssumption DEF IInv, NetInv, Subject
  <2>5. QED
    BY <1>1, <2>2, <2>3, <2>4 DEF IInv, NetInv
<1>9. HeardInv'
  <2>1. ASSUME NEW s \in Subject, events'[s] # <<>>
        PROVE  subscribed'[s] = "active" /\ events'[s][Len(events'[s])] = Held(s)'
    <3>1. CASE s = m
      <4>1. Len(Tail(q)) # 0
        BY <1>2, <1>5, <2>1, <3>1, EmptySeq
      <4>2. Tail(q)[Len(Tail(q))] = q[Len(q)]
        BY <1>2, <4>1
      <4>3. QED
        BY <1>3, <1>5, <1>6, <3>1, <4>2
    <3>2. CASE s # m
      BY <1>1, <1>5, <1>6, <2>1, <3>2, ChainUnchanged DEF IInv, HeardInv
    <3>3. QED
      BY <3>1, <3>2
  <2>2. ASSUME NEW s \in heard'
        PROVE  subscribed'[s] = "active" /\ (events'[s] = <<>> => Shown(s)' = Held(s)')
    <3>1. CASE s = m
      <4>1. events'[m] = <<>> => Len(q) = 1
        BY <1>2, <1>5, EmptySeq
      <4>2. Shown(m)' = Head(q)
        BY <1>6 DEF Shown
      <4>3. QED
        BY <1>2, <1>3, <1>6, <3>1, <4>1, <4>2
    <3>2. CASE s # m
      <4>1. s \in TxKey /\ s \notin Address /\ s \in Subject /\ s \in heard
            /\ s \in DOMAIN txAccount'
        BY <1>1, <1>6, <2>2, <3>2, ListType, MultisigAssumption DEF Subject
      <4>2. s \in DOMAIN txAccount
        BY <4>1 DEF IInv, TypeInv
      <4>3. Shown(s)' = Shown(s) /\ Held(s)' = Held(s)
        BY <1>1, <1>6, <4>1, <4>2, ChainUnchanged DEF Shown
      <4>4. QED
        BY <1>5, <1>6, <3>2, <4>1, <4>3 DEF IInv, HeardInv
    <3>3. QED
      BY <3>1, <3>2
  <2>3. QED
    BY <2>1, <2>2 DEF HeardInv
<1>10. ChainInv' /\ CallsInv' /\ FlagInv'
  BY <1>1, ChainUnchanged, CallsUnchanged DEF IInv, FlagInv, UnderWay
<1>11. ToldInv'
  BY <1>1, <1>6, ToldStays
<1>12. QED
  BY <1>6, <1>7, <1>8, <1>9, <1>10, <1>11 DEF IInv

LEMMA TransactionChangedStep ==
  ASSUME IInv, NEW k \in TxKey, TransactionChanged(k)
  PROVE  IInv'
<1>1. /\ events[k] # <<>>
      /\ events' = [events EXCEPT ![k] = Tail(events[k])]
      /\ UNCHANGED <<chain, request, subscribed, multisig, multisigAccount, transactions,
                     forceRefresh, call, told, excused>>
      /\ IF k \in DOMAIN txAccount
         THEN /\ txAccount' = [txAccount EXCEPT ![k] = Head(events[k])]
              /\ heard' = heard \cup {k}
         ELSE UNCHANGED <<txAccount, heard>>
  BY DEF TransactionChanged
<1> DEFINE q == events[k]
<1>2. /\ q \in Seq(Tx) /\ Head(q) \in Tx /\ Tail(q) \in Seq(Tx)
      /\ Len(q) \in Nat \ {0}
      /\ Len(Tail(q)) = Len(q) - 1
      /\ \A i \in 1 .. Len(Tail(q)) : Tail(q)[i] = q[i + 1]
      /\ Head(q) = q[1]
      /\ DOMAIN q = 1 .. Len(q) /\ DOMAIN Tail(q) = 1 .. Len(Tail(q))
  BY <1>1, HeadTailProperties, LenProperties, EmptySeq DEF IInv, TypeInv
<1>3. /\ k \in Subject /\ k \notin Address /\ Held(k)' = Held(k)
      /\ subscribed[k] = "active" /\ q[Len(q)] = Held(k)
  BY <1>1, ChainUnchanged, MultisigAssumption DEF IInv, HeardInv, Subject
<1>4. <<k, Head(q)>> \in TxVersions
  BY <1>2 DEF IInv, NetInv
<1>5. events'[k] = Tail(q) /\ \A s \in Subject : s # k => events'[s] = events[s]
  BY <1>1, <1>3 DEF IInv, TypeInv
<1> HIDE DEF q
<1>6. /\ DOMAIN txAccount' = DOMAIN txAccount
      /\ \A j \in DOMAIN txAccount : txAccount'[j] = IF j = k THEN Head(q) ELSE txAccount[j]
      /\ heard' = IF k \in DOMAIN txAccount THEN heard \cup {k} ELSE heard
      /\ txAccount' \in List
  <2>1. /\ DOMAIN txAccount' = DOMAIN txAccount
        /\ \A j \in DOMAIN txAccount : txAccount'[j] = IF j = k THEN Head(q) ELSE txAccount[j]
        /\ heard' = IF k \in DOMAIN txAccount THEN heard \cup {k} ELSE heard
    BY <1>1 DEF q
  <2>2. DOMAIN txAccount \in SUBSET TxKey /\ \A j \in DOMAIN txAccount : txAccount[j] \in Tx
    BY ListType DEF IInv, TypeInv
  <2>3. txAccount' \in [DOMAIN txAccount -> Tx]
    <3>1. txAccount \in [DOMAIN txAccount -> Tx]
      BY ListType DEF IInv, TypeInv, IsList
    <3>2. QED
      BY <1>1, <1>2, <3>1 DEF q
  <2>4. QED
    BY <2>1, <2>2, <2>3 DEF List
<1>7. TypeInv'
  <2>1. /\ events' \in [Subject -> Seq(Account) \cup Seq(Tx)]
        /\ \A a \in Address : events'[a] \in Seq(Account)
        /\ \A j \in TxKey : events'[j] \in Seq(Tx)
    BY <1>1, <1>2, <1>3, <1>5, MultisigAssumption DEF IInv, TypeInv, Subject, q
  <2>2. heard' \subseteq Address \cup DOMAIN txAccount'
    BY <1>6 DEF IInv, TypeInv
  <2>3. QED
    BY <1>1, <1>6, <2>1, <2>2 DEF IInv, TypeInv, chain
<1>8. NetInv'
  <2>1. ASSUME NEW i \in DOMAIN Tail(q) PROVE <<k, Tail(q)[i]>> \in TxVersions
    <3>1. i + 1 \in DOMAIN q /\ Tail(q)[i] = q[i + 1]
      BY <1>2
    <3>2. <<k, q[i + 1]>> \in TxVersions
      BY <3>1 DEF IInv, NetInv, q
    <3>3. QED
      BY <3>1, <3>2
  <2>2. Versions' = Versions /\ TxVersions' = TxVersions
    BY <1>1, ChainUnchanged
  <2>3. \A a \in Address : \A i \in DOMAIN events'[a] : events'[a][i] \in Versions'
    BY <1>3, <1>5, <2>2 DEF IInv, NetInv, Subject
  <2>4. \A j \in TxKey : \A i \in DOMAIN events'[j] : <<j, events'[j][i]>> \in TxVersions'
    BY <1>5, <2>1, <2>2 DEF IInv, NetInv, Subject
  <2>5. QED
    BY <1>1, <2>2, <2>3, <2>4 DEF IInv, NetInv
<1>9. PageInv'
  BY <1>1, <1>4, <1>6, ChainUnchanged DEF IInv, PageInv, Found
<1>10. HeardInv'
  <2>1. ASSUME NEW s \in Subject, events'[s] # <<>>
        PROVE  subscribed'[s] = "active" /\ events'[s][Len(events'[s])] = Held(s)'
    <3>1. CASE s = k
      <4>1. Len(Tail(q)) # 0
        BY <1>2, <1>5, <2>1, <3>1, EmptySeq
      <4>2. Tail(q)[Len(Tail(q))] = q[Len(q)]
        BY <1>2, <4>1
      <4>3. QED
        BY <1>1, <1>3, <1>5, <3>1, <4>2
    <3>2. CASE s # k
      BY <1>1, <1>5, <2>1, <3>2, ChainUnchanged DEF IInv, HeardInv
    <3>3. QED
      BY <3>1, <3>2
  <2>2. ASSUME NEW s \in heard'
        PROVE  subscribed'[s] = "active" /\ (events'[s] = <<>> => Shown(s)' = Held(s)')
    <3>1. s \in Subject
      BY <1>6, <1>7, <2>2, ListType DEF TypeInv, Subject
    <3>2. CASE s = k
      <4>1. events'[k] = <<>> => Len(q) = 1
        BY <1>2, <1>5, EmptySeq
      <4>2. Shown(k)' = Head(q)
        BY <1>3, <1>6, <1>7, <2>2, <3>2 DEF Shown, TypeInv
      <4>3. QED
        BY <1>1, <1>2, <1>3, <3>2, <4>1, <4>2
    <3>3. CASE s # k
      <4>1. s \in heard
        BY <1>6, <2>2, <3>3
      <4>2. Shown(s)' = Shown(s) /\ Held(s)' = Held(s)
        BY <1>1, <1>6, <3>3, <4>1, ChainUnchanged DEF Shown, IInv, TypeInv
      <4>3. QED
        BY <1>1, <1>5, <3>1, <3>3, <4>1, <4>2 DEF IInv, HeardInv
    <3>4. QED
      BY <3>2, <3>3
  <2>3. QED
    BY <2>1, <2>2 DEF HeardInv
<1>11. ChainInv' /\ CallsInv' /\ FlagInv'
  BY <1>1, ChainUnchanged, CallsUnchanged DEF IInv, FlagInv, UnderWay
<1>12. ToldInv'
  BY <1>1, ToldStays
<1>13. QED
  BY <1>7, <1>8, <1>9, <1>10, <1>11, <1>12 DEF IInv

\* Steps that change neither the chain nor what the page shows.
LEMMA PageUnchanged ==
  ASSUME IInv, UNCHANGED <<chain, multisigAccount, transactions, txAccount>>
  PROVE  ChainInv' /\ PageInv'
BY ChainUnchanged DEF IInv, PageInv, Found

LEMMA HeardUnchanged ==
  ASSUME IInv, UNCHANGED <<chain, events, multisigAccount, txAccount, heard>>,
         \A s \in Subject : subscribed[s] = "active" => subscribed'[s] = "active"
  PROVE  HeardInv'
<1>1. \A s : Shown(s)' = Shown(s) /\ Held(s)' = Held(s)
  BY ChainUnchanged DEF Shown
<1>2. heard \subseteq Subject
  BY ListType DEF IInv, TypeInv, Subject
<1>3. QED
  BY <1>1, <1>2 DEF IInv, HeardInv

LEMMA SubscriptionStartsStep ==
  ASSUME IInv, NEW s \in Subject, SubscriptionStarts(s)
  PROVE  IInv'
<1>1. /\ subscribed' = [subscribed EXCEPT ![s] = "active"]
      /\ UNCHANGED <<chain, request, events, page, call, history>>
  BY DEF SubscriptionStarts
<1>2. TypeInv'
  BY <1>1 DEF IInv, TypeInv, chain, page, history
<1>3. \A x \in Subject : subscribed[x] = "active" => subscribed'[x] = "active"
  BY <1>1 DEF IInv, TypeInv
<1>4. UNCHANGED <<multisig, multisigAccount, transactions, forceRefresh, txAccount,
                  told, heard, excused>>
  BY <1>1 DEF page, history
<1>5. NetInv' /\ HeardInv' /\ ChainInv' /\ PageInv' /\ CallsInv'
  BY <1>1, <1>3, <1>4, NetUnchanged, HeardUnchanged, PageUnchanged, CallsUnchanged
<1>6. FlagInv'
  BY <1>1, <1>4 DEF IInv, FlagInv, UnderWay
<1>7. ToldInv'
  BY <1>1, <1>4, ToldStays
<1>8. QED
  BY <1>2, <1>5, <1>6, <1>7 DEF IInv

-----------------------------------------------------------------------------
(* Steps that request.                                                     *)

LEMMA AskType ==
  ASSUME IInv, NEW m \in Address, NEW what \in {"account", "list"}
  PROVE  /\ Ask(m, what) \in Request
         /\ Ask(m, what).what = what /\ Ask(m, what).multisig = m
         /\ Ask(m, what).may = {Content(what, m, account, tx)}
<1>1. /\ account \in [Address -> Account \cup {None}]
      /\ tx \in [TxKey -> Tx \cup {None}]
  BY DEF IInv, TypeInv
<1>2. what = "account" => Content(what, m, account, tx) \in Account \cup {None}
  BY <1>1 DEF Content
<1>3. what = "list" => Content(what, m, account, tx) \in List
  BY <1>1, ListedType DEF Content
<1>4. QED
  BY <1>2, <1>3 DEF Ask, Request

\* What is requested now may be answered with what the chain holds.
LEMMA AskedIsVersion ==
  ASSUME IInv, NEW m \in Address
  PROVE  /\ Ask(m, "account").may \ {None} \subseteq Versions
         /\ \A l \in Ask(m, "list").may : \A k \in DOMAIN l : <<k, l[k]>> \in TxVersions
<1>1. account[m] # None => account[m] \in Versions
  <2>1. account[m] # None => account[m] \in Account
    BY DEF IInv, TypeInv
  <2>2. QED
    BY <2>1 DEF IInv, ChainInv, HistoryInv, Versions, Account
<1>2. \A k \in DOMAIN Listed(tx, m) : <<k, Listed(tx, m)[k]>> \in TxVersions
  <2>1. tx \in [TxKey -> Tx \cup {None}]
    BY DEF IInv, TypeInv
  <2>2. ASSUME NEW k \in DOMAIN Listed(tx, m)
        PROVE  k \in TxKey /\ tx[k] # None /\ Listed(tx, m)[k] = tx[k]
    BY <2>1, <2>2, ListedType
  <2>3. QED
    BY <2>2 DEF IInv, ChainInv
<1>3. QED
  BY <1>1, <1>2, AskType DEF Content

\* A new list has all transactions reported.
LEMMA NewList ==
  ASSUME IInv, UNCHANGED chain, multisig' \in Address,
         told' \subseteq TxKey, \A k \in told' : tx[k] # None,
         NEW n \in DOMAIN request', \A i \in DOMAIN request' : i <= n,
         request'[n] = Ask(multisig', "list")
  PROVE  ToldInv'
<1>1. /\ request'[n].what = "list" /\ request'[n].multisig = multisig'
      /\ request'[n].may = {Listed(tx, multisig')}
  BY AskType DEF Content
<1>2. LastList(n)'
  BY <1>1 DEF LastList
<1>3. tx \in [TxKey -> Tx \cup {None}]
  BY DEF IInv, TypeInv
<1>4. \A l \in request'[n].may : HasTold(l)'
  BY <1>1, <1>3, ListedType DEF HasTold, chain
<1>5. ~Answered(n)'
  BY <1>1 DEF Answered
<1>6. QED
  BY <1>1, <1>2, <1>4, <1>5 DEF ToldInv, chain

\* Where a request is added at the end.
LEMMA AppendRequest ==
  ASSUME IInv, NEW m \in Address, NEW what \in {"account", "list"}
  PROVE  LET q == Append(request, Ask(m, what))
         IN /\ q \in Seq(Request)
            /\ DOMAIN q = 1 .. Len(request) + 1
            /\ Len(request) \in Nat /\ DOMAIN request = 1 .. Len(request)
            /\ \A i \in 1 .. Len(request) : q[i] = request[i]
            /\ q[Len(request) + 1] = Ask(m, what)
BY AskType, AppendProperties, LenProperties DEF IInv, TypeInv

LEMMA VisitRequests ==
  ASSUME IInv, NEW m \in Address, Visit(m)
  PROVE  /\ request' \in Seq(Request)
         /\ DOMAIN request' = 1 .. Len(request) + 2
         /\ Len(request) \in Nat /\ DOMAIN request = 1 .. Len(request)
         /\ \A i \in 1 .. Len(request) : request'[i] = request[i]
         /\ request'[Len(request) + 1] = Ask(m, "account")
         /\ request'[Len(request) + 2] = Ask(m, "list")
<1> DEFINE two == <<Ask(m, "account"), Ask(m, "list")>>
<1>1. request' = request \o two /\ request \in Seq(Request)
  BY DEF Visit, IInv, TypeInv
<1>2. two \in Seq(Request) /\ Len(two) = 2
  BY AskType
<1>3. two[1] = Ask(m, "account") /\ two[2] = Ask(m, "list")
  OBVIOUS
<1> HIDE DEF two
<1>4. Len(request) \in Nat /\ DOMAIN request = 1 .. Len(request)
  BY <1>1, LenProperties
<1>5. /\ request' \in Seq(Request) /\ Len(request') = Len(request) + 2
      /\ \A i \in 1 .. Len(request) + 2 :
           request'[i] = IF i <= Len(request) THEN request[i] ELSE two[i - Len(request)]
  <2>1. /\ request \o two \in Seq(Request)
        /\ Len(request \o two) = Len(request) + Len(two)
        /\ \A i \in 1 .. Len(request) + Len(two) :
             (request \o two)[i] = IF i <= Len(request) THEN request[i]
                                   ELSE two[i - Len(request)]
    BY <1>1, <1>2, ConcatProperties, Zenon
  <2>2. QED
    BY <1>1, <1>2, <2>1
<1>6. DOMAIN request' = 1 .. Len(request) + 2
  BY <1>5, LenProperties
<1>7. /\ request'[Len(request) + 1] = two[1]
      /\ request'[Len(request) + 2] = two[2]
  BY <1>4, <1>5
<1>8. QED
  BY <1>3, <1>4, <1>5, <1>6, <1>7

\* Every request added is answered with versions.
LEMMA NetWithMore ==
  ASSUME IInv, UNCHANGED <<chain, events>>, NEW m \in Address,
         \A i \in DOMAIN request' :
           \/ i \in DOMAIN request /\ request'[i] = request[i]
           \/ request'[i] = Ask(m, "account")
           \/ request'[i] = Ask(m, "list")
  PROVE  NetInv'
<1>1. Versions' = Versions /\ TxVersions' = TxVersions
  BY ChainUnchanged
<1>2. Ask(m, "account").what = "account" /\ Ask(m, "list").what = "list"
  BY DEF Ask
<1>3. ASSUME NEW i \in DOMAIN request', request'[i].what = "account"
      PROVE  request'[i].may \ {None} \subseteq Versions
  BY <1>2, <1>3, AskedIsVersion DEF IInv, NetInv
<1>4. ASSUME NEW i \in DOMAIN request', request'[i].what = "list",
             NEW l \in request'[i].may, NEW k \in DOMAIN l
      PROVE  <<k, l[k]>> \in TxVersions
  BY <1>2, <1>4, AskedIsVersion DEF IInv, NetInv
<1>5. QED
  BY <1>1, <1>3, <1>4 DEF IInv, NetInv

LEMMA VisitStep ==
  ASSUME IInv, NEW m \in Address, Visit(m),
         UNCHANGED <<chain, events, multisigAccount, transactions, forceRefresh,
                     txAccount, history>>,
         call' \in [Call -> CallState], CallsInv', FlagInv'
  PROVE  IInv'
<1>1. /\ request' \in Seq(Request)
      /\ DOMAIN request' = 1 .. Len(request) + 2
      /\ Len(request) \in Nat /\ DOMAIN request = 1 .. Len(request)
      /\ \A i \in 1 .. Len(request) : request'[i] = request[i]
      /\ request'[Len(request) + 1] = Ask(m, "account")
      /\ request'[Len(request) + 2] = Ask(m, "list")
  BY VisitRequests
<1>2. /\ multisig' = m
      /\ subscribed' = [s \in Subject |-> IF s \in {m} /\ subscribed[s] = "no" THEN "asked"
                                          ELSE subscribed[s]]
  BY DEF Visit, Subscribe
<1>3. subscribed' \in [Subject -> {"no", "asked", "active"}]
  BY <1>2 DEF IInv, TypeInv
<1>4. UNCHANGED <<told, heard, excused>>
  BY DEF history
<1>5. TypeInv'
  BY <1>1, <1>2, <1>3, <1>4 DEF IInv, TypeInv, chain
<1>6. NetInv'
  BY <1>1, NetWithMore
<1>7. HeardInv'
  BY <1>2, <1>4, HeardUnchanged
<1>8. ToldInv'
  <2>1. told' \subseteq TxKey /\ \A k \in told' : tx[k] # None
    BY <1>4 DEF IInv, TypeInv, ToldInv
  <2>2. multisig' \in Address /\ request'[Len(request) + 2] = Ask(multisig', "list")
    BY <1>1, <1>2
  <2>3. /\ Len(request) + 2 \in DOMAIN request'
        /\ \A i \in DOMAIN request' : i <= Len(request) + 2
    BY <1>1
  <2>4. QED
    BY <2>1, <2>2, <2>3, NewList
<1>9. ChainInv' /\ PageInv'
  BY PageUnchanged
<1>10. QED
  BY <1>5, <1>6, <1>7, <1>8, <1>9 DEF IInv

LEMMA NavigateStep ==
  ASSUME IInv, NEW m \in Address, Navigate(m)
  PROVE  IInv'
<1>1. /\ Visit(m)
      /\ UNCHANGED <<chain, events, multisigAccount, transactions, forceRefresh,
                     txAccount, call, history>>
  BY DEF Navigate
<1>2. call' \in [Call -> CallState] /\ CallsInv' /\ FlagInv'
  BY <1>1, CallsUnchanged DEF IInv, TypeInv, FlagInv, UnderWay, history
<1>3. QED
  BY <1>1, <1>2, VisitStep

-----------------------------------------------------------------------------
(* Steps of the dialogs' calls.                                            *)

LEMMA OneCallChanges ==
  ASSUME IInv, NEW c \in Call, NEW x \in CallState, call' = [call EXCEPT ![c] = x]
  PROVE  /\ call' \in [Call -> CallState]
         /\ call'[c] = x
         /\ \A d \in Call : d # c => call'[d] = call[d]
BY DEF IInv, TypeInv

LEMMA CallType ==
  ASSUME IInv, NEW c \in Call, Live(c)
  PROVE  /\ call[c] \in Proposal \cup Creation
         /\ call[c].kind = "propose" => call[c] \in Proposal
         /\ call[c].kind = "create" => call[c] \in Creation
         /\ call[c].kind \in {"propose", "create"}
<1>1. call[c] \in Proposal \cup Creation
  BY DEF IInv, TypeInv, CallState, Live
<1>2. QED
  BY <1>1 DEF Proposal, Creation

\* A call at a stage is none that is idle or done.
LEMMA StageIsLive ==
  ASSUME NEW c \in Call, call[c].pc \in {"sent", "landed", "late"}
  PROVE  Live(c)
BY DEF Live, IdleCall, DoneCall

LEMMA BeginStep ==
  ASSUME IInv, NEW c \in Call, NEW r \in Proposal \cup Creation, Begin(c, r),
         r.pc = "sent",
         r.kind = "propose" => r.flag = ~forceRefresh,
         r.kind = "create" =>
           /\ account[r.key] = None
           /\ r.account.of = r.key /\ r.account.seqno = 0
           /\ r.account.past = <<r.account.owners>>,
         excused' \subseteq {"overlap", "reordered"}, excused \subseteq excused',
         r.kind = "propose" /\ ProposalUnderWay => excused' # {}
  PROVE  IInv'
<1>1. /\ call[c] = IdleCall
      /\ \A d \in 1 .. c - 1 :
           /\ call[d] # IdleCall
           /\ call[d] # DoneCall => call[d].key # r.key
      /\ call' = [call EXCEPT ![c] = r]
      /\ UNCHANGED <<chain, net, page, told, heard>>
  BY DEF Begin
<1>2. /\ r \in CallState /\ r # IdleCall /\ r # DoneCall
      /\ r.kind \in {"propose", "create"}
  BY DEF CallState, IdleCall, DoneCall, Proposal, Creation
<1>3. /\ call' \in [Call -> CallState] /\ call'[c] = r
      /\ \A d \in Call : d # c => call'[d] = call[d]
  BY <1>1, <1>2, OneCallChanges
<1>4. /\ UNCHANGED <<chain, request, subscribed, events>>
      /\ UNCHANGED <<multisig, multisigAccount, transactions, forceRefresh, txAccount,
                     told, heard>>
  BY <1>1 DEF net, page
<1>5. TypeInv'
  BY <1>3, <1>4 DEF IInv, TypeInv, chain
<1>6. ChainInv' /\ PageInv' /\ NetInv' /\ HeardInv'
  BY <1>4, PageUnchanged, NetUnchanged, HeardUnchanged
<1>7. \A d \in Call : d # c => (Live(d)' <=> Live(d))
  BY <1>3 DEF Live, IdleCall, DoneCall
<1>8. \A d \in Call : d > c => call[d] = IdleCall
  BY <1>1 DEF IInv, CallsInv
<1>9. \A d \in Call : d # c /\ Live(d) => call[d].key # r.key
  BY <1>1, <1>8 DEF Live, Call
<1>10. CallsInv'
  <2>1. \A d \in Call : call'[d].pc = "landed" /\ call'[d].kind = "propose" =>
          tx[call'[d].key] # None
    BY <1>3 DEF IInv, CallsInv
  <2>2. \A d \in Call : call'[d].pc \in {"sent", "late"} /\ call'[d].kind = "create" =>
          account[call'[d].key] = None
    BY <1>3 DEF IInv, CallsInv
  <2>3. \A d \in Call : Live(d)' /\ call'[d].kind = "create" =>
          /\ call'[d].account.of = call'[d].key
          /\ call'[d].account.seqno = 0
          /\ call'[d].account.past = <<call'[d].account.owners>>
    BY <1>3, <1>7 DEF IInv, CallsInv
  <2>4. \A d, e \in Call : e < d /\ call'[d] # IdleCall => call'[e] # IdleCall
    BY <1>1, <1>2, <1>3 DEF IInv, CallsInv, Call
  <2>5. \A d, e \in Call : d # e /\ Live(d)' /\ Live(e)' => call'[d].key # call'[e].key
    BY <1>3, <1>7, <1>9 DEF IInv, CallsInv
  <2>6. QED
    BY <1>4, <2>1, <2>2, <2>3, <2>4, <2>5 DEF CallsInv, chain, IdleCall
<1>11. FlagInv'
  <2> SUFFICES ASSUME excused' = {}
               PROVE  /\ \A d \in Call : UnderWay(d)' => call'[d].flag # forceRefresh
                      /\ \A d, e \in Call : UnderWay(d)' /\ UnderWay(e)' => d = e
    BY <1>4 DEF FlagInv
  <2>1. \A d \in Call : d # c => (UnderWay(d)' <=> UnderWay(d))
    BY <1>3 DEF UnderWay
  <2>2. UnderWay(c)' => \A d \in Call : ~UnderWay(d)
    BY <1>3 DEF UnderWay, ProposalUnderWay
  <2>3. UnderWay(c)' => call'[c].flag # forceRefresh
    BY <1>3 DEF UnderWay, IInv, TypeInv
  <2>4. QED
    BY <1>3, <2>1, <2>2, <2>3 DEF IInv, FlagInv
<1>12. ToldInv'
  BY <1>4, ToldStays
<1>13. QED
  BY <1>5, <1>6, <1>10, <1>11, <1>12 DEF IInv

LEMMA ProposeStep ==
  ASSUME IInv, NEW c \in Call, NEW k \in TxKey, NEW change \in Change,
         Propose(c, k, change)
  PROVE  IInv'
<1> DEFINE r == [pc |-> "sent", kind |-> "propose", key |-> k, multisig |-> multisig,
                 change |-> change, flag |-> ~forceRefresh]
<1>1. /\ Begin(c, r)
      /\ excused' = IF ProposalUnderWay THEN excused \cup {"overlap"} ELSE excused
  BY DEF Propose
<1>2. r \in Proposal
  <2>1. multisig \in Address /\ (~forceRefresh) \in BOOLEAN
    BY DEF IInv, TypeInv
  <2>2. QED
    BY <2>1 DEF Proposal
<1>3. r.pc = "sent" /\ r.kind = "propose" /\ r.flag = ~forceRefresh
  OBVIOUS
<1> HIDE DEF r
<1>4. /\ excused' \subseteq {"overlap", "reordered"} /\ excused \subseteq excused'
      /\ ProposalUnderWay => excused' # {}
  BY <1>1 DEF IInv, TypeInv
<1>5. QED
  BY <1>1, <1>2, <1>3, <1>4, BeginStep

LEMMA CreateMultisigStep ==
  ASSUME IInv, NEW c \in Call, NEW m \in Address, NEW new \in Entered,
         CreateMultisig(c, m, new)
  PROVE  IInv'
<1> DEFINE n == Len(new.owners)
           a == [of |-> m, owners |-> new.owners, seqno |-> 0,
                 threshold |-> new.threshold, past |-> <<new.owners>>,
                 size |-> MultisigSize(n)]
           r == [pc |-> "sent", kind |-> "create", key |-> m, account |-> a]
<1>1. account[m] = None /\ Begin(c, r) /\ UNCHANGED excused
  BY DEF CreateMultisig
<1>2. a \in Account
  <2>1. new.owners \in OwnerList /\ new.threshold \in Nat /\ n \in Nat
    BY MultisigAssumption, LenProperties
  <2>2. MultisigSize(n) \in Nat
    <3> HIDE DEF n
    <3>1. QED
      BY <2>1 DEF MultisigSize
  <2>3. <<new.owners>> \in Seq(OwnerList)
    BY <2>1
  <2> HIDE DEF n
  <2>4. QED
    BY <2>1, <2>2, <2>3 DEF Account
<1>3. a.of = m /\ a.seqno = 0 /\ a.past = <<a.owners>>
  OBVIOUS
<1> HIDE DEF a
<1>4. r \in Creation /\ r.pc = "sent" /\ r.kind = "create" /\ r.key = m /\ r.account = a
  BY <1>2 DEF Creation
<1> HIDE DEF r
<1>5. excused' \subseteq {"overlap", "reordered"} /\ excused \subseteq excused'
  BY <1>1 DEF IInv, TypeInv
<1>6. QED
  BY <1>1, <1>3, <1>4, <1>5, BeginStep

\* A call that goes on, or ends.
LEMMA CallsGoOn ==
  ASSUME IInv, NEW c \in Call, Live(c), NEW x \in CallState, call' = [call EXCEPT ![c] = x],
         \/ x = DoneCall
         \/ \E pc \in {"landed", "late"} : x = [call[c] EXCEPT !.pc = pc],
         \A m \in Address : m # call[c].key /\ account[m] = None => account'[m] = None,
         \A k \in TxKey : tx[k] # None => tx'[k] # None,
         x # DoneCall /\ x.pc = "landed" /\ x.kind = "propose" => tx'[x.key] # None,
         x # DoneCall /\ x.pc = "late" /\ x.kind = "create" => account'[x.key] = None
  PROVE  CallsInv'
<1>1. /\ call' \in [Call -> CallState] /\ call'[c] = x
      /\ \A d \in Call : d # c => call'[d] = call[d]
  BY OneCallChanges
<1>2. call[c] \in Proposal \cup Creation
  BY CallType
<1>3. /\ x # DoneCall => /\ x.kind = call[c].kind /\ x.key = call[c].key
                         /\ x.kind = "create" => x.account = call[c].account
                         /\ x.pc \in {"landed", "late"}
      /\ x # IdleCall
  BY <1>2 DEF Proposal, Creation, IdleCall, DoneCall
<1>4. \A d \in Call : Live(d)' => Live(d) /\ call'[d].key = call[d].key
                                    /\ call'[d].kind = call[d].kind
                                    /\ (call[d].kind = "create" =>
                                          call'[d].account = call[d].account)
  BY <1>1, <1>3 DEF Live, IdleCall, DoneCall
<1>5. ASSUME NEW d \in Call, call'[d].pc = "landed", call'[d].kind = "propose"
      PROVE  tx'[call'[d].key] # None
  <2>1. CASE d = c
    BY <1>1, <1>3, <1>5, <2>1 DEF DoneCall
  <2>2. CASE d # c
    <3>1. Live(d) /\ call[d].pc = "landed" /\ call[d].kind = "propose"
      BY <1>1, <1>5, <2>2, StageIsLive
    <3>2. call[d].key \in TxKey /\ tx[call[d].key] # None
      BY <3>1, CallType DEF IInv, CallsInv, Proposal
    <3>3. QED
      BY <1>1, <2>2, <3>2
  <2>3. QED
    BY <2>1, <2>2
<1>6. ASSUME NEW d \in Call, call'[d].pc \in {"sent", "late"}, call'[d].kind = "create"
      PROVE  account'[call'[d].key] = None
  <2>1. CASE d = c
    BY <1>1, <1>3, <1>6, <2>1 DEF DoneCall
  <2>2. CASE d # c
    <3>1. Live(d) /\ call[d].pc \in {"sent", "late"} /\ call[d].kind = "create"
      BY <1>1, <1>6, <2>2, StageIsLive
    <3>2. call[d].key \in Address /\ account[call[d].key] = None
      BY <3>1, CallType DEF IInv, CallsInv, Creation
    <3>3. call[d].key # call[c].key
      BY <2>2, <3>1 DEF IInv, CallsInv
    <3>4. QED
      BY <1>1, <2>2, <3>2, <3>3
  <2>3. QED
    BY <2>1, <2>2
<1>7. \A d \in Call : Live(d)' /\ call'[d].kind = "create" =>
        /\ call'[d].account.of = call'[d].key
        /\ call'[d].account.seqno = 0
        /\ call'[d].account.past = <<call'[d].account.owners>>
  BY <1>4 DEF IInv, CallsInv
<1>8. \A d, e \in Call : e < d /\ call'[d] # IdleCall => call'[e] # IdleCall
  BY <1>1, <1>3 DEF IInv, CallsInv, Live
<1>9. \A d, e \in Call : d # e /\ Live(d)' /\ Live(e)' => call'[d].key # call'[e].key
  BY <1>4 DEF IInv, CallsInv
<1>10. QED
  BY <1>5, <1>6, <1>7, <1>8, <1>9 DEF CallsInv, IdleCall

\* No more proposals are under way, and they have the flags they had.
LEMMA FlagsGoOn ==
  ASSUME IInv, UNCHANGED <<forceRefresh, excused>>,
         \A d \in Call : UnderWay(d)' => UnderWay(d) /\ call'[d].flag = call[d].flag
  PROVE  FlagInv'
BY DEF IInv, FlagInv

LEMMA GiveUpStep ==
  ASSUME IInv, NEW c \in Call, GiveUp(c)
  PROVE  IInv'
<1> PICK x : x = IF call[c].pc = "sent" THEN [call[c] EXCEPT !.pc = "late"] ELSE DoneCall
  OBVIOUS
<1>1. /\ call[c].pc \in {"sent", "landed"}
      /\ call' = [call EXCEPT ![c] = x]
      /\ UNCHANGED <<chain, net, page, history>>
  BY DEF GiveUp
<1>2. Live(c) /\ call[c] \in Proposal \cup Creation
  BY <1>1, StageIsLive, CallType
<1>3. x \in CallState
  BY <1>2 DEF CallState, Proposal, Creation
<1>4. /\ call' \in [Call -> CallState] /\ call'[c] = x
      /\ \A d \in Call : d # c => call'[d] = call[d]
  BY <1>1, <1>3, OneCallChanges
<1>5. UNCHANGED <<account, tx, request, subscribed, events, multisig, multisigAccount,
                  transactions, forceRefresh, txAccount, told, heard, excused>>
  BY <1>1 DEF chain, net, page, history
<1>6. UNCHANGED chain
  BY <1>1
<1>7. TypeInv'
  BY <1>4, <1>5, <1>6 DEF IInv, TypeInv, chain
<1>8. ChainInv' /\ PageInv' /\ NetInv' /\ HeardInv' /\ ToldInv'
  BY <1>5, <1>6, PageUnchanged, NetUnchanged, HeardUnchanged, ToldStays
<1>9. CallsInv'
  <2>1. \/ x = DoneCall
        \/ \E pc \in {"landed", "late"} : x = [call[c] EXCEPT !.pc = pc]
    OBVIOUS
  <2>2. x # DoneCall => x.pc = "late" /\ call[c].pc = "sent" /\ x.kind = call[c].kind
                          /\ x.key = call[c].key
    BY <1>2 DEF Proposal, Creation
  <2>3. x # DoneCall /\ x.pc = "late" /\ x.kind = "create" => account'[x.key] = None
    BY <1>5, <2>2 DEF IInv, CallsInv
  <2>4. ~(x # DoneCall /\ x.pc = "landed")
    BY <2>2
  <2>5. QED
    BY <1>1, <1>2, <1>3, <1>5, <2>1, <2>3, <2>4, CallsGoOn
<1>10. FlagInv'
  <2>1. \A d \in Call : UnderWay(d)' => UnderWay(d) /\ call'[d].flag = call[d].flag
    BY <1>2, <1>4 DEF UnderWay, DoneCall, Proposal, Creation
  <2>2. QED
    BY <1>5, <2>1, FlagsGoOn
<1>11. QED
  BY <1>7, <1>8, <1>9, <1>10 DEF IInv

LEMMA LandStep ==
  ASSUME IInv, NEW c \in Call, Land(c)
  PROVE  IInv'
<1> PICK x : x = IF call[c].pc = "sent" THEN [call[c] EXCEPT !.pc = "landed"] ELSE DoneCall
  OBVIOUS
<1>1. /\ call[c].pc \in {"sent", "late"}
      /\ call' = [call EXCEPT ![c] = x]
      /\ UNCHANGED <<subscribed, page, history>>
  BY DEF Land
<1>2. /\ Live(c) /\ call[c] \in Proposal \cup Creation
      /\ call[c].kind = "propose" => call[c] \in Proposal
      /\ call[c].kind = "create" => call[c] \in Creation
      /\ call[c].kind \in {"propose", "create"}
  BY <1>1, StageIsLive, CallType
<1>3. x \in CallState
  BY <1>2 DEF CallState, Proposal, Creation
<1>4. /\ call' \in [Call -> CallState] /\ call'[c] = x
      /\ \A d \in Call : d # c => call'[d] = call[d]
  BY <1>1, <1>3, OneCallChanges
<1>5. /\ \/ x = DoneCall
         \/ \E pc \in {"landed", "late"} : x = [call[c] EXCEPT !.pc = pc]
      /\ x # DoneCall => x.pc = "landed" /\ x.kind = call[c].kind /\ x.key = call[c].key
  BY <1>2 DEF Proposal, Creation
<1>6. FlagInv'
  <2>1. \A d \in Call : UnderWay(d)' => UnderWay(d) /\ call'[d].flag = call[d].flag
    BY <1>2, <1>4 DEF UnderWay, DoneCall, Proposal, Creation
  <2>2. UNCHANGED <<forceRefresh, excused>>
    BY <1>1 DEF page, history
  <2>3. QED
    BY <2>1, <2>2, FlagsGoOn
<1>7. CASE call[c].kind = "propose"
  <2>1. /\ call[c].key \in TxKey /\ call[c].multisig \in Address
        /\ call[c].change \in Change /\ Wallet \in Owner
        /\ CreateTransaction(call[c].key, call[c].multisig, Wallet, call[c].change)
    BY <1>2, <1>7, MultisigAssumption DEF Land, Proposal
  <2>2. PICK T \in [TxKey -> Tx \cup {None}] :
          /\ Become(account, T) /\ Evolves /\ ChainInv' /\ T[call[c].key] # None
          /\ approved' \subseteq TxKey \X Owner
    BY <2>1, CreateChanges
  <2>3. account' = account /\ tx' = T /\ account \in [Address -> Account \cup {None}]
    BY <2>2 DEF Become, IInv, TypeInv
  <2>4. CallsInv'
    BY <1>1, <1>2, <1>3, <1>5, <2>2, <2>3, CallsGoOn DEF Evolves
  <2>5. QED
    BY <1>1, <1>4, <1>6, <2>2, <2>3, <2>4, ChainStep
<1>8. CASE call[c].kind = "create"
  <2> PICK a : a = call[c].account
    OBVIOUS
  <2> PICK m : m = call[c].key
    OBVIOUS
  <2> DEFINE A == [account EXCEPT ![m] = a]
  <2>1. Become(A, tx) /\ UNCHANGED approved
    BY <1>2, <1>8 DEF Land
  <2>2. /\ m \in Address /\ a \in Account /\ a # None /\ account[m] = None
        /\ a.of = m /\ a.seqno = 0 /\ a.past = <<a.owners>>
    BY <1>1, <1>2, <1>8, NullAssumption DEF IInv, CallsInv, Creation
  <2>3. account' = A /\ tx' = tx
    BY <2>1 DEF Become
  <2>4. /\ A \in [Address -> Account \cup {None}] /\ A[m] = a
        /\ \A n \in Address : n # m => A[n] = account[n]
    BY <2>2 DEF IInv, TypeInv
  <2> HIDE DEF A
  <2>5. \A n \in Address : account[n] # None => account[n].seqno \in Nat
    BY DEF IInv, TypeInv, Account
  <2>6. Evolves
    <3>1. \A n \in Address : account[n] # None =>
            /\ A[n] # None /\ account[n].seqno <= A[n].seqno
            /\ \A i \in 1 .. account[n].seqno + 1 : A[n].past[i] = account[n].past[i]
      BY <2>2, <2>4, <2>5
    <3>2. QED
      BY <2>1, <2>3, <3>1 DEF Evolves
  <2>7. TxVersions \subseteq TxVersions'
    BY <2>3, <2>4, <2>6, TxVersionsStay DEF IInv
  <2>8. ChainInv'
    <3>1. Len(a.past) = a.seqno + 1 /\ a.past[a.seqno + 1] = a.owners
      BY <2>2
    <3>2. HistoryInv'
      <4>1. \A n \in Address : n # m => account'[n] = account[n]
        BY <2>3, <2>4
      <4>2. account'[m] = a
        BY <2>3, <2>4
      <4>3. HistoryInv
        BY DEF IInv, ChainInv
      <4>4. QED
        BY <2>2, <3>1, <4>1, <4>2, <4>3 DEF HistoryInv
    <3>3. QED
      BY <2>3, <2>7, <3>2 DEF IInv, ChainInv
  <2>9. CallsInv'
    <3>1. \A n \in Address : n # call[c].key /\ account[n] = None => account'[n] = None
      BY <2>3, <2>4
    <3>2. ~(x # DoneCall /\ x.kind = "propose") /\ ~(x # DoneCall /\ x.pc = "late")
      BY <1>5, <1>8
    <3>3. QED
      BY <1>1, <1>2, <1>3, <1>5, <2>3, <3>1, <3>2, CallsGoOn
  <2>10. tx \in [TxKey -> Tx \cup {None}] /\ approved' \subseteq TxKey \X Owner
    BY <2>1 DEF IInv, TypeInv
  <2>11. QED
    BY <1>1, <1>4, <1>6, <2>1, <2>4, <2>6, <2>8, <2>9, <2>10, ChainStep
<1>9. QED
  BY <1>2, <1>7, <1>8

LEMMA FinishMeans ==
  ASSUME IInv, NEW c \in Call, NEW kind \in {"propose", "create"}, Finish(c, kind),
         UNCHANGED chain
  PROVE  /\ call[c].pc = "landed" /\ call[c].kind = kind
         /\ Live(c)
         /\ call' \in [Call -> CallState]
         /\ \A d \in Call : UnderWay(d)' => UnderWay(d) /\ d # c
                                              /\ call'[d].flag = call[d].flag
         /\ CallsInv'
<1>1. /\ call[c].pc = "landed" /\ call[c].kind = kind
      /\ call' = [call EXCEPT ![c] = DoneCall]
  BY DEF Finish
<1>2. Live(c)
  BY <1>1, StageIsLive
<1>3. DoneCall \in CallState /\ DoneCall.pc = "done"
  BY DEF CallState, DoneCall
<1>4. /\ call' \in [Call -> CallState] /\ call'[c] = DoneCall
      /\ \A d \in Call : d # c => call'[d] = call[d]
  BY <1>1, <1>3, OneCallChanges
<1>5. \A d \in Call : UnderWay(d)' => UnderWay(d) /\ d # c /\ call'[d].flag = call[d].flag
  BY <1>3, <1>4 DEF UnderWay
<1>6. CallsInv'
  BY <1>1, <1>2, <1>3, CallsGoOn DEF chain
<1>7. QED
  BY <1>1, <1>2, <1>4, <1>5, <1>6

LEMMA CreatedStep ==
  ASSUME IInv, NEW c \in Call, Created(c)
  PROVE  IInv'
<1>1. /\ Finish(c, "create") /\ Visit(call[c].key)
      /\ UNCHANGED <<chain, events, multisigAccount, transactions, forceRefresh,
                     txAccount, history>>
  BY DEF Created
<1>2. /\ call[c].kind = "create" /\ Live(c)
      /\ call' \in [Call -> CallState] /\ CallsInv'
      /\ \A d \in Call : UnderWay(d)' => UnderWay(d) /\ call'[d].flag = call[d].flag
  BY <1>1, FinishMeans
<1>3. call[c].key \in Address
  BY <1>2, CallType DEF Creation
<1>4. FlagInv'
  BY <1>1, <1>2, FlagsGoOn DEF history
<1>5. QED
  BY <1>1, <1>2, <1>3, <1>4, VisitStep

\* What is reported is on the chain, and the flag changes unless another proposal
\* was under way.
LEMMA ProposedStep ==
  ASSUME IInv, NEW c \in Call, Proposed(c)
  PROVE  IInv'
<1>1. /\ Finish(c, "propose")
      /\ told' = told \cup {call[c].key}
      /\ forceRefresh' = call[c].flag
      /\ request' = IF forceRefresh' = forceRefresh THEN request
                    ELSE Append(request, Ask(multisig, "list"))
      /\ UNCHANGED <<chain, subscribed, events, multisig, multisigAccount, transactions,
                     txAccount, heard, excused>>
  BY DEF Proposed
<1>2. /\ call[c].pc = "landed" /\ call[c].kind = "propose" /\ Live(c)
      /\ call' \in [Call -> CallState] /\ CallsInv'
      /\ \A d \in Call : UnderWay(d)' => UnderWay(d) /\ d # c
  BY <1>1, FinishMeans
<1>3. call[c].key \in TxKey /\ call[c].flag \in BOOLEAN /\ multisig \in Address
  BY <1>2, CallType DEF Proposal, IInv, TypeInv
<1>4. UnderWay(c) /\ tx[call[c].key] # None
  BY <1>2 DEF UnderWay, IInv, CallsInv
<1>5. /\ Append(request, Ask(multisig, "list")) \in Seq(Request)
      /\ DOMAIN Append(request, Ask(multisig, "list")) = 1 .. Len(request) + 1
      /\ Len(request) \in Nat /\ DOMAIN request = 1 .. Len(request)
      /\ \A i \in 1 .. Len(request) :
           Append(request, Ask(multisig, "list"))[i] = request[i]
      /\ Append(request, Ask(multisig, "list"))[Len(request) + 1] = Ask(multisig, "list")
  BY <1>3, AppendRequest
<1>6. request' \in Seq(Request)
  BY <1>1, <1>5 DEF IInv, TypeInv
<1>7. TypeInv'
  BY <1>1, <1>2, <1>3, <1>6 DEF IInv, TypeInv, chain
<1>8. NetInv'
  <2>1. \A i \in DOMAIN request' :
          \/ i \in DOMAIN request /\ request'[i] = request[i]
          \/ request'[i] = Ask(multisig, "list")
    BY <1>1, <1>5
  <2>2. QED
    BY <1>1, <1>3, <2>1, NetWithMore
<1>9. ChainInv' /\ PageInv' /\ HeardInv'
  BY <1>1, PageUnchanged, HeardUnchanged
<1>10. FlagInv'
  BY <1>1, <1>2, <1>4 DEF IInv, FlagInv
<1>11. ToldInv'
  <2>1. told' \subseteq TxKey /\ \A k \in told' : tx[k] # None
    BY <1>1, <1>3, <1>4 DEF IInv, TypeInv, ToldInv
  <2>2. CASE excused = {}
    <3>1. call[c].flag # forceRefresh
      BY <1>4, <2>2 DEF IInv, FlagInv
    <3>2. request' = Append(request, Ask(multisig, "list"))
      BY <1>1, <3>1
    <3>3. /\ Len(request) + 1 \in DOMAIN request'
          /\ \A i \in DOMAIN request' : i <= Len(request) + 1
          /\ request'[Len(request) + 1] = Ask(multisig', "list")
          /\ multisig' \in Address
      BY <1>1, <1>3, <1>5, <3>2
    <3>4. QED
      BY <1>1, <2>1, <3>3, NewList
  <2>3. CASE excused # {}
    BY <1>1, <2>1, <2>3 DEF ToldInv, chain
  <2>4. QED
    BY <2>2, <2>3
<1>12. QED
  BY <1>2, <1>7, <1>8, <1>9, <1>10, <1>11 DEF IInv

-----------------------------------------------------------------------------
(* The invariant.                                                          *)

LEMMA InitIInv == Init => IInv
<1> SUFFICES ASSUME Init PROVE IInv
  OBVIOUS
<1>1. /\ account \in Start /\ tx = [k \in TxKey |-> None] /\ approved = {}
      /\ multisig = Opened /\ multisigAccount = Undefined /\ transactions = None
      /\ forceRefresh = FALSE /\ txAccount = <<>>
      /\ request = <<Ask(multisig, "account"), Ask(multisig, "list")>>
      /\ subscribed = [s \in Subject |-> IF s = multisig THEN "asked" ELSE "no"]
      /\ events = [s \in Subject |-> <<>>]
      /\ call = [c \in Call |-> IdleCall]
      /\ told = {} /\ heard = {} /\ excused = {}
  BY DEF Init
<1>2. /\ account \in [Address -> Account \cup {None}]
      /\ tx \in [TxKey -> Tx \cup {None}]
      /\ multisig \in Address
  BY <1>1, MultisigAssumption DEF Account
<1>3. \A m \in Address : account[m] # None =>
        account[m] \in Account /\ account[m].of = m /\ account[m].seqno = 0
          /\ account[m].past = <<account[m].owners>>
  <2>1. account \in [Address -> {None} \cup [of : Address, owners : OwnerList,
                       threshold : Nat, seqno : {0}, past : Seq(OwnerList), size : Nat]]
        /\ \A m \in Address : account[m] # None =>
             account[m].of = m /\ account[m].past = <<account[m].owners>>
    BY <1>1, MultisigAssumption
  <2>2. QED
    BY <1>2, <2>1
<1>4. HistoryInv
  <2>1. ASSUME NEW m \in Address, account[m] # None
        PROVE  /\ Len(account[m].past) = account[m].seqno + 1
               /\ account[m].past[account[m].seqno + 1] = account[m].owners
    <3>1. account[m].past = <<account[m].owners>> /\ account[m].seqno + 1 = 1
      BY <1>3, <2>1
    <3>2. Len(<<account[m].owners>>) = 1 /\ <<account[m].owners>>[1] = account[m].owners
      OBVIOUS
    <3>3. QED
      BY <3>1, <3>2
  <2>2. QED
    BY <1>3, <2>1 DEF HistoryInv
<1>5. ChainInv
  BY <1>1, <1>4 DEF ChainInv
<1>6. Listed(tx, multisig) \in List /\ DOMAIN Listed(tx, multisig) = {}
  BY <1>1, <1>2, ListedType
<1>7. /\ Ask(multisig, "account") \in Request /\ Ask(multisig, "list") \in Request
      /\ Ask(multisig, "account").what = "account"
      /\ Ask(multisig, "account").may = {account[multisig]}
      /\ Ask(multisig, "list").what = "list"
      /\ Ask(multisig, "list").multisig = multisig
      /\ Ask(multisig, "list").may = {Listed(tx, multisig)}
  BY <1>2, <1>6 DEF Ask, Content, Request
<1>8. /\ request \in Seq(Request) /\ DOMAIN request = {1, 2}
      /\ request[1] = Ask(multisig, "account") /\ request[2] = Ask(multisig, "list")
  <2>1. request \in Seq(Request) /\ Len(request) = 2
    BY <1>1, <1>7
  <2>2. QED
    BY <1>1, <2>1
<1>9. \A s \in Subject : events[s] = <<>> /\ DOMAIN events[s] = {}
  BY <1>1
<1>10. txAccount \in List /\ DOMAIN txAccount = {}
  BY <1>1, EmptyList
<1>11. \A c \in Call : call[c] = IdleCall /\ ~Live(c) /\ call[c].pc = "idle"
  BY <1>1 DEF Live, IdleCall
<1>12. TypeInv
  <2>1. events \in [Subject -> Seq(Account) \cup Seq(Tx)]
        /\ (\A m \in Address : events[m] \in Seq(Account))
        /\ (\A k \in TxKey : events[k] \in Seq(Tx))
    BY <1>1, EmptySeq DEF Subject
  <2>2. call \in [Call -> CallState]
    BY <1>1 DEF CallState
  <2>3. subscribed \in [Subject -> {"no", "asked", "active"}]
    BY <1>1
  <2>4. QED
    BY <1>1, <1>2, <1>8, <1>10, <2>1, <2>2, <2>3 DEF TypeInv
<1>13. NetInv
  <2>1. account[multisig] # None => account[multisig] \in Versions
    BY <1>2, <1>3, <1>4 DEF Versions, HistoryInv, Account
  <2>2. QED
    BY <1>6, <1>7, <1>8, <1>9, <2>1 DEF NetInv, Subject
<1>14. PageInv
  BY <1>1, <1>10 DEF PageInv, Found
<1>15. HeardInv
  BY <1>1, <1>9 DEF HeardInv
<1>16. CallsInv
  BY <1>11 DEF CallsInv
<1>17. FlagInv
  BY <1>11 DEF FlagInv, UnderWay
<1>18. ToldInv
  <2>1. LastList(2)
    BY <1>7, <1>8 DEF LastList
  <2>2. ~Answered(2) /\ request[2].multisig = multisig /\ 2 \in DOMAIN request
    BY <1>7, <1>8 DEF Answered
  <2>3. \A l : HasTold(l)
    BY <1>1 DEF HasTold
  <2>4. QED
    BY <1>1, <2>1, <2>2, <2>3 DEF ToldInv
<1>19. QED
  BY <1>5, <1>12, <1>13, <1>14, <1>15, <1>16, <1>17, <1>18 DEF IInv

LEMMA NextIInv == IInv /\ Next => IInv'
<1> SUFFICES ASSUME IInv, Next PROVE IInv'
  OBVIOUS
<1>1. CASE \E n \in DOMAIN request : AccountArrives(n) \/ ListArrives(n)
  BY <1>1, AccountArrivesStep, ListArrivesStep
<1>2. CASE \E s \in Subject : SubscriptionStarts(s)
  BY <1>2, SubscriptionStartsStep
<1>3. CASE \E m \in Address : AccountChanged(m) \/ Navigate(m)
  BY <1>3, AccountChangedStep, NavigateStep
<1>4. CASE \E k \in TxKey : TransactionChanged(k)
  BY <1>4, TransactionChangedStep
<1>5. ASSUME NEW k \in TxKey, Approve(k) PROVE IInv'
  <2>1. multisig \in Address /\ Wallet \in Owner
    BY MultisigAssumption DEF IInv, TypeInv
  <2>2. QED
    BY <1>5, <2>1, ApproveStep DEF Approve
<1>6. ASSUME NEW k \in TxKey, Execute(k) PROVE IInv'
  <2>1. multisig \in Address
    BY DEF IInv, TypeInv
  <2>2. QED
    BY <1>6, <2>1, ExecuteStep DEF Execute
<1>7. CASE Elsewhere
  BY <1>7, ElsewhereStep
<1>8. CASE \E c \in Call, k \in TxKey :
             ChangeThreshold(c, k) \/ ChangeOwners(c, k) \/ UpgradeIdl(c, k)
               \/ UpgradeProgram(c, k)
  BY <1>8, ProposeStep DEF ChangeThreshold, ChangeOwners, UpgradeIdl, UpgradeProgram,
                           ProposeKind
<1>9. CASE \E c \in Call, m \in Address, new \in Entered : CreateMultisig(c, m, new)
  BY <1>9, CreateMultisigStep
<1>10. CASE \E c \in Call : Land(c) \/ GiveUp(c) \/ Proposed(c) \/ Created(c)
  BY <1>10, LandStep, GiveUpStep, ProposedStep, CreatedStep
<1>11. QED
  BY <1>1, <1>2, <1>3, <1>4, <1>5, <1>6, <1>7, <1>8, <1>9, <1>10 DEF Next

LEMMA StutterIInv == IInv /\ UNCHANGED vars => IInv'
<1> SUFFICES ASSUME IInv, UNCHANGED vars PROVE IInv'
  OBVIOUS
<1>1. /\ UNCHANGED <<chain, request, subscribed, events, multisig, multisigAccount,
                     transactions, forceRefresh, txAccount, call, told, heard, excused>>
  BY DEF vars, net, page, history
<1>2. TypeInv'
  BY <1>1 DEF IInv, TypeInv, chain
<1>3. /\ ChainInv' /\ PageInv' /\ NetInv' /\ HeardInv' /\ CallsInv' /\ ToldInv'
  BY <1>1, PageUnchanged, NetUnchanged, HeardUnchanged, CallsUnchanged, ToldStays
<1>4. FlagInv'
  BY <1>1 DEF IInv, FlagInv, UnderWay
<1>5. QED
  BY <1>2, <1>3, <1>4 DEF IInv

LEMMA Invariance == Spec => []IInv
BY InitIInv, NextIInv, StutterIInv, PTL DEF Spec

-----------------------------------------------------------------------------
(* Theorems.                                                               *)

\* Multisig is type-correct.
THEOREM MultisigTypeOK == Spec => []TypeOK
<1>1. IInv => TypeOK
  BY TypeInvIsTypeOK DEF IInv
<1> QED
  BY <1>1, Invariance, PTL

\* The check marks: the item and the account are of any two moments, and the owners
\* were replaced any number of times, before, between and since.  The number of the
\* owner set that both carry names one list of owners for ever.
THEOREM TicksAreApprovals == Spec => []TickMeansApproval
<1>1. IInv => TickMeansApproval
  <2> SUFFICES ASSUME IInv, NEW k \in DOMAIN txAccount,
                      txAccount[k].multisig = multisigAccount.of,
                      NEW i \in DOMAIN SignerRows(k), SignerRows(k)[i].didSign
               PROVE  <<k, SignerRows(k)[i].owner>> \in approved
    BY DEF TickMeansApproval
  <2>1. multisigAccount \in Versions /\ IsReading(k, txAccount[k])
    BY DEF IInv, PageInv, TxVersions
  <2>2. txAccount[k].seqno = multisigAccount.seqno
    <3>1. SUFFICES ASSUME txAccount[k].seqno # multisigAccount.seqno PROVE FALSE
      OBVIOUS
    <3>2. SignerRows(k) = <<>>
      BY <3>1 DEF SignerRows
    <3>3. QED
      BY <3>2, EmptyList
  <2>3. /\ i \in DOMAIN multisigAccount.owners
        /\ SignerRows(k)[i].owner = multisigAccount.owners[i]
        /\ i \in SignersOf(txAccount[k])
    BY <2>2 DEF SignerRows
  <2>4. QED
    BY <2>1, <2>2, <2>3 DEF Versions, IsReading
<1> QED
  BY <1>1, Invariance, PTL

\* What was reported as created is listed once all lists arrived, and what was last
\* heard of is what the chain holds: whatever the answers and notifications are
\* overtaken by, and however many calls, visits and owners there are.
THEOREM PageStaysCurrent == Spec => []PageIsCurrent
<1>1. IInv => ReportedIsListed
  <2> SUFFICES ASSUME IInv, excused = {}, transactions # None,
                      \A n \in DOMAIN request : request[n].what = "list" => Answered(n)
               PROVE  HasTold(transactions)
    BY DEF ReportedIsListed, HasTold
  <2>1. QED
    BY DEF IInv, ToldInv, LastList
<1>2. IInv => HeardIsCurrent
  BY DEF IInv, HeardInv, HeardIsCurrent, Shown, Held
<1> QED
  BY <1>1, <1>2, Invariance, PTL DEF PageIsCurrent

\* Whoever proposed a transaction, with whatever client: it asks for no signature but
\* that of its own multisig, which execute takes back.
THEOREM ListedCanBeExecuted == Spec => []WalletCanExecute
<1>1. IInv => WalletCanExecute
  <2> SUFFICES ASSUME IInv, NEW k \in DOMAIN txAccount,
                      txAccount[k].multisig = multisig
               PROVE  Signed(RemainingAccounts(txAccount[k]))
    BY DEF WalletCanExecute
  <2>1. SignedByItself(txAccount[k]) /\ txAccount[k] \in Tx
    BY DEF IInv, PageInv, TxVersions, IsReading
  <2>2. ASSUME NEW a \in txAccount[k].accounts,
               ~(a.key = "multisigSigner" /\ a.of = multisig)
        PROVE  ~a.isSigner
    BY <2>1, <2>2 DEF SignedByItself
  <2>3. \A a \in txAccount[k].accounts : a \in AccountMeta
    BY <2>1 DEF Tx
  <2>4. \A b \in RemainingAccounts(txAccount[k]) : ~b.isSigner
    BY <2>2, <2>3 DEF RemainingAccounts, AccountMeta
  <2>5. QED
    BY <2>4 DEF Signed
<1> QED
  BY <1>1, Invariance, PTL
=============================================================================
