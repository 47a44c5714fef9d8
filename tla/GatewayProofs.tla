--------------------------- MODULE GatewayProofs ----------------------------
(***************************************************************************)
(* A call on its way through the gateway and its bill afterwards, for all  *)
(* values of the constants: PostPaid, for any number of requests,          *)
(* contexts, groups, connections and places in the log queue; and of the   *)
(* components of Server the breakers and token risk, the cache of two      *)
(* copies, the remembered channels, the keys of a channel and the counters *)
(* of rate limits.                                                         *)
(*                                                                         *)
(* Sums of bills are cardinalities of sets of unit pairs (Sums), so that a *)
(* step that charges one request changes a sum by that request's price.    *)
(***************************************************************************)
EXTENDS PostPaid, Server, FiniteSetTheorems, FunctionTheorems, SequenceTheorems, WellFoundedInduction, TLAPS

-----------------------------------------------------------------------------
(* Sums.                                                                   *)

\* One amount stands for as many pairs.
LEMMA Column ==
  ASSUME NEW x, NEW n \in Nat
  PROVE  IsFiniteSet({x} \X (1..n)) /\ Cardinality({x} \X (1..n)) = n
<1> DEFINE h == [i \in 1..n |-> <<x, i>>]
<1>1. h \in Bijection(1..n, {x} \X (1..n))
  <2>1. h \in [1..n -> {x} \X (1..n)]
    OBVIOUS
  <2>2. \A i, j \in 1..n : h[i] = h[j] => i = j
    OBVIOUS
  <2>3. \A t \in {x} \X (1..n) : \E i \in 1..n : h[i] = t
    <3> TAKE t \in {x} \X (1..n)
    <3> PICK i \in 1..n : t = <<x, i>>
      OBVIOUS
    <3> QED
      OBVIOUS
  <2> QED
    BY <2>1, <2>2, <2>3 DEF Bijection, Injection, IsInjective, Surjection
<1>2. ExistsBijection(1..n, {x} \X (1..n))
  BY <1>1 DEF ExistsBijection
<1>3. IsFiniteSet(1..n) /\ Cardinality(1..n) = n
  BY FS_Interval
<1> QED
  BY <1>2, <1>3, FS_Bijection

\* Finitely many amounts have a sum.
LEMMA UnitsFinite ==
  ASSUME NEW S, IsFiniteSet(S), NEW f, \A x \in S : f[x] \in Nat
  PROVE  IsFiniteSet(Units(f, S)) /\ Sum(f, S) \in Nat
<1> DEFINE T == {{x} \X (1..f[x]) : x \in S}
           h == [x \in S |-> {x} \X (1..f[x])]
<1>1. h \in Surjection(S, T)
  BY DEF Surjection
<1>2. IsFiniteSet(T)
  BY <1>1, FS_Surjection
<1>3. \A t \in T : IsFiniteSet(t)
  <2> TAKE t \in T
  <2> PICK x \in S : t = {x} \X (1..f[x])
    OBVIOUS
  <2> f[x] \in Nat
    OBVIOUS
  <2> IsFiniteSet({x} \X (1..f[x]))
    BY Column
  <2> QED
    OBVIOUS
<1>4. IsFiniteSet(UNION T)
  BY <1>2, <1>3, FS_UNION
<1> QED
  BY <1>4, FS_CardinalityType DEF Units, Sum

\* A sum depends on its amounts only.
LEMMA SumSame ==
  ASSUME NEW S, NEW f, NEW g, \A x \in S : f[x] = g[x]
  PROVE  Sum(f, S) = Sum(g, S)
<1>1. \A x \in S : {x} \X (1..f[x]) = {x} \X (1..g[x])
  OBVIOUS
<1>2. Units(f, S) = Units(g, S)
  BY <1>1 DEF Units
<1> QED
  BY <1>2 DEF Sum

\* Nothing adds up to nothing.
LEMMA SumZero ==
  ASSUME NEW S, NEW f, \A x \in S : f[x] = 0
  PROVE  Sum(f, S) = 0
<1>1. \A x \in S : 1..f[x] = {}
  OBVIOUS
<1>2. Units(f, S) = {}
  BY <1>1 DEF Units
<1> QED
  BY <1>2, FS_EmptySet DEF Sum

\* One amount is taken out of a sum.
LEMMA SumSplit ==
  ASSUME NEW S, IsFiniteSet(S), NEW f, \A x \in S : f[x] \in Nat, NEW y \in S
  PROVE  Sum(f, S \ {y}) \in Nat /\ Sum(f, S) = Sum(f, S \ {y}) + f[y]
<1> DEFINE R == Units(f, S \ {y})
           A == {y} \X (1..f[y])
<1>1. Units(f, S) = R \cup A /\ R \cap A = {}
  BY DEF Units
<1>2. IsFiniteSet(R) /\ Sum(f, S \ {y}) \in Nat
  BY UnitsFinite, FS_RemoveElement
<1>3. f[y] \in Nat
  OBVIOUS
<1>4. IsFiniteSet(A) /\ Cardinality(A) = f[y]
  BY <1>3, Column
<1> HIDE DEF R, A
<1>5. Cardinality(R \cup A) = Cardinality(R) + Cardinality(A) - Cardinality(R \cap A)
  BY <1>2, <1>4, FS_Union
<1>6. Cardinality({}) = 0
  BY FS_EmptySet
<1>7. Cardinality(R) = Sum(f, S \ {y})
  BY DEF R, Sum
<1>8. Sum(f, S) = Sum(f, S \ {y}) + f[y] - 0
  BY <1>1, <1>4, <1>5, <1>6, <1>7 DEF Sum
<1> QED
  BY <1>2, <1>3, <1>8

\* One amount changes.
LEMMA SumChange ==
  ASSUME NEW S, IsFiniteSet(S), NEW f, NEW g, NEW y \in S,
         \A x \in S : f[x] \in Nat /\ g[x] \in Nat,
         \A x \in S \ {y} : g[x] = f[x]
  PROVE  Sum(g, S) = Sum(f, S) - f[y] + g[y]
<1>1. Sum(g, S \ {y}) = Sum(f, S \ {y})
  BY SumSame
<1>2. Sum(f, S \ {y}) \in Nat /\ Sum(f, S) = Sum(f, S \ {y}) + f[y]
  BY SumSplit
<1>3. Sum(g, S) = Sum(g, S \ {y}) + g[y]
  BY SumSplit
<1>4. f[y] \in Nat /\ g[y] \in Nat
  OBVIOUS
<1> QED
  BY <1>1, <1>2, <1>3, <1>4

-----------------------------------------------------------------------------
(* The inductive invariant.                                                *)

\* A request has no log row before its bill is done.
UnbilledUnlogged ==
  \A r \in Requests : bill[r] # "done" =>
    r \notin queued /\ r \notin buffer /\ r \notin dropped /\ written[r] = 0

\* A log row is in one place.
RowsApart == queued \cap buffer = {} /\ queued \cap dropped = {} /\ buffer \cap dropped = {}

InHand(r) == at[r] \in {"serving", "answered"}

\* A context belongs to one handler at a time, and holds its billing group.
ContextsHeld ==
  \A r \in Requests :
    /\ at[r] = "new" => hit[r] = Unset
    /\ InHand(r) => /\ \A q \in Requests : q # r /\ InHand(q) => ctx[q] # ctx[r]
                    /\ hit[r] # Unset => key[ctx[r]] = hit[r]

BillOf(r) ==
  /\ bill[r] # "none" => at[r] \in {"answered", "gone"} /\ hit[r] # Unset
  /\ priced[r] = Unset <=> bill[r] \in {"none", "read"}
  /\ result[r] = "none" <=> bill[r] # "done"

RowsOf(r) ==
  /\ written[r] <= 1
  /\ written[r] = 1 => r \notin queued /\ r \notin buffer /\ r \notin dropped
  /\ result[r] \in {"wallet", "subscription"} =>
       r \in queued \/ r \in buffer \/ r \in dropped \/ written[r] > 0

Open == Cardinality(Busy) <= Conns

Bills == \A r \in Requests : BillOf(r)
Rows == (\A r \in Requests : RowsOf(r)) /\ UnbilledUnlogged /\ RowsApart

Inv == TypeOK /\ Bills /\ Open /\ Rows /\ BooksBalance /\ ContextsHeld

LEMMA InvImplies == Inv => ChargedAndLogged
BY DEF Inv, Bills, BillOf, Open, Rows, RowsOf, RowsApart, ChargedAndLogged, PostPaidInv, BillsAgree,
       ChargesAreLogged, LoggedAtMostOnce

\* What is paid changes by what one request pays.
LEMMA OneMorePaid ==
  ASSUME NEW r \in Requests, NEW f, NEW g,
         \A x \in Requests : f[x] \in Nat /\ g[x] \in Nat,
         \A x \in Requests \ {r} : g[x] = f[x]
  PROVE  Sum(g, Requests) = Sum(f, Requests) - f[r] + g[r]
BY SumChange, RequestsFinite

LEMMA AmountsType ==
  ASSUME TypeOK, Bills, NEW s \in {"wallet", "subscription"}
  PROVE  \A r \in Requests : Amounts(s)[r] \in Nat
BY GroupsAssumption DEF TypeOK, Bills, BillOf, Amounts, Price

LEMMA InitInv == Init => Inv
<1> SUFFICES ASSUME Init PROVE Inv
  OBVIOUS
<1>1. TypeOK
  BY GroupsAssumption, AmountsAssumption DEF Init, TypeOK, InTx
<1>2. Bills /\ Rows /\ ContextsHeld
  BY DEF Init, Bills, BillOf, Rows, RowsOf, UnbilledUnlogged, RowsApart, ContextsHeld, InHand
<1>3. Open
  <2>1. Busy = {}
    BY DEF Init, Busy, InTx
  <2> QED
    BY <2>1, FS_EmptySet, PoolAssumption DEF Open
<1>4. BooksBalance
  <2>1. \A r \in Requests : Amounts("wallet")[r] = 0 /\ Amounts("subscription")[r] = 0
    BY DEF Init, Amounts
  <2>2. Paid("wallet") = 0 /\ Paid("subscription") = 0
    BY <2>1, SumZero DEF Paid
  <2> QED
    BY <2>2, AmountsAssumption DEF Init, BooksBalance
<1> QED
  BY <1>1, <1>2, <1>3, <1>4 DEF Inv

-----------------------------------------------------------------------------
(* Parts of the invariant that several actions leave alone.                *)

LEMMA SameBooks ==
  ASSUME BooksBalance, UNCHANGED <<quota, subUsed, priced, result>>
  PROVE  BooksBalance'
BY DEF BooksBalance, Paid, Amounts, Price

LEMMA SameRows ==
  ASSUME Rows, UNCHANGED logVars, UNCHANGED result,
         \A r \in Requests : bill[r] = "done" => bill'[r] = "done"
  PROVE  Rows'
BY DEF Rows, RowsOf, UnbilledUnlogged, RowsApart, logVars

LEMMA BusyFinite == IsFiniteSet(Busy) /\ Cardinality(Busy) \in Nat
BY RequestsFinite, FS_Subset, FS_CardinalityType DEF Busy

\* A transaction may begin while a connection is free, and may end.
LEMMA OpenKept ==
  ASSUME TypeOK, Open, NEW r \in Requests, NEW p, BillTo(r, p),
         bill[r] \in InTx \/ ConnFree \/ p \notin InTx
  PROVE  Open'
<1>1. IsFiniteSet(Busy) /\ Cardinality(Busy) \in Nat
  BY BusyFinite
<1>2. CASE p \in InTx /\ bill[r] \notin InTx
  <2>1. Busy' = Busy \cup {r} /\ r \notin Busy
    BY <1>2 DEF Busy, BillTo, TypeOK
  <2>2. Cardinality(Busy') = Cardinality(Busy) + 1
    BY <1>1, <2>1, FS_AddElement
  <2> QED
    BY <1>1, <1>2, <2>2, PoolAssumption DEF Open, ConnFree
<1>3. CASE p \notin InTx \/ bill[r] \in InTx
  <2>1. Busy' \subseteq Busy
    BY <1>3 DEF Busy, BillTo, TypeOK
  <2>2. Cardinality(Busy') <= Cardinality(Busy) /\ Cardinality(Busy') \in Nat
    BY <1>1, <2>1, FS_Subset, FS_CardinalityType
  <2> QED
    BY <1>1, <2>2, PoolAssumption DEF Open
<1> QED
  BY <1>2, <1>3

LEMMA SameOpen ==
  ASSUME Open, UNCHANGED bill
  PROVE  Open'
BY DEF Open, Busy

-----------------------------------------------------------------------------
(* The handler.                                                            *)

LEMMA TakeContextInv ==
  ASSUME Inv, NEW r \in Requests, TakeContext(r)
  PROVE  Inv'
<1> USE DEF TakeContext, Inv, billVars, moneyVars, logVars
<1>1. TypeOK'
  BY DEF TypeOK
<1>2. Bills'
  BY DEF Bills, BillOf, TypeOK
<1>3. ContextsHeld'
  BY DEF ContextsHeld, InHand, TypeOK
<1> QED
  BY <1>1, <1>2, <1>3, SameBooks, SameRows, SameOpen

LEMMA TryChannelInv ==
  ASSUME Inv, NEW r \in Requests, NEW g \in Groups, TryChannel(r, g)
  PROVE  Inv'
<1> USE DEF TryChannel, Recorded, Inv, billVars, moneyVars, logVars
<1>1. TypeOK'
  BY DEF TypeOK
<1>2. Bills'
  BY GroupsAssumption DEF Bills, BillOf, TypeOK
<1>3. ContextsHeld'
  BY DEF ContextsHeld, InHand, TypeOK
<1> QED
  BY <1>1, <1>2, <1>3, SameBooks, SameRows, SameOpen

LEMMA AnswerInv ==
  ASSUME Inv, NEW r \in Requests, Answer(r)
  PROVE  Inv'
<1> USE DEF Answer, Inv, moneyVars, logVars
<1>1. TypeOK'
  BY DEF TypeOK
<1>2. Bills'
  BY DEF Bills, BillOf, TypeOK
<1>3. ContextsHeld'
  BY DEF ContextsHeld, InHand, TypeOK
<1>4. bill[r] # "done"
  BY DEF Bills, BillOf
<1>5. Rows'
  BY <1>4, SameRows DEF TypeOK
<1>6. Open'
  BY OpenKept DEF BillTo, InTx
<1> QED
  BY <1>1, <1>2, <1>3, <1>5, <1>6, SameBooks

LEMMA LeaveInv ==
  ASSUME Inv, NEW r \in Requests, GiveUp(r) \/ Return(r)
  PROVE  Inv'
<1> USE DEF GiveUp, Return, Inv, billVars, moneyVars, logVars
<1>1. TypeOK'
  BY DEF TypeOK
<1>2. Bills'
  BY DEF Bills, BillOf, TypeOK
<1>3. ContextsHeld'
  BY DEF ContextsHeld, InHand, TypeOK
<1> QED
  BY <1>1, <1>2, <1>3, SameBooks, SameRows, SameOpen

-----------------------------------------------------------------------------
(* RecordConsumeLog.                                                       *)

LEMMA ReadGroupInv ==
  ASSUME Inv, NEW r \in Requests, ReadGroup(r)
  PROVE  Inv'
<1> USE DEF ReadGroup, BillTo, Inv, reqVars, moneyVars, logVars
<1>1. TypeOK'
  BY GroupsAssumption DEF TypeOK
<1>2. Bills'
  BY GroupsAssumption DEF Bills, BillOf, TypeOK, InTx
<1>3. ContextsHeld'
  BY DEF ContextsHeld, InHand
<1>4. Rows'
  BY SameRows DEF TypeOK
<1>5. Open'
  BY OpenKept
<1>6. BooksBalance'
  <2>1. result[r] = "none"
    BY DEF Bills, BillOf
  <2>2. \A s \in {"wallet", "subscription"} : Amounts(s)' = Amounts(s)
    BY <2>1 DEF Amounts, Price, TypeOK
  <2> QED
    BY <2>2 DEF BooksBalance, Paid
<1> QED
  BY <1>1, <1>2, <1>3, <1>4, <1>5, <1>6

\* The bill goes on to another step and nothing else happens.
LEMMA OnwardInv ==
  ASSUME Inv, NEW r \in Requests, NEW p \in InTx, BillTo(r, p),
         bill[r] \in InTx \/ (bill[r] = "begin" /\ ConnFree),
         UNCHANGED <<reqVars, priced, result, moneyVars, logVars, dbErrors>>, preference' \in Preferences
  PROVE  Inv'
<1> USE DEF BillTo, Inv, reqVars, moneyVars, logVars
<1>1. TypeOK'
  BY DEF TypeOK
<1>2. Bills'
  BY DEF Bills, BillOf, TypeOK, InTx
<1>3. ContextsHeld'
  BY DEF ContextsHeld, InHand
<1>4. Rows'
  BY SameRows DEF TypeOK, InTx
<1>5. Open'
  BY OpenKept
<1> QED
  BY <1>1, <1>2, <1>3, <1>4, <1>5, SameBooks

\* The bill ends without a charge.
LEMMA RefuseInv ==
  ASSUME Inv, NEW r \in Requests, Refuse(r), bill[r] \in InTx,
         UNCHANGED <<reqVars, priced, moneyVars, preference, logVars, dbErrors>>
  PROVE  Inv'
<1> USE DEF Refuse, BillTo, Inv, reqVars, moneyVars, logVars
<1>1. TypeOK'
  BY DEF TypeOK
<1>2. Bills'
  BY DEF Bills, BillOf, TypeOK, InTx
<1>3. ContextsHeld'
  BY DEF ContextsHeld, InHand
<1>4. Rows'
  BY DEF Rows, RowsOf, UnbilledUnlogged, RowsApart, TypeOK
<1>5. Open'
  BY OpenKept DEF InTx
<1>6. BooksBalance'
  <2>1. result[r] = "none"
    BY DEF Bills, BillOf, InTx
  <2>2. \A s \in {"wallet", "subscription"} : Amounts(s)' = Amounts(s)
    BY <2>1 DEF Amounts, Price, TypeOK
  <2> QED
    BY <2>2 DEF BooksBalance, Paid
<1> QED
  BY <1>1, <1>2, <1>3, <1>4, <1>5, <1>6

LEMMA AskInv ==
  ASSUME Inv, NEW r \in Requests,
         BeginTx(r) \/ ReadPreference(r) \/ AskWallet(r) \/ AskSubscription(r)
  PROVE  Inv'
<1>1. preference \in Preferences
  BY DEF Inv, TypeOK
<1>2. CASE BeginTx(r)
  BY <1>1, <1>2, OnwardInv DEF BeginTx, InTx
<1>3. CASE ReadPreference(r)
  <2>1. PICK p \in {"walletOnly", "walletFirst", "subOnly", "subFirst"} : BillTo(r, p)
    BY <1>3 DEF ReadPreference
  <2> QED
    BY <1>1, <1>3, <2>1, OnwardInv DEF ReadPreference, InTx
<1>4. CASE AskWallet(r)
  <2>1. CASE BillTo(r, "payWallet") /\ UNCHANGED result
    BY <1>1, <1>4, <2>1, OnwardInv DEF AskWallet, InTx
  <2>2. CASE BillTo(r, "subOnly") /\ UNCHANGED result
    BY <1>1, <1>4, <2>2, OnwardInv DEF AskWallet, InTx
  <2>3. CASE Refuse(r)
    BY <1>4, <2>3, RefuseInv DEF AskWallet, InTx
  <2> QED
    BY <1>4, <2>1, <2>2, <2>3 DEF AskWallet
<1>5. CASE AskSubscription(r)
  <2>1. CASE BillTo(r, "paySub") /\ UNCHANGED result
    BY <1>1, <1>5, <2>1, OnwardInv DEF AskSubscription, InTx
  <2>2. CASE BillTo(r, "payWallet") /\ UNCHANGED result
    BY <1>1, <1>5, <2>2, OnwardInv DEF AskSubscription, InTx
  <2>3. CASE Refuse(r)
    BY <1>5, <2>3, RefuseInv DEF AskSubscription, InTx
  <2> QED
    BY <1>5, <2>1, <2>2, <2>3 DEF AskSubscription
<1> QED
  BY <1>2, <1>3, <1>4, <1>5

\* What the end of a transaction that has queued its log row does to all but the books.
LEMMA LoggedInv ==
  ASSUME Inv, NEW r \in Requests, NEW s \in {"wallet", "subscription", "failed"},
         bill[r] \in {"payWallet", "paySub"}, BillTo(r, "done"), EnqueueLog(r),
         result' = [result EXCEPT ![r] = s], UNCHANGED <<reqVars, priced, preference>>,
         quota' \in Int, subUsed' \in Nat, dbErrors' \in Nat
  PROVE  TypeOK' /\ Bills' /\ Open' /\ Rows' /\ ContextsHeld'
<1> USE DEF BillTo, Inv, reqVars
<1>1. TypeOK'
  BY DEF TypeOK, EnqueueLog
<1>2. Bills'
  BY DEF Bills, BillOf, TypeOK, InTx
<1>3. ContextsHeld'
  BY DEF ContextsHeld, InHand
<1>4. Open'
  BY OpenKept DEF InTx
<1>5. Rows'
  <2>1. r \notin queued /\ r \notin buffer /\ r \notin dropped /\ written[r] = 0
    BY DEF Rows, UnbilledUnlogged
  <2>2. CASE queued' = queued \cup {r} /\ UNCHANGED <<written, buffer, dropped>>
    BY <2>1, <2>2 DEF Rows, RowsOf, UnbilledUnlogged, RowsApart, TypeOK
  <2>3. CASE written' = [written EXCEPT ![r] = @ + 1] /\ UNCHANGED <<queued, buffer, dropped>>
    BY <2>1, <2>3 DEF Rows, RowsOf, UnbilledUnlogged, RowsApart, TypeOK
  <2> QED
    BY <2>2, <2>3 DEF EnqueueLog
<1> QED
  BY <1>1, <1>2, <1>3, <1>4, <1>5

\* The transaction of a bill has not ended: the bill is priced, and nothing is charged.
LEMMA Unpaid ==
  ASSUME Inv, NEW r \in Requests, bill[r] \in {"payWallet", "paySub"}
  PROVE  Price(r) \in Nat /\ result[r] = "none"
BY GroupsAssumption DEF Inv, Bills, BillOf, TypeOK, Price

LEMMA PayInv ==
  ASSUME Inv, NEW r \in Requests, Pay(r)
  PROVE  Inv'
<1>1. Price(r) \in Nat /\ result[r] = "none" /\ bill[r] \in {"payWallet", "paySub"}
  BY Unpaid DEF Pay
<1>2. quota \in Int /\ subUsed \in Nat /\ dbErrors \in Nat
  BY DEF Inv, TypeOK
<1> PICK s \in {"wallet", "subscription"} :
       /\ result' = [result EXCEPT ![r] = s]
       /\ s = "wallet" => quota' = quota - Price(r) /\ subUsed' = subUsed
       /\ s = "subscription" => quota' = quota /\ subUsed' = subUsed + Price(r)
  BY DEF Pay
<1>3. TypeOK' /\ Bills' /\ Open' /\ Rows' /\ ContextsHeld'
  <2>1. quota' \in Int /\ subUsed' \in Nat /\ dbErrors' \in Nat
    BY <1>1, <1>2 DEF Pay
  <2>2. EnqueueLog(r) /\ BillTo(r, "done") /\ UNCHANGED <<reqVars, priced, preference>>
    BY DEF Pay
  <2> QED
    BY <1>1, <2>1, <2>2, LoggedInv
<1>4. BooksBalance'
  <2> DEFINE o == IF s = "wallet" THEN "subscription" ELSE "wallet"
  <2>1. /\ \A x \in Requests : Amounts(s)[x] \in Nat /\ Amounts(s)'[x] \in Nat
        /\ \A x \in Requests \ {r} : Amounts(s)'[x] = Amounts(s)[x]
        /\ Amounts(s)[r] = 0 /\ Amounts(s)'[r] = Price(r)
    <3>1. \A x \in Requests : Amounts(s)[x] \in Nat
      BY AmountsType DEF Inv
    <3>2. /\ \A x \in Requests \ {r} : Amounts(s)'[x] = Amounts(s)[x]
          /\ Amounts(s)[r] = 0 /\ Amounts(s)'[r] = Price(r)
      BY <1>1 DEF Amounts, Price, Pay, Inv, TypeOK
    <3> QED
      BY <1>1, <3>1, <3>2
  <2>2. Paid(s)' = Paid(s) - 0 + Price(r)
    <3>0. PICK f, g : f = Amounts(s) /\ g = Amounts(s)'
      OBVIOUS
    <3>1. /\ \A x \in Requests : f[x] \in Nat /\ g[x] \in Nat
          /\ \A x \in Requests \ {r} : g[x] = f[x]
          /\ f[r] = 0 /\ g[r] = Price(r)
      BY <2>1, <3>0, Zenon
    <3>2. Sum(g, Requests) = Sum(f, Requests) - f[r] + g[r]
      BY <3>1, OneMorePaid
    <3> QED
      BY <3>0, <3>1, <3>2 DEF Paid
  <2>3. Amounts(o)' = Amounts(o)
    BY <1>1 DEF Amounts, Price, Pay, Inv, TypeOK
  <2>4. Paid(o)' = Paid(o)
    BY <2>3 DEF Paid
  <2>5. Paid("wallet") \in Nat /\ Paid("subscription") \in Nat
    BY AmountsType, UnitsFinite, RequestsFinite DEF Inv, Paid
  <2> QED
    BY <1>1, <1>2, <2>2, <2>4, <2>5, AmountsAssumption DEF BooksBalance, Inv
<1> QED
  BY <1>3, <1>4 DEF Inv

LEMMA CommitFailsInv ==
  ASSUME Inv, NEW r \in Requests, CommitFails(r)
  PROVE  Inv'
<1>1. result[r] = "none" /\ bill[r] \in {"payWallet", "paySub"}
  BY Unpaid DEF CommitFails
<1>2. quota' \in Int /\ subUsed' \in Nat /\ dbErrors' \in Nat /\ quota' = quota /\ subUsed' = subUsed
  BY DEF Inv, TypeOK, CommitFails, RolledBack, moneyVars
<1>3. TypeOK' /\ Bills' /\ Open' /\ Rows' /\ ContextsHeld'
  BY <1>1, <1>2, LoggedInv DEF CommitFails
<1>4. \A s \in {"wallet", "subscription"} : Amounts(s)' = Amounts(s)
  BY <1>1 DEF Amounts, Price, CommitFails, Inv, TypeOK
<1>5. BooksBalance'
  BY <1>2, <1>4 DEF BooksBalance, Paid, Inv
<1> QED
  BY <1>3, <1>5 DEF Inv

-----------------------------------------------------------------------------
(* flushWorker.                                                            *)

LEMMA FlushWorkerInv ==
  ASSUME Inv, (\E r \in Requests : Receive(r)) \/ Flush \/ FlushFails
  PROVE  Inv'
<1> USE DEF Inv
<1>1. UNCHANGED <<reqVars, billVars, moneyVars, preference>>
  BY DEF Receive, Flush, FlushFails
<1>2. TypeOK'
  BY <1>1 DEF TypeOK, Receive, Flush, FlushFails, Emptied, reqVars, billVars, moneyVars
<1>3. Bills' /\ ContextsHeld'
  BY <1>1 DEF Bills, BillOf, ContextsHeld, InHand, reqVars, billVars
<1>4. Open' /\ BooksBalance'
  BY <1>1, SameOpen, SameBooks DEF billVars, moneyVars
<1>5. Rows'
  <2> USE DEF Rows, RowsOf, UnbilledUnlogged, RowsApart, billVars, TypeOK
  <2>1. ASSUME NEW r \in Requests, Receive(r) PROVE Rows'
    BY <1>1, <2>1 DEF Receive
  <2>2. CASE Flush
    BY <1>1, <2>2 DEF Flush, Emptied
  <2>3. CASE FlushFails
    BY <1>1, <2>3 DEF FlushFails, Emptied
  <2> QED
    BY <2>1, <2>2, <2>3
<1> QED
  BY <1>2, <1>3, <1>4, <1>5

LEMMA UpdatePreferenceInv == ASSUME Inv, UpdatePreference PROVE Inv'
<1> USE DEF UpdatePreference, Inv, reqVars, billVars, moneyVars, logVars
<1>1. TypeOK'
  BY DEF TypeOK
<1>2. Bills' /\ ContextsHeld'
  BY DEF Bills, BillOf, ContextsHeld, InHand
<1> QED
  BY <1>1, <1>2, SameOpen, SameBooks, SameRows

-----------------------------------------------------------------------------
(* The theorems.                                                           *)

LEMMA NextInv == Inv /\ [Next]_vars => Inv'
<1> SUFFICES ASSUME Inv, [Next]_vars PROVE Inv'
  OBVIOUS
<1>1. ASSUME NEW r \in Requests, TakeContext(r) \/ Answer(r) \/ GiveUp(r) \/ Return(r) PROVE Inv'
  BY <1>1, TakeContextInv, AnswerInv, LeaveInv
<1>2. ASSUME NEW r \in Requests, NEW g \in Groups, TryChannel(r, g) PROVE Inv'
  BY <1>2, TryChannelInv
<1>3. ASSUME NEW r \in Requests, RecordConsumeLog(r) PROVE Inv'
  BY <1>3, ReadGroupInv, AskInv, PayInv DEF RecordConsumeLog
<1>4. ASSUME NEW r \in Requests, CommitFails(r) PROVE Inv'
  BY <1>4, CommitFailsInv
<1>5. CASE (\E r \in Requests : Receive(r)) \/ Flush \/ FlushFails
  BY <1>5, FlushWorkerInv
<1>6. CASE UpdatePreference
  BY <1>6, UpdatePreferenceInv
<1>7. CASE UNCHANGED vars
  <2> USE <1>7 DEF vars, Inv, logVars
  <2>1. TypeOK' /\ Bills' /\ ContextsHeld'
    BY DEF TypeOK, Bills, BillOf, ContextsHeld, InHand
  <2> QED
    BY <2>1, SameOpen, SameBooks, SameRows
<1> QED
  BY <1>1, <1>2, <1>3, <1>4, <1>5, <1>6, <1>7 DEF Next

\* One source is charged per request, by its price, every charge has one log row wherever it has
\* got to, and no more transactions are open than there are connections (RecordConsumeLog,
\* EnqueueLog, flushWorker).
THEOREM RequestsChargedAndLogged == Spec => []ChargedAndLogged
<1>1. Spec => []Inv
  BY InitInv, NextInv, PTL DEF Spec
<1> QED
  BY <1>1, InvImplies, PTL

\* A step prices a request by its channel's group, unless its handler has returned.
LEMMA PricedByHit ==
  ASSUME Inv, [Next]_vars, NEW r \in Requests, priced'[r] # priced[r], priced'[r] # hit[r]
  PROVE  at[r] = "gone"
<1>1. ASSUME NEW q \in Requests, ReadGroup(q) PROVE at[r] = "gone"
  <2>1. q = r /\ bill[r] = "read" /\ priced'[r] = IF key[ctx[r]] = Unset THEN Home ELSE key[ctx[r]]
    BY <1>1 DEF ReadGroup, Inv, TypeOK
  <2>2. at[r] \in {"answered", "gone"} /\ hit[r] # Unset
    BY <2>1 DEF Inv, Bills, BillOf
  <2>3. at[r] = "answered" => key[ctx[r]] = hit[r]
    BY <2>2 DEF Inv, ContextsHeld, InHand
  <2> QED
    BY <2>1, <2>2, <2>3
<1>2. ASSUME NEW q \in Requests, RecordConsumeLog(q), ~ReadGroup(q) PROVE priced' = priced
  BY <1>2 DEF RecordConsumeLog, BeginTx, ReadPreference, AskWallet, AskSubscription, Pay
<1>3. ASSUME NEW q \in Requests, \/ TakeContext(q) \/ Answer(q) \/ GiveUp(q) \/ Return(q)
                                 \/ CommitFails(q) \/ Receive(q) \/ \E g \in Groups : TryChannel(q, g)
      PROVE  priced' = priced
  BY <1>3 DEF TakeContext, Answer, GiveUp, Return, CommitFails, Receive, TryChannel, billVars
<1>4. CASE Flush \/ FlushFails \/ UpdatePreference \/ UNCHANGED vars
  BY <1>4 DEF Flush, FlushFails, UpdatePreference, billVars, vars
<1> QED
  BY <1>1, <1>2, <1>3, <1>4 DEF Next

\* A bill is computed from another group than the one that served the request only if the handler
\* had returned its gin.Context before RecordConsumeLog read it.
THEOREM WrongGroupNeedsReturn == Spec => WrongGroupOnlyAfterReturn
<1>1. Spec => []Inv
  BY InitInv, NextInv, PTL DEF Spec
<1>2. Inv /\ [Next]_vars =>
        [\A r \in Requests : priced'[r] # priced[r] /\ priced'[r] # hit[r] => at[r] = "gone"]_vars
  BY PricedByHit
<1> QED
  BY <1>1, <1>2, PTL DEF Spec, WrongGroupOnlyAfterReturn

---------------------------------------------------------------------------
\* A set of natural numbers has a least element.
LEMMA Below == IsWellFoundedOn({p \in Nat \X Nat : p[1] < p[2]}, Nat)
<1>1. {p \in Nat \X Nat : p[1] < p[2]} = OpToRel(<, Nat)  BY DEF OpToRel
<1> QED BY <1>1, NatLessThanWellFounded
LEMMA Least == ASSUME NEW S, S \subseteq Nat, S # {} PROVE \E n \in S : \A m \in S : n <= m
<1> DEFINE R == {p \in Nat \X Nat : p[1] < p[2]}
<1>1. IsWellFoundedOn(R, Nat)  BY Below
<1>2. \A m, n \in Nat : <<m, n>> \in R <=> m < n  OBVIOUS
<1> HIDE DEF R
<1>3. PICK n \in S : \A m \in S : <<m, n>> \notin R  BY <1>1, WFMin
<1>4. ASSUME NEW m \in S PROVE n <= m
  <2>1. m \in Nat /\ n \in Nat /\ <<m, n>> \notin R  BY <1>3
  <2>2. ~(m < n)  BY <1>2, <2>1
  <2> QED BY <2>1, <2>2
<1> QED BY <1>4

---------------------------------------------------------------------------
(* Breakers and risk: the inductive invariant. *)

LEMMA MoAssumed ==
  /\ None \notin Workers /\ None \notin Nat
  /\ Clock["MO"] \in Nat /\ Starts["MO"] \in Nat /\ SlidingWindow \in Nat /\ MaxFloor \in Nat /\ Cooldown \in Nat
  /\ Threshold \in Nat \ {0} /\ KeepHashes \in Nat /\ ProbeLen \in Nat /\ ProbeDistinct \in Nat
BY ServerAssumption

Breakers == {"tms", "guard"}
MoJobs == [pc : {"tms", "guard", "trigger"}, payload : Payloads, high : BOOLEAN, opened : Nat]
MoCircuits == [state : {"closed", "open", "half_open"}, failures : Nat, openedUntil : Nat]
MoRecords == [floor : Nat, count : Nat, last : Nat, decayed : Nat, probe : BOOLEAN, hashes : Seq(Payloads)]
MoTyped ==
  /\ now \in 0..Clock["MO"] /\ budget \in 0..Starts["MO"]
  /\ circuits \in [Breakers -> MoCircuits]
  /\ risk \in MoRecords \cup {None}
  /\ checks \in [Workers -> MoJobs \cup {MO!Idle}]
  /\ modHist \in [opened : [Breakers -> Nat], early : BOOLEAN, seen : SUBSET Payloads, since : Nat]
  /\ IsFiniteSet(modHist.seen)

StatesRight ==
  \A s \in Breakers :
    /\ circuits[s].state = "closed" <=> circuits[s].failures < Threshold
    /\ circuits[s].state = "half_open" => now > circuits[s].openedUntil

\* A check that looked after the last opening still meets a breaker that is not open.
LooksValid ==
  \A w \in Workers : checks[w].pc \in Breakers =>
    /\ checks[w].opened <= modHist.opened[checks[w].pc]
    /\ checks[w].opened = modHist.opened[checks[w].pc] => circuits[checks[w].pc].state # "open"

\* The payloads kept are among those seen since the last pause.
HashesOf(r) == {r.hashes[i] : i \in DOMAIN r.hashes}
RiskKept ==
  risk # None =>
    /\ risk.floor <= MaxFloor /\ risk.last = modHist.since
    /\ IF risk.probe THEN Cardinality(modHist.seen) >= ProbeDistinct ELSE HashesOf(risk) \subseteq modHist.seen

MoIInv == MoTyped /\ StatesRight /\ LooksValid /\ RiskKept /\ ~modHist.early

USE DEF Breakers

\* Moderation counts as FiniteSets does.
LEMMA MoCardinality == \A S : MO!Cardinality(S) = Cardinality(S)
BY DEF MO!Cardinality, Cardinality

LEMMA MoImplies == ASSUME MoIInv PROVE MO!BreakersAndRisk
<1> USE MoAssumed DEF MoIInv
<1>1. MO!TypeOK  BY DEF MoTyped, MO!TypeOK, MoCircuits
<1>2. DOMAIN circuits = Breakers  BY DEF MoTyped
<1>3. MO!GetTokenRiskFloor <= MaxFloor
  <2>1. CASE risk = None  BY <2>1 DEF MO!GetTokenRiskFloor
  <2>2. CASE risk # None
    <3>1. risk \in MoRecords /\ risk.floor \in Nat /\ risk.floor <= MaxFloor  BY <2>2 DEF MoTyped, RiskKept, MoRecords
    <3>2. risk.floor \div 2 <= risk.floor  BY <3>1
    <3>3. MO!Decayed(risk).floor \in {risk.floor, risk.floor \div 2}  BY <3>1 DEF MO!Decayed, MO!Halved, MoRecords
    <3> QED BY <2>2, <3>1, <3>2, <3>3 DEF MO!GetTokenRiskFloor
  <2> QED BY <2>1, <2>2
<1>4. MO!IsTokenProbing => Cardinality(modHist.seen) >= ProbeDistinct  BY DEF MO!IsTokenProbing, RiskKept
<1>5. MO!GetTokenTriggerCount > 0 => now - modHist.since <= SlidingWindow
  <2>1. CASE risk = None  BY <2>1 DEF MO!GetTokenTriggerCount
  <2>2. CASE risk # None
    <3>1. risk.last = modHist.since /\ modHist.since \in Nat /\ now \in Nat  BY <2>2 DEF MoTyped, RiskKept
    <3> QED BY <2>2, <3>1 DEF MO!GetTokenTriggerCount
  <2> QED BY <2>1, <2>2
<1>6. \A s \in DOMAIN circuits :
        /\ circuits[s].state = "closed" <=> circuits[s].failures < Threshold
        /\ circuits[s].state = "half_open" => now > circuits[s].openedUntil
  BY <1>2 DEF StatesRight
<1> QED BY <1>1, <1>3, <1>4, <1>5, <1>6, MoCardinality DEF MO!BreakersAndRisk

---------------------------------------------------------------------------
(* Breakers and risk: the steps. *)

LEMMA MoInit == ASSUME MO!Init PROVE MoIInv
<1> USE MoAssumed DEF MO!Init
<1>1. MO!Shut \in MoCircuits  BY DEF MO!Shut, MoCircuits
<1>2. MoTyped  BY <1>1, FS_EmptySet DEF MoTyped
<1>3. StatesRight  BY DEF StatesRight, MO!Shut
<1>4. LooksValid  BY DEF LooksValid, MO!Idle
<1> QED BY <1>2, <1>3, <1>4 DEF MoIInv, RiskKept

\* A job that ends, or goes on to the record, looks at no breaker.
Ends(w) ==
  \/ checks' = [checks EXCEPT ![w] = MO!Idle]
  \/ \E high \in BOOLEAN : checks' = [checks EXCEPT ![w] = [checks[w] EXCEPT !.pc = "trigger", !.high = high]]
LEMMA MoChecks ==
  ASSUME MoTyped, NEW w \in Workers, checks[w].pc # "idle", Ends(w)
  PROVE  /\ checks' \in [Workers -> MoJobs \cup {MO!Idle}]
         /\ \A u \in Workers : checks'[u].pc \in Breakers => checks'[u] = checks[u]
<1>1. checks[w] \in MoJobs  BY DEF MoTyped, MO!Idle
<1>2. CASE checks' = [checks EXCEPT ![w] = MO!Idle]  BY <1>2 DEF MoTyped, MO!Idle
<1>3. ASSUME NEW high \in BOOLEAN, checks' = [checks EXCEPT ![w] = [checks[w] EXCEPT !.pc = "trigger", !.high = high]]
      PROVE  /\ checks' \in [Workers -> MoJobs \cup {MO!Idle}]
             /\ \A u \in Workers : checks'[u].pc \in Breakers => checks'[u] = checks[u]
  <2> DEFINE j == [checks[w] EXCEPT !.pc = "trigger", !.high = high]
  <2>1. j \in MoJobs /\ j.pc = "trigger"  BY <1>1 DEF MoJobs
  <2>2. checks' = [checks EXCEPT ![w] = j]  BY <1>3
  <2> HIDE DEF j
  <2> QED BY <2>1, <2>2 DEF MoTyped
<1> QED BY <1>2, <1>3 DEF Ends

LEMMA MoFails ==
  ASSUME MoIInv, NEW s \in Breakers, MO!Failed(s), NEW w \in Workers, MO!At(w, s),
         checks' = [checks EXCEPT ![w] = MO!Idle], UNCHANGED <<now, budget, risk>>
  PROVE  MoIInv'
<1> USE MoAssumed DEF MoIInv
<1> DEFINE c == IF s = "tms" THEN MO!tmsRecordFailure(circuits[s]) ELSE MO!RecordCircuitFailure(circuits[s])
           n == modHist.opened[s] + 1
           opens == c.state = "open" /\ circuits[s].state # "open"
<1>1. circuits[s] \in MoCircuits /\ now \in Nat  BY DEF MoTyped
<1>2. /\ c \in MoCircuits /\ c.failures = circuits[s].failures + 1
      /\ IF c.failures >= Threshold THEN c.state = "open" ELSE c.state = circuits[s].state /\ c.openedUntil = circuits[s].openedUntil
  BY <1>1 DEF MO!tmsRecordFailure, MO!RecordCircuitFailure, MoCircuits
<1>3. /\ circuits' = [circuits EXCEPT ![s] = c]
      /\ modHist' = [modHist EXCEPT !.opened[s] = IF opens THEN n ELSE @]
  BY DEF MO!Failed
<1> HIDE DEF c
<1>4. /\ modHist'.opened \in [Breakers -> Nat] /\ modHist'.early = modHist.early
      /\ modHist'.seen = modHist.seen /\ modHist'.since = modHist.since
      /\ modHist'.opened[s] = IF opens THEN n ELSE modHist.opened[s]
      /\ \A t \in Breakers \ {s} : modHist'.opened[t] = modHist.opened[t]
      /\ modHist' \in [opened : [Breakers -> Nat], early : BOOLEAN, seen : SUBSET Payloads, since : Nat]
  BY <1>3 DEF MoTyped
<1>5. circuits' \in [Breakers -> MoCircuits] /\ circuits'[s] = c /\ \A t \in Breakers \ {s} : circuits'[t] = circuits[t]
  BY <1>2, <1>3 DEF MoTyped
<1>6. /\ checks' \in [Workers -> MoJobs \cup {MO!Idle}]
      /\ \A u \in Workers : checks'[u].pc \in Breakers => checks'[u] = checks[u]
  BY MoChecks DEF MO!At, Ends
<1>7. MoTyped'  BY <1>4, <1>5, <1>6 DEF MoTyped
<1>8. StatesRight'
  <2>1. circuits[s].state = "closed" <=> circuits[s].failures < Threshold  BY DEF StatesRight
  <2>2. circuits[s].failures \in Nat /\ c.failures \in Nat /\ c.state \in {"closed", "open", "half_open"}  BY <1>1, <1>2 DEF MoCircuits
  <2>3. c.state = "closed" <=> c.failures < Threshold  BY <1>2, <2>1, <2>2
  <2>4. c.state = "half_open" => now > c.openedUntil  BY <1>2, <2>2 DEF StatesRight
  <2> QED BY <1>5, <2>3, <2>4 DEF StatesRight
<1>9. LooksValid'
  <2> SUFFICES ASSUME NEW u \in Workers, checks'[u].pc \in Breakers
               PROVE  /\ checks'[u].opened <= modHist'.opened[checks'[u].pc]
                      /\ checks'[u].opened = modHist'.opened[checks'[u].pc] => circuits'[checks'[u].pc].state # "open"
    BY DEF LooksValid
  <2>1. checks'[u] = checks[u] /\ checks[u].pc \in Breakers /\ checks[u].opened \in Nat
    <3>1. checks'[u] = checks[u]  BY <1>6
    <3>2. checks[u] \in MoJobs  BY <3>1 DEF MoTyped, MO!Idle
    <3> QED BY <3>1, <3>2 DEF MoJobs
  <2>2. /\ checks[u].opened <= modHist.opened[checks[u].pc]
        /\ checks[u].opened = modHist.opened[checks[u].pc] => circuits[checks[u].pc].state # "open"
    BY <2>1 DEF LooksValid
  <2>3. modHist.opened[checks[u].pc] \in Nat /\ modHist.opened[s] \in Nat  BY <2>1 DEF MoTyped
  <2>4. CASE checks[u].pc = s  BY <1>4, <1>5, <2>1, <2>2, <2>3, <2>4
  <2>5. CASE checks[u].pc # s  BY <1>4, <1>5, <2>1, <2>2, <2>5
  <2> QED BY <2>4, <2>5
<1>10. RiskKept'  BY <1>4 DEF RiskKept, HashesOf
<1> QED BY <1>4, <1>7, <1>8, <1>9, <1>10

LEMMA MoSucceeds ==
  ASSUME MoIInv, NEW s \in Breakers, NEW w \in Workers, MO!At(w, s), MO!Succeeded(w, s), Ends(w),
         UNCHANGED <<now, budget, risk>>
  PROVE  MoIInv'
<1> USE MoAssumed DEF MoIInv
<1>1. MO!Shut \in MoCircuits  BY DEF MO!Shut, MoCircuits
<1>2. circuits' = [circuits EXCEPT ![s] = MO!Shut]  BY DEF MO!Succeeded, MO!tmsRecordSuccess, MO!RecordCircuitSuccess
<1>3. circuits' \in [Breakers -> MoCircuits] /\ circuits'[s] = MO!Shut /\ \A t \in Breakers \ {s} : circuits'[t] = circuits[t]
  BY <1>1, <1>2 DEF MoTyped
<1>4. ~(circuits[s].state = "open" /\ checks[w].opened = modHist.opened[s])  BY DEF MO!At, LooksValid
<1>5. modHist' = [modHist EXCEPT !.early = FALSE]
  <2>1. modHist' = [modHist EXCEPT !.early = modHist.early \/ (circuits[s].state = "open" /\ checks[w].opened = modHist.opened[s])]
    BY DEF MO!Succeeded
  <2>2. (modHist.early \/ (circuits[s].state = "open" /\ checks[w].opened = modHist.opened[s])) = FALSE  BY <1>4
  <2> QED BY <2>1, <2>2
<1>6. modHist' = modHist  BY <1>5 DEF MoTyped
<1>7. /\ checks' \in [Workers -> MoJobs \cup {MO!Idle}]
      /\ \A u \in Workers : checks'[u].pc \in Breakers => checks'[u] = checks[u]
  BY MoChecks DEF MO!At
<1>8. MoTyped'  BY <1>3, <1>6, <1>7 DEF MoTyped
<1>9. StatesRight'  BY <1>3 DEF StatesRight, MO!Shut
<1>10. LooksValid'  BY <1>3, <1>6, <1>7 DEF LooksValid, MO!Shut
<1>11. RiskKept'  BY <1>6 DEF RiskKept, HashesOf
<1> QED BY <1>6, <1>8, <1>9, <1>10, <1>11

LEMMA MoConsults == ASSUME MoIInv, NEW w \in Workers, NEW s \in Breakers, MO!Consult(w, s) PROVE MoIInv'
<1> USE MoAssumed DEF MoIInv
<1> DEFINE c == MO!Looked(s)
<1>1. circuits[s] \in MoCircuits /\ now \in Nat  BY DEF MoTyped
<1>2. /\ c \in MoCircuits /\ c.failures = circuits[s].failures /\ c.openedUntil = circuits[s].openedUntil
      /\ \/ c.state = circuits[s].state
         \/ circuits[s].state = "open" /\ c.state = "half_open" /\ now > c.openedUntil
  BY <1>1 DEF MO!Looked, MO!tmsCircuitState, MO!GetCircuitState, MoCircuits
<1>3. PICK p \in Payloads :
        checks' = [checks EXCEPT ![w] = IF c.state = "open" THEN MO!Idle
                                        ELSE [pc |-> s, payload |-> p, high |-> FALSE, opened |-> modHist.opened[s]]]
  BY DEF MO!Consult
<1>4. budget > 0 /\ budget' = budget - 1 /\ circuits' = [circuits EXCEPT ![s] = c] /\ UNCHANGED <<now, risk, modHist>>
  BY DEF MO!Consult
<1> HIDE DEF c
<1>5. circuits' \in [Breakers -> MoCircuits] /\ circuits'[s] = c /\ \A t \in Breakers \ {s} : circuits'[t] = circuits[t]
  BY <1>2, <1>4 DEF MoTyped
<1>6. checks' \in [Workers -> MoJobs \cup {MO!Idle}]
  <2>1. [pc |-> s, payload |-> p, high |-> FALSE, opened |-> modHist.opened[s]] \in MoJobs  BY DEF MoTyped, MoJobs
  <2> QED BY <1>3, <2>1 DEF MoTyped
<1>7. MoTyped'  BY <1>4, <1>5, <1>6 DEF MoTyped
<1>8. StatesRight'
  <2>1. circuits[s].failures \in Nat /\ (circuits[s].state = "closed" <=> circuits[s].failures < Threshold)  BY <1>1 DEF StatesRight, MoCircuits
  <2>2. c.state = "half_open" => now > c.openedUntil  BY <1>2 DEF StatesRight
  <2> QED BY <1>2, <1>4, <1>5, <2>1, <2>2 DEF StatesRight
<1>9. LooksValid'
  <2> SUFFICES ASSUME NEW u \in Workers, checks'[u].pc \in Breakers
               PROVE  /\ checks'[u].opened <= modHist.opened[checks'[u].pc]
                      /\ checks'[u].opened = modHist.opened[checks'[u].pc] => circuits'[checks'[u].pc].state # "open"
    BY <1>4 DEF LooksValid
  <2>1. CASE u = w
    <3>1. checks'[w] = IF c.state = "open" THEN MO!Idle
                       ELSE [pc |-> s, payload |-> p, high |-> FALSE, opened |-> modHist.opened[s]]
      BY <1>3 DEF MoTyped
    <3>2. c.state # "open" /\ checks'[w].pc = s /\ checks'[w].opened = modHist.opened[s]  BY <2>1, <3>1 DEF MO!Idle
    <3>3. modHist.opened[s] \in Nat  BY DEF MoTyped
    <3> QED BY <1>5, <2>1, <3>2, <3>3
  <2>2. CASE u # w
    <3>1. checks'[u] = checks[u]  BY <1>3, <2>2 DEF MoTyped
    <3>2. circuits'[checks[u].pc].state = "open" => circuits[checks[u].pc].state = "open"  BY <1>2, <1>5, <3>1
    <3> QED BY <3>1, <3>2 DEF LooksValid
  <2> QED BY <2>1, <2>2
<1>10. RiskKept'  BY <1>4 DEF RiskKept, HashesOf
<1> QED BY <1>4, <1>7, <1>8, <1>9, <1>10

\* What the windows that have passed leave of a record.
LEMMA Passed ==
  ASSUME NEW r \in MoRecords, now \in Nat
  PROVE  /\ MO!Decayed(MO!Forgotten(r)) \in MoRecords
         /\ MO!Decayed(MO!Forgotten(r)).floor <= r.floor
         /\ MO!Decayed(MO!Forgotten(r)).probe = r.probe
         /\ MO!Decayed(MO!Forgotten(r)).hashes = IF now - r.last > SlidingWindow THEN <<>> ELSE r.hashes
<1> DEFINE f == MO!Forgotten(r)
<1>1. <<>> \in Seq(Payloads)  OBVIOUS
<1>2. /\ f \in MoRecords /\ f.floor = r.floor /\ f.probe = r.probe
      /\ f.hashes = IF now - r.last > SlidingWindow THEN <<>> ELSE r.hashes
  BY <1>1 DEF MO!Forgotten, MoRecords
<1> HIDE DEF f
<1>3. f.floor \in Nat /\ f.floor \div 2 \in Nat /\ f.floor \div 2 <= f.floor  BY <1>2 DEF MoRecords
<1>4. /\ MO!Decayed(f) \in MoRecords /\ MO!Decayed(f).floor \in {f.floor, f.floor \div 2}
      /\ MO!Decayed(f).probe = f.probe /\ MO!Decayed(f).hashes = f.hashes
  BY <1>2, <1>3 DEF MO!Decayed, MO!Halved, MoRecords
<1> QED BY <1>2, <1>3, <1>4 DEF f

LEMMA MoTriggers == ASSUME MoIInv, NEW w \in Workers, MO!Trigger(w) PROVE MoIInv'
<1> USE MoAssumed DEF MoIInv
<1> DEFINE r0 == IF risk = None THEN [floor |-> 0, count |-> 0, last |-> now, decayed |-> now, probe |-> FALSE, hashes |-> <<>>] ELSE risk
           r == MO!Decayed(MO!Forgotten(r0))
           p == checks[w].payload
           long == Append(r.hashes, p)
           kept == IF Len(long) > KeepHashes THEN Tail(long) ELSE long
           probe == r.probe \/ (Len(kept) >= ProbeLen /\ MO!countUnique(kept) >= ProbeDistinct)
           f == MO!CapAt(r.floor + (IF checks[w].high THEN 2 ELSE 1), MaxFloor)
           fresh == risk = None \/ now - modHist.since > SlidingWindow
           seen1 == IF fresh THEN IF MO!IsTokenProbing THEN modHist.seen ELSE {p} ELSE modHist.seen \cup {p}
<1>1. checks[w] \in MoJobs /\ checks[w].pc = "trigger" /\ now \in Nat /\ p \in Payloads  BY DEF MO!Trigger, MO!At, MoTyped, MoJobs, MO!Idle
<1>2. /\ risk' = [r EXCEPT !.count = @ + 1, !.last = now, !.hashes = kept, !.floor = f, !.probe = probe]
      /\ modHist' = [modHist EXCEPT !.seen = seen1, !.since = now]
      /\ checks' = [checks EXCEPT ![w] = MO!Idle]
      /\ UNCHANGED <<now, budget, circuits>>
  BY DEF MO!Trigger, MO!RecordTokenTrigger
<1>3. r0 \in MoRecords /\ r0.floor <= MaxFloor
  <2>1. CASE risk = None
    <3>1. <<>> \in Seq(Payloads)  OBVIOUS
    <3> QED BY <1>1, <2>1, <3>1 DEF MoRecords
  <2>2. CASE risk # None  BY <2>2 DEF RiskKept, MoTyped
  <2> QED BY <2>1, <2>2
<1>4. /\ r \in MoRecords /\ r.probe = r0.probe
      /\ r.hashes = IF now - r0.last > SlidingWindow THEN <<>> ELSE r0.hashes
  BY <1>1, <1>3, Passed
<1>5. r0.last = now \/ (risk # None /\ r0.last = modHist.since)  BY DEF RiskKept
<1>6. HashesOf(r) = {} \/ (risk # None /\ ~fresh /\ r.hashes = risk.hashes)
  <2>1. CASE risk = None  BY <1>1, <1>4, <2>1 DEF HashesOf
  <2>2. CASE risk # None
    <3>1. r0 = risk /\ r0.last = modHist.since  BY <2>2 DEF RiskKept
    <3>2. CASE now - r0.last > SlidingWindow
      <4>1. r.hashes = <<>>  BY <1>4, <3>2
      <4> HIDE DEF r
      <4> QED BY <4>1 DEF HashesOf
    <3>3. CASE ~(now - r0.last > SlidingWindow)  BY <1>4, <2>2, <3>1, <3>3
    <3> QED BY <3>2, <3>3
  <2> QED BY <2>1, <2>2
<1>7. r.probe => MO!IsTokenProbing  BY <1>4 DEF MO!IsTokenProbing
<1>8. MO!IsTokenProbing => risk # None /\ r.probe /\ Cardinality(modHist.seen) >= ProbeDistinct
  BY <1>4 DEF MO!IsTokenProbing, RiskKept
<1> HIDE DEF r0, r
<1>9. r.hashes \in Seq(Payloads) /\ r.floor \in Nat /\ r.probe \in BOOLEAN  BY <1>4 DEF MoRecords
<1>10. kept \in Seq(Payloads) /\ {kept[i] : i \in DOMAIN kept} \subseteq HashesOf(r) \cup {p}
  <2>1. /\ long \in Seq(Payloads) /\ Len(long) = Len(r.hashes) + 1
        /\ \A i \in 1..Len(long) : long[i] = IF i <= Len(r.hashes) THEN r.hashes[i] ELSE p
    BY <1>1, <1>9
  <2>2. \A i \in 1..Len(long) : long[i] \in HashesOf(r) \cup {p}
    <3>1. DOMAIN r.hashes = 1..Len(r.hashes) /\ Len(r.hashes) \in Nat  BY <1>9
    <3> QED BY <2>1, <3>1 DEF HashesOf
  <2> HIDE DEF long
  <2>3. CASE Len(long) > KeepHashes
    <3>1. Len(long) > 0 /\ Len(long) \in Nat  BY <1>9, <2>1
    <3>2. Tail(long) \in Seq(Payloads) /\ Len(Tail(long)) = Len(long) - 1 /\ \A i \in 1..Len(Tail(long)) : Tail(long)[i] = long[i + 1]
      BY <2>1, <3>1
    <3>3. \A i \in 1..Len(Tail(long)) : Tail(long)[i] \in HashesOf(r) \cup {p}  BY <2>2, <3>1, <3>2
    <3> QED BY <2>3, <3>2, <3>3
  <2>4. CASE ~(Len(long) > KeepHashes)  BY <2>1, <2>2, <2>4
  <2> QED BY <2>3, <2>4
<1>11. probe \in BOOLEAN /\ f \in Nat /\ f <= MaxFloor  BY <1>1, <1>9 DEF MO!CapAt, MoJobs
<1>12. seen1 \in SUBSET Payloads /\ IsFiniteSet(seen1)
  <2>1. IsFiniteSet({p}) /\ IsFiniteSet(modHist.seen \cup {p})  BY FS_Singleton, FS_AddElement DEF MoTyped
  <2> QED BY <1>1, <2>1 DEF MoTyped
<1>13. probe => Cardinality(seen1) >= ProbeDistinct
  <2>1. CASE MO!IsTokenProbing
    <3>1. modHist.seen \subseteq seen1  BY <2>1
    <3>2. Cardinality(modHist.seen) <= Cardinality(seen1) /\ Cardinality(modHist.seen) \in Nat /\ Cardinality(seen1) \in Nat
      BY <1>12, <3>1, FS_Subset, FS_CardinalityType DEF MoTyped
    <3> QED BY <1>8, <2>1, <3>2
  <2>2. CASE ~MO!IsTokenProbing
    <3> SUFFICES ASSUME probe PROVE Cardinality(seen1) >= ProbeDistinct  OBVIOUS
    <3>1. ~r.probe  BY <1>7, <2>2
    <3>2. MO!countUnique(kept) >= ProbeDistinct  BY <3>1
    <3>3. HashesOf(r) \subseteq seen1  BY <1>6, <2>2 DEF RiskKept, MO!IsTokenProbing, HashesOf
    <3>4. p \in seen1  BY <2>2
    <3>5. {kept[i] : i \in DOMAIN kept} \subseteq seen1  BY <1>10, <3>3, <3>4
    <3> HIDE DEF kept, seen1
    <3>7. MO!countUnique(kept) = Cardinality({kept[i] : i \in DOMAIN kept})  BY MoCardinality DEF MO!countUnique
    <3>6. Cardinality({kept[i] : i \in DOMAIN kept}) <= Cardinality(seen1) /\ Cardinality(seen1) \in Nat
          /\ Cardinality({kept[i] : i \in DOMAIN kept}) \in Nat
      BY <1>12, <3>5, FS_Subset, FS_CardinalityType
    <3> QED BY <3>2, <3>6, <3>7
  <2> QED BY <2>1, <2>2
<1>14. ~probe => {kept[i] : i \in DOMAIN kept} \subseteq seen1
  <2> SUFFICES ASSUME ~probe PROVE {kept[i] : i \in DOMAIN kept} \subseteq seen1  OBVIOUS
  <2>1. ~r.probe /\ ~MO!IsTokenProbing  BY <1>8
  <2>2. HashesOf(r) \subseteq seen1 /\ p \in seen1  BY <1>6, <2>1 DEF RiskKept, MO!IsTokenProbing, HashesOf
  <2> QED BY <1>10, <2>2
<1> HIDE DEF kept, probe, f, seen1
<1>15. /\ risk' \in MoRecords /\ risk'.floor = f /\ risk'.last = now /\ risk'.probe = probe /\ risk'.hashes = kept
  <2>1. r \in MoRecords /\ kept \in Seq(Payloads) /\ f \in Nat /\ probe \in BOOLEAN /\ now \in Nat /\ r.count + 1 \in Nat
    BY <1>1, <1>4, <1>10, <1>11 DEF MoRecords
  <2>2. risk' = [r EXCEPT !.count = r.count + 1, !.last = now, !.hashes = kept, !.floor = f, !.probe = probe]  BY <1>2
  <2> QED BY <2>1, <2>2 DEF MoRecords
<1>16. /\ modHist'.seen = seen1 /\ modHist'.since = now /\ modHist'.opened = modHist.opened /\ modHist'.early = modHist.early
       /\ modHist' \in [opened : [Breakers -> Nat], early : BOOLEAN, seen : SUBSET Payloads, since : Nat]
  BY <1>1, <1>2, <1>12 DEF MoTyped
<1>17. /\ checks' \in [Workers -> MoJobs \cup {MO!Idle}]
       /\ \A u \in Workers : checks'[u].pc \in Breakers => checks'[u] = checks[u]
  BY <1>1, <1>2, MoChecks DEF Ends
<1>18. MoTyped'  BY <1>2, <1>12, <1>15, <1>16, <1>17 DEF MoTyped
<1>19. StatesRight' /\ LooksValid'  BY <1>2, <1>16, <1>17 DEF StatesRight, LooksValid
<1>20. RiskKept'  BY <1>11, <1>13, <1>14, <1>15, <1>16 DEF RiskKept, HashesOf
<1> QED BY <1>16, <1>18, <1>19, <1>20

LEMMA MoDetects == ASSUME MoIInv, NEW w \in Workers, MO!detectWithTimeout(w) PROVE MoIInv'
<1> USE DEF MoIInv
<1>1. PICK score \in {"none", "some", "high"}, refused \in BOOLEAN :
        IF refused /\ (score # "none" \/ MO!GetTokenRiskFloor > 0)
          THEN checks' = [checks EXCEPT ![w] = MO!Idle] /\ UNCHANGED <<circuits, modHist>>
          ELSE /\ MO!Succeeded(w, "guard")
               /\ checks' = [checks EXCEPT ![w] = IF score = "none" THEN MO!Idle ELSE [@ EXCEPT !.pc = "trigger", !.high = score = "high"]]
  BY DEF MO!detectWithTimeout
<1>2. MO!At(w, "guard") /\ UNCHANGED <<now, budget, risk>>  BY DEF MO!detectWithTimeout
<1>3. CASE checks' = [checks EXCEPT ![w] = MO!Idle] /\ UNCHANGED <<circuits, modHist>>
  <2>1. /\ checks' \in [Workers -> MoJobs \cup {MO!Idle}]
        /\ \A u \in Workers : checks'[u].pc \in Breakers => checks'[u] = checks[u]
    BY <1>2, <1>3, MoChecks DEF MO!At, Ends
  <2>2. MoTyped'  BY <1>2, <1>3, <2>1 DEF MoTyped
  <2> QED BY <1>2, <1>3, <2>1, <2>2 DEF StatesRight, LooksValid, RiskKept, HashesOf
<1>4. CASE /\ MO!Succeeded(w, "guard")
           /\ checks' = [checks EXCEPT ![w] = IF score = "none" THEN MO!Idle ELSE [@ EXCEPT !.pc = "trigger", !.high = score = "high"]]
  <2>1. CASE score = "none"  BY <1>2, <1>4, <2>1, MoSucceeds DEF Ends
  <2>2. CASE score # "none"
    <3> DEFINE high == score = "high"
               j == [checks[w] EXCEPT !.pc = "trigger", !.high = high]
    <3>1. checks' = [checks EXCEPT ![w] = j]  BY <1>4, <2>2
    <3>2. high \in BOOLEAN  OBVIOUS
    <3> HIDE DEF high
    <3>3. Ends(w)  BY <3>1, <3>2 DEF Ends
    <3> QED BY <1>2, <1>4, <3>3, MoSucceeds
  <2> QED BY <2>1, <2>2
<1> QED BY <1>1, <1>3, <1>4

LEMMA MoModerates == ASSUME MoIInv, NEW w \in Workers, MO!checkTencentModeration(w) PROVE MoIInv'
<1>1. PICK suggestion \in {"Block", "Review", "Pass"} :
        checks' = [checks EXCEPT ![w] = IF suggestion = "Review" THEN [@ EXCEPT !.pc = "trigger"] ELSE MO!Idle]
  BY DEF MO!checkTencentModeration
<1>2. MO!At(w, "tms") /\ MO!Succeeded(w, "tms") /\ UNCHANGED <<now, budget, risk>>  BY DEF MO!checkTencentModeration
<1>3. CASE suggestion = "Review"
  <2>1. checks[w] \in MoJobs  BY <1>2 DEF MoIInv, MoTyped, MO!At, MO!Idle
  <2>2. checks[w].high \in BOOLEAN /\ [checks[w] EXCEPT !.pc = "trigger"] = [checks[w] EXCEPT !.pc = "trigger", !.high = checks[w].high]
    BY <2>1 DEF MoJobs
  <2>3. checks' = [checks EXCEPT ![w] = [checks[w] EXCEPT !.pc = "trigger"]]  BY <1>1, <1>3
  <2>4. Ends(w)  BY <2>2, <2>3 DEF Ends
  <2> QED BY <1>2, <2>4, MoSucceeds
<1>4. CASE suggestion # "Review"  BY <1>1, <1>2, <1>4, MoSucceeds DEF Ends
<1> QED BY <1>3, <1>4

LEMMA MoClock == ASSUME MoIInv, MO!CleanupExpiredRisks \/ MO!Tick PROVE MoIInv'
<1> USE MoAssumed DEF MoIInv
<1>1. CASE MO!CleanupExpiredRisks
  BY <1>1 DEF MO!CleanupExpiredRisks, MoTyped, StatesRight, LooksValid, RiskKept
<1>2. CASE MO!Tick
  <2>1. now' = now + 1 /\ now < Clock["MO"] /\ UNCHANGED <<budget, circuits, risk, checks, modHist>>  BY <1>2 DEF MO!Tick
  <2>2. MoTyped'  BY <2>1 DEF MoTyped
  <2>3. StatesRight'
    <3>1. \A s \in Breakers : circuits[s].openedUntil \in Nat /\ now \in Nat  BY DEF MoTyped, MoCircuits
    <3> QED BY <2>1, <3>1 DEF StatesRight
  <2> QED BY <2>1, <2>2, <2>3 DEF LooksValid, RiskKept, HashesOf
<1> QED BY <1>1, <1>2

LEMMA MoStep == ASSUME MoIInv, MO!Next PROVE MoIInv'
<1>1. ASSUME NEW w \in Workers, MO!ModerateTextFails(w) PROVE MoIInv'
  BY <1>1, MoFails DEF MO!ModerateTextFails
<1>2. ASSUME NEW w \in Workers, MO!detectTimesOut(w) PROVE MoIInv'
  BY <1>2, MoFails DEF MO!detectTimesOut
<1> QED BY <1>1, <1>2, MoConsults, MoModerates, MoDetects, MoTriggers, MoClock DEF MO!Next

LEMMA MoStill == ASSUME MoIInv, UNCHANGED <<moVars, now, budget>> PROVE MoIInv'
BY DEF moVars, MoIInv, MoTyped, StatesRight, LooksValid, RiskKept, HashesOf

\* BreakersAndRisk: no breaker that is open lets a call through before its time, none is shut early
\* by a result that came late, and what a record says of a token is what its payloads were, for
\* any number of checks at a time, payloads, thresholds and windows.
THEOREM BreakersOpenAndRiskRemembered == ServerSpec => []BreakersAndRisk
<1> DEFINE I == part = "MO" => MoIInv
<1>1. ServerInit => I  BY MoInit DEF ServerInit, GatewayInit
<1>2. I /\ [ServerNext]_serverVars => I'
  <2> SUFFICES ASSUME I, [ServerNext]_serverVars PROVE I'  OBVIOUS
  <2>1. CASE part = "MO" /\ MO!Next /\ part' = part  BY <2>1, MoStep
  <2>2. CASE part' = part /\ part # "MO"  BY <2>2
  <2>3. CASE UNCHANGED serverVars  BY <2>3, MoStill DEF serverVars, gateway
  <2> QED BY <2>1, <2>2, <2>3 DEF ServerNext, AdministrationNext, GatewayNext
<1>3. I => BreakersAndRisk  BY MoImplies DEF BreakersAndRisk
<1> QED BY <1>1, <1>2, <1>3, PTL DEF ServerSpec

---------------------------------------------------------------------------
(* The cache of two copies: the inductive invariant. *)

HyJobs == [pc : {"mem"}, keys : {{k} : k \in HyKeys}, v : {1, 2}] \cup [pc : {"many"}, keys : SUBSET HyKeys, v : {0}]
HyCells == [v : {1, 2}, fresh : BOOLEAN]
HyTyped ==
  /\ hyBudget \in 0..Starts["HY"]
  /\ hyRedis \in [HyKeys -> {1, 2, None}]
  /\ hyMem \in [HyKeys -> {None} \cup HyCells]
  /\ writes \in [Workers -> HyJobs \cup {HY!Idle}]
  /\ hyHist \in [apart : SUBSET HyKeys, crowded : BOOLEAN]

\* What Redis has of a key that nobody writes, memory has, while its time is not over: Redis
\* drops an entry when its time is over, so only entries Redis no longer has are evicted.
Unwritten(k) == \A w \in Workers : k \notin writes[w].keys
Alike(k) == hyRedis[k] # None => hyMem[k] # None /\ hyMem[k].fresh /\ hyMem[k].v = hyRedis[k]
CopiesAlike == \A k \in HyKeys \ hyHist.apart : Unwritten(k) => Alike(k)
Bounded == Cardinality(HY!Held(hyMem)) > MaxEntries => hyHist.crowded

HyIInv == HyTyped /\ CopiesAlike /\ Bounded

LEMMA HyAssumed ==
  /\ IsFiniteSet(HyKeys) /\ Starts["HY"] \in Nat /\ MaxEntries \in Nat
  /\ None \notin [v : {1, 2}, fresh : BOOLEAN] /\ None \notin Nat
BY ServerAssumption

\* HybridCache counts as FiniteSets does.
LEMMA HyCardinality == \A S : HY!Cardinality(S) = Cardinality(S)
BY DEF HY!Cardinality, Cardinality

LEMMA HyImplies == ASSUME HyIInv PROVE HY!CacheInv
<1> USE HyAssumed DEF HyIInv
<1>1. HY!TypeOK  BY DEF HyTyped, HY!TypeOK, HyCells
<1>2. \A k \in HyKeys \ hyHist.apart :
        (\A w \in Workers : k \notin writes[w].keys) =>
          HY!Get(k) = IF hyMem[k] # None /\ hyMem[k].fresh THEN hyMem[k].v ELSE 0
  BY DEF CopiesAlike, Unwritten, Alike, HY!Get
<1>3. HY!Cardinality(HY!Held(hyMem)) > MaxEntries => hyHist.crowded  BY HyCardinality DEF Bounded
<1> QED BY <1>1, <1>2, <1>3 DEF HY!CacheInv

---------------------------------------------------------------------------
(* The cache of two copies: the steps. *)

\* Nothing is no entry.
LEMMA CellsThere == None \notin HyCells
BY ServerAssumption DEF HyCells

LEMMA HeldFinite == ASSUME NEW m PROVE IsFiniteSet(HY!Held(m)) /\ Cardinality(HY!Held(m)) \in Nat
<1>1. HY!Held(m) \in SUBSET HyKeys  BY DEF HY!Held
<1> QED BY <1>1, HyAssumed, FS_Subset, FS_CardinalityType

\* A memory that holds less than another is no fuller.
LEMMA HeldFewer ==
  ASSUME NEW m, NEW n, HY!Held(m) \subseteq HY!Held(n)
  PROVE  Cardinality(HY!Held(m)) <= Cardinality(HY!Held(n))
BY HeldFinite, FS_Subset

LEMMA HyInit == ASSUME HY!Init PROVE HyIInv
<1> USE HyAssumed DEF HY!Init
<1>1. HyTyped  BY DEF HyTyped
<1>2. CopiesAlike  BY DEF CopiesAlike, Alike
<1>3. HY!Held(hyMem) = {}  BY DEF HY!Held
<1>4. Cardinality(HY!Held(hyMem)) = 0  BY <1>3, FS_EmptySet
<1>5. Bounded  BY <1>4 DEF Bounded
<1> QED BY <1>1, <1>2, <1>5 DEF HyIInv

LEMMA HyRecords == ASSUME HyIInv, NEW w \in Workers, HY!RecordChannelAffinity(w) PROVE HyIInv'
<1> USE HyAssumed DEF HyIInv
<1>1. PICK k \in HyKeys, v \in {1, 2} :
        /\ writes' = [writes EXCEPT ![w] = [pc |-> "mem", keys |-> {k}, v |-> v]]
        /\ HY!SetRedis(k, v)
  BY DEF HY!RecordChannelAffinity
<1>2. hyMem' = hyMem /\ hyBudget > 0 /\ hyBudget' = hyBudget - 1 /\ writes[w] = HY!Idle
  BY DEF HY!RecordChannelAffinity, HY!Spend
<1>3. /\ hyRedis' \in [HyKeys -> {1, 2, None}] /\ \A j \in HyKeys \ {k} : hyRedis'[j] = hyRedis[j]
      /\ hyHist' \in [apart : SUBSET HyKeys, crowded : BOOLEAN] /\ hyHist'.crowded = hyHist.crowded
      /\ hyHist.apart \subseteq hyHist'.apart
  <2>1. \/ hyRedis' = [hyRedis EXCEPT ![k] = v] /\ UNCHANGED hyHist
        \/ UNCHANGED hyRedis /\ hyHist' = [hyHist EXCEPT !.apart = @ \cup {k}]
    BY <1>1 DEF HY!SetRedis
  <2>2. hyRedis \in [HyKeys -> {1, 2, None}] /\ hyHist \in [apart : SUBSET HyKeys, crowded : BOOLEAN]  BY DEF HyTyped
  <2>3. CASE hyRedis' = [hyRedis EXCEPT ![k] = v] /\ UNCHANGED hyHist  BY <2>2, <2>3
  <2>4. CASE UNCHANGED hyRedis /\ hyHist' = [hyHist EXCEPT !.apart = @ \cup {k}]  BY <2>2, <2>4
  <2> QED BY <2>1, <2>3, <2>4
<1>4. writes' \in [Workers -> HyJobs \cup {HY!Idle}] /\ writes'[w].keys = {k} /\ \A u \in Workers \ {w} : writes'[u] = writes[u]
  <2>1. [pc |-> "mem", keys |-> {k}, v |-> v] \in HyJobs  BY DEF HyJobs
  <2> QED BY <1>1, <2>1 DEF HyTyped
<1>5. HyTyped'  BY <1>2, <1>3, <1>4 DEF HyTyped
<1>6. CopiesAlike'
  <2> SUFFICES ASSUME NEW j \in HyKeys \ hyHist'.apart, Unwritten(j)' PROVE Alike(j)'  BY DEF CopiesAlike
  <2>1. j # k  BY <1>4 DEF Unwritten
  <2>2. Unwritten(j)  BY <1>2, <1>4 DEF Unwritten, HY!Idle
  <2> QED BY <1>2, <1>3, <2>1, <2>2 DEF CopiesAlike, Alike
<1> QED BY <1>2, <1>3, <1>5, <1>6 DEF Bounded

LEMMA HySets == ASSUME HyIInv, NEW w \in Workers, HY!SetMemory(w) PROVE HyIInv'
<1> USE HyAssumed DEF HyIInv
<1> DEFINE v == writes[w].v
<1>1. PICK k \in writes[w].keys, mem \in HY!Evicted(hyMem) :
        /\ hyMem' = [mem EXCEPT ![k] = [v |-> v, fresh |-> TRUE]]
        /\ hyHist' = [hyHist EXCEPT !.apart = IF HY!Alone(w, k) /\ hyRedis[k] = v THEN @ \ {k} ELSE @ \cup {k},
                                    !.crowded = @ \/ (HY!Cardinality(HY!Held(hyMem)) >= MaxEntries /\ \A j \in HY!Held(hyMem) : hyMem[j].fresh)]
  BY DEF HY!SetMemory
<1>2. writes[w].pc = "mem" /\ writes' = [writes EXCEPT ![w] = HY!Idle] /\ UNCHANGED <<hyBudget, hyRedis>>
  BY DEF HY!SetMemory
<1>3. v \in {1, 2} /\ k \in HyKeys /\ writes[w].keys = {k}
  <2>1. writes[w] \in HyJobs /\ writes[w].pc = "mem"  BY <1>2 DEF HyTyped, HY!Idle
  <2>2. writes[w] \in [pc : {"mem"}, keys : {{i} : i \in HyKeys}, v : {1, 2}]  BY <2>1 DEF HyJobs
  <2> QED BY <1>1, <2>2
<1> DEFINE Over == {j \in HY!Held(hyMem) : ~hyMem[j].fresh}
<1>5. \/ mem = hyMem /\ (Cardinality(HY!Held(hyMem)) < MaxEntries \/ Over = {})
      \/ \E j \in Over : mem = [hyMem EXCEPT ![j] = None]
  BY <1>1, HyCardinality DEF HY!Evicted
<1>6. mem \in [HyKeys -> {None} \cup HyCells] /\ \A j \in HyKeys : mem[j] # hyMem[j] => ~hyMem[j].fresh
  BY <1>5 DEF HyTyped, HY!Held
<1>7. hyMem' \in [HyKeys -> {None} \cup HyCells] /\ hyMem'[k] = [v |-> v, fresh |-> TRUE] /\ hyMem'[k] \in HyCells /\ \A j \in HyKeys \ {k} : hyMem'[j] = mem[j]
  <2>1. [v |-> v, fresh |-> TRUE] \in HyCells  BY <1>3 DEF HyCells
  <2> QED BY <1>1, <1>3, <1>6, <2>1
<1> DEFINE b == hyHist.crowded \/ (Cardinality(HY!Held(hyMem)) >= MaxEntries /\ \A j \in HY!Held(hyMem) : hyMem[j].fresh)
           a == IF HY!Alone(w, k) /\ hyRedis[k] = v THEN hyHist.apart \ {k} ELSE hyHist.apart \cup {k}
<1>8. hyHist' = [hyHist EXCEPT !.apart = a, !.crowded = b]  BY <1>1, HyCardinality
<1>9. b \in BOOLEAN /\ a \in SUBSET HyKeys  BY <1>3 DEF HyTyped
<1> HIDE DEF a, b
<1>10. hyHist' \in [apart : SUBSET HyKeys, crowded : BOOLEAN] /\ hyHist'.apart = a /\ hyHist'.crowded = b
  BY <1>8, <1>9 DEF HyTyped
<1>11. writes' \in [Workers -> HyJobs \cup {HY!Idle}] /\ writes'[w].keys = {} /\ \A u \in Workers \ {w} : writes'[u] = writes[u]
  BY <1>2 DEF HyTyped, HY!Idle
<1>12. HyTyped'  BY <1>2, <1>7, <1>10, <1>11 DEF HyTyped
<1>13. CopiesAlike'
  <2> SUFFICES ASSUME NEW j \in HyKeys \ a, Unwritten(j)' PROVE Alike(j)'  BY <1>10 DEF CopiesAlike
  <2>1. CASE j = k
    <3>1. hyRedis[k] = v  BY <2>1 DEF a
    <3>2. hyMem'[k] # None  BY <1>7, CellsThere
    <3> QED BY <1>2, <1>7, <2>1, <3>1, <3>2 DEF Alike
  <2>2. CASE j # k
    <3>1. j \notin hyHist.apart  BY <2>2 DEF a
    <3>2. Unwritten(j)  BY <1>3, <1>11, <2>2 DEF Unwritten
    <3>3. Alike(j)  BY <3>1, <3>2 DEF CopiesAlike
    <3> QED BY <1>2, <1>6, <1>7, <2>2, <3>3 DEF Alike
  <2> QED BY <2>1, <2>2
<1>14. Bounded'
  <2>1. HY!Held(hyMem') \subseteq HY!Held(mem) \cup {k}  BY <1>7 DEF HY!Held
  <2>2. IsFiniteSet(HY!Held(mem)) /\ Cardinality(HY!Held(mem)) \in Nat  BY HeldFinite
  <2>3. Cardinality(HY!Held(mem) \cup {k}) <= Cardinality(HY!Held(mem)) + 1 /\ IsFiniteSet(HY!Held(mem) \cup {k})
        /\ Cardinality(HY!Held(mem) \cup {k}) \in Nat
    <3> DEFINE T == HY!Held(mem)
    <3>1. IsFiniteSet(T) /\ Cardinality(T) \in Nat  BY <2>2
    <3> HIDE DEF T
    <3>2. IsFiniteSet(T \cup {k}) /\ Cardinality(T \cup {k}) = IF k \in T THEN Cardinality(T) ELSE Cardinality(T) + 1
      BY <3>1, FS_AddElement
    <3>3. Cardinality(T \cup {k}) \in Nat /\ Cardinality(T \cup {k}) <= Cardinality(T) + 1  BY <3>1, <3>2
    <3> QED BY <3>2, <3>3 DEF T
  <2>4. Cardinality(HY!Held(hyMem')) <= Cardinality(HY!Held(mem) \cup {k}) /\ Cardinality(HY!Held(hyMem')) \in Nat
    BY <2>1, <2>3, FS_Subset, HeldFinite
  <2>5. CASE mem = hyMem /\ Cardinality(HY!Held(hyMem)) < MaxEntries
    BY <2>2, <2>3, <2>4, <2>5 DEF Bounded
  <2>6. CASE mem = hyMem /\ Over = {} /\ ~(Cardinality(HY!Held(hyMem)) < MaxEntries)
    <3>1. Cardinality(HY!Held(hyMem)) >= MaxEntries  BY <2>6, HeldFinite
    <3>2. b  BY <2>6, <3>1 DEF b
    <3> QED BY <1>10, <3>2 DEF Bounded
  <2>7. ASSUME NEW j \in Over, mem = [hyMem EXCEPT ![j] = None] PROVE Bounded'
    <3>1. HY!Held(mem) = HY!Held(hyMem) \ {j} /\ j \in HY!Held(hyMem)  BY <2>7 DEF HyTyped, HY!Held
    <3>2. Cardinality(HY!Held(mem)) = Cardinality(HY!Held(hyMem)) - 1
      <4> DEFINE T == HY!Held(hyMem)
      <4>1. IsFiniteSet(T) /\ j \in T  BY <3>1, HeldFinite
      <4> HIDE DEF T
      <4>2. Cardinality(T \ {j}) = Cardinality(T) - 1  BY <4>1, FS_RemoveElement
      <4> QED BY <3>1, <4>2 DEF T
    <3>3. Cardinality(HY!Held(hyMem')) <= Cardinality(HY!Held(hyMem))  BY <2>2, <2>3, <2>4, <3>2, HeldFinite
    <3>4. hyHist.crowded => b  BY DEF b
    <3> QED BY <1>10, <2>4, <3>3, <3>4, HeldFinite DEF Bounded
  <2> QED BY <1>5, <2>5, <2>6, <2>7
<1> QED BY <1>12, <1>13, <1>14

LEMMA HyClears == ASSUME HyIInv, NEW w \in Workers, HY!ClearAffinityCacheAll(w) PROVE HyIInv'
<1> USE HyAssumed DEF HyIInv
<1>1. /\ writes[w] = HY!Idle /\ hyBudget > 0 /\ hyBudget' = hyBudget - 1
      /\ writes' = [writes EXCEPT ![w] = [pc |-> "many", keys |-> HY!Held(hyMem), v |-> 0]]
      /\ UNCHANGED <<hyRedis, hyMem, hyHist>>
  BY DEF HY!ClearAffinityCacheAll, HY!Spend
<1>2. [pc |-> "many", keys |-> HY!Held(hyMem), v |-> 0] \in HyJobs  BY DEF HyJobs, HY!Held
<1>3. writes' \in [Workers -> HyJobs \cup {HY!Idle}] /\ \A u \in Workers \ {w} : writes'[u] = writes[u]
  BY <1>1, <1>2 DEF HyTyped
<1>4. HyTyped'  BY <1>1, <1>3 DEF HyTyped
<1>5. \A k \in HyKeys : Unwritten(k)' => Unwritten(k)  BY <1>1, <1>3 DEF Unwritten, HY!Idle
<1> QED BY <1>1, <1>4, <1>5 DEF CopiesAlike, Alike, Bounded

LEMMA HyDeletes == ASSUME HyIInv, NEW w \in Workers, HY!DeleteMany(w) PROVE HyIInv'
<1> USE HyAssumed DEF HyIInv
<1> DEFINE S == writes[w].keys
<1>1. /\ hyMem' = [k \in HyKeys |-> IF k \in S THEN None ELSE hyMem[k]]
      /\ \/ /\ hyRedis' = [k \in HyKeys |-> IF k \in S THEN None ELSE hyRedis[k]]
            /\ hyHist' = [hyHist EXCEPT !.apart = (@ \ {k \in S : HY!Alone(w, k)}) \cup {k \in S : ~HY!Alone(w, k)}]
         \/ UNCHANGED hyRedis /\ hyHist' = [hyHist EXCEPT !.apart = @ \cup S]
      /\ writes' = [writes EXCEPT ![w] = HY!Idle] /\ hyBudget' = hyBudget
  BY DEF HY!DeleteMany
<1>2. S \subseteq HyKeys  BY DEF HyTyped, HyJobs, HY!Idle
<1>3. /\ hyMem' \in [HyKeys -> {None} \cup HyCells] /\ hyRedis' \in [HyKeys -> {1, 2, None}]
      /\ hyHist' \in [apart : SUBSET HyKeys, crowded : BOOLEAN] /\ hyHist'.crowded = hyHist.crowded
      /\ \A k \in HyKeys \ S : hyMem'[k] = hyMem[k] /\ hyRedis'[k] = hyRedis[k] /\ (k \in hyHist.apart => k \in hyHist'.apart)
      /\ \A k \in S : k \in hyHist'.apart \/ hyRedis'[k] = None
  <2> DEFINE A == {k \in S : HY!Alone(w, k)}
             B == {k \in S : ~HY!Alone(w, k)}
  <2>1. A \subseteq S /\ B \subseteq S  OBVIOUS
  <2>2. hyRedis \in [HyKeys -> {1, 2, None}] /\ hyHist \in [apart : SUBSET HyKeys, crowded : BOOLEAN]
        /\ hyMem \in [HyKeys -> {None} \cup HyCells]
    BY DEF HyTyped
  <2>3. hyMem' \in [HyKeys -> {None} \cup HyCells] /\ \A k \in HyKeys \ S : hyMem'[k] = hyMem[k]  BY <1>1, <2>2
  <2>4. \/ /\ hyRedis' = [k \in HyKeys |-> IF k \in S THEN None ELSE hyRedis[k]]
           /\ hyHist' = [hyHist EXCEPT !.apart = (@ \ A) \cup B]
        \/ UNCHANGED hyRedis /\ hyHist' = [hyHist EXCEPT !.apart = @ \cup S]
    BY <1>1
  <2> HIDE DEF A, B, S
  <2>5. CASE /\ hyRedis' = [k \in HyKeys |-> IF k \in S THEN None ELSE hyRedis[k]]
             /\ hyHist' = [hyHist EXCEPT !.apart = (@ \ A) \cup B]
    <3>1. hyRedis' \in [HyKeys -> {1, 2, None}] /\ (\A k \in HyKeys \ S : hyRedis'[k] = hyRedis[k]) /\ \A k \in S : hyRedis'[k] = None
      BY <1>2, <2>2, <2>5
    <3>2. hyHist' \in [apart : SUBSET HyKeys, crowded : BOOLEAN] /\ hyHist'.crowded = hyHist.crowded
          /\ hyHist'.apart = (hyHist.apart \ A) \cup B
      BY <1>2, <2>1, <2>2, <2>5
    <3> QED BY <2>1, <2>3, <3>1, <3>2
  <2>6. CASE UNCHANGED hyRedis /\ hyHist' = [hyHist EXCEPT !.apart = @ \cup S]  BY <1>2, <2>2, <2>3, <2>6
  <2> QED BY <2>4, <2>5, <2>6
<1>4. writes' \in [Workers -> HyJobs \cup {HY!Idle}] /\ writes'[w].keys = {} /\ \A u \in Workers \ {w} : writes'[u] = writes[u]
  BY <1>1 DEF HyTyped, HY!Idle
<1>5. HyTyped'  BY <1>1, <1>3, <1>4 DEF HyTyped
<1>6. CopiesAlike'
  <2> SUFFICES ASSUME NEW j \in HyKeys \ hyHist'.apart, Unwritten(j)' PROVE Alike(j)'  BY DEF CopiesAlike
  <2>1. CASE j \in S  BY <1>3, <2>1 DEF Alike
  <2>2. CASE j \notin S
    <3>1. Unwritten(j)  BY <1>4, <2>2 DEF Unwritten
    <3> QED BY <1>3, <2>2, <3>1 DEF CopiesAlike, Alike
  <2> QED BY <2>1, <2>2
<1>7. HY!Held(hyMem') \subseteq HY!Held(hyMem)  BY <1>1 DEF HY!Held
<1>8. Bounded'  BY <1>3, <1>7, HeldFewer, HeldFinite DEF Bounded
<1> QED BY <1>5, <1>6, <1>8

LEMMA HyElapses == ASSUME HyIInv, HY!Elapse PROVE HyIInv'
<1> USE HyAssumed DEF HyIInv
<1>1. PICK k \in HyKeys :
        /\ hyRedis' = [hyRedis EXCEPT ![k] = None]
        /\ hyMem' = IF hyMem[k] = None THEN hyMem ELSE [hyMem EXCEPT ![k].fresh = FALSE]
        /\ hyHist' = [hyHist EXCEPT !.apart = IF \E w \in Workers : k \in writes[w].keys THEN @ \cup {k} ELSE @ \ {k}]
        /\ UNCHANGED <<hyBudget, writes>>
  BY DEF HY!Elapse
<1>2. hyMem' \in [HyKeys -> {None} \cup HyCells] /\ \A j \in HyKeys \ {k} : hyMem'[j] = hyMem[j]
  <2>1. CASE hyMem[k] = None  BY <1>1, <2>1 DEF HyTyped
  <2>2. CASE hyMem[k] # None
    <3> DEFINE c == [hyMem[k] EXCEPT !.fresh = FALSE]
    <3>1. hyMem[k] \in HyCells  BY <2>2 DEF HyTyped
    <3>2. c \in HyCells  BY <3>1 DEF HyCells
    <3>3. hyMem' = [hyMem EXCEPT ![k] = c]  BY <1>1, <2>2
    <3> HIDE DEF c
    <3> QED BY <3>2, <3>3 DEF HyTyped
  <2> QED BY <2>1, <2>2
<1>3. /\ hyRedis' \in [HyKeys -> {1, 2, None}] /\ hyRedis'[k] = None /\ \A j \in HyKeys \ {k} : hyRedis'[j] = hyRedis[j]
      /\ hyHist' \in [apart : SUBSET HyKeys, crowded : BOOLEAN] /\ hyHist'.crowded = hyHist.crowded
      /\ \A j \in HyKeys \ {k} : j \in hyHist.apart => j \in hyHist'.apart
  BY <1>1 DEF HyTyped
<1>4. HyTyped'  BY <1>1, <1>2, <1>3 DEF HyTyped
<1>5. CopiesAlike'  BY <1>1, <1>2, <1>3 DEF CopiesAlike, Alike, Unwritten
<1>6. HY!Held(hyMem') \subseteq HY!Held(hyMem)
  <2> SUFFICES ASSUME NEW j \in HyKeys, hyMem'[j] # None PROVE hyMem[j] # None  BY DEF HY!Held
  <2> QED BY <1>1, <1>2
<1>7. Bounded'  BY <1>3, <1>6, HeldFewer, HeldFinite DEF Bounded
<1> QED BY <1>4, <1>5, <1>7

LEMMA HyCleans == ASSUME HyIInv, HY!cleanup PROVE HyIInv'
<1> USE HyAssumed DEF HyIInv
<1>1. hyMem' = [k \in HyKeys |-> IF hyMem[k] # None /\ ~hyMem[k].fresh THEN None ELSE hyMem[k]]
      /\ UNCHANGED <<hyBudget, hyRedis, writes, hyHist>>
  BY DEF HY!cleanup
<1>2. HyTyped'  BY <1>1 DEF HyTyped
<1>3. CopiesAlike'  BY <1>1 DEF CopiesAlike, Alike, Unwritten
<1>4. HY!Held(hyMem') \subseteq HY!Held(hyMem)  BY <1>1 DEF HY!Held
<1>5. Bounded'  BY <1>1, <1>4, HeldFewer, HeldFinite DEF Bounded
<1> QED BY <1>2, <1>3, <1>5

LEMMA HyRestarts == ASSUME HyIInv, HY!Restart PROVE HyIInv'
<1> USE HyAssumed DEF HyIInv
<1>1. /\ hyMem' = [k \in HyKeys |-> None] /\ writes' = [w \in Workers |-> HY!Idle]
      /\ hyHist' = [hyHist EXCEPT !.apart = @ \cup {k \in HyKeys : hyRedis[k] # None}, !.crowded = FALSE]
      /\ hyRedis' = hyRedis /\ hyBudget > 0 /\ hyBudget' = hyBudget - 1
  BY DEF HY!Restart, HY!Spend
<1>2. HyTyped'
  <2>1. hyHist' \in [apart : SUBSET HyKeys, crowded : BOOLEAN]  BY <1>1 DEF HyTyped
  <2>2. hyBudget' \in 0..Starts["HY"]  BY <1>1 DEF HyTyped
  <2> QED BY <1>1, <2>1, <2>2 DEF HyTyped
<1>3. CopiesAlike'  BY <1>1 DEF CopiesAlike, Alike, HyTyped
<1>4. HY!Held(hyMem') = {}  BY <1>1 DEF HY!Held
<1>5. Bounded'  BY <1>4, FS_EmptySet DEF Bounded
<1> QED BY <1>2, <1>3, <1>5

LEMMA HyStep == ASSUME HyIInv, HY!Next PROVE HyIInv'
BY HyRecords, HySets, HyClears, HyDeletes, HyElapses, HyCleans, HyRestarts DEF HY!Next

LEMMA HyStill == ASSUME HyIInv, UNCHANGED hyVars PROVE HyIInv'
BY DEF hyVars, HyIInv, HyTyped, CopiesAlike, Unwritten, Alike, Bounded

---------------------------------------------------------------------------
(* Remembered channels: moving an entry to the front. *)

LEMMA RemoveProps ==
  ASSUME NEW S, NEW s \in Seq(S), NEW i \in 1..Len(s)
  PROVE  /\ AF!RemoveAt(s, i) \in Seq(S) /\ Len(AF!RemoveAt(s, i)) = Len(s) - 1
         /\ \A j \in 1..Len(s) - 1 : AF!RemoveAt(s, i)[j] = IF j < i THEN s[j] ELSE s[j + 1]
<1> DEFINE a == SubSeq(s, 1, i - 1)
           b == SubSeq(s, i + 1, Len(s))
<1>1. Len(s) \in Nat /\ i - 1 \in Int /\ i + 1 \in Int /\ \A j \in 1..Len(s) : s[j] \in S  OBVIOUS
<1>2. a \in Seq(S) /\ Len(a) = i - 1 /\ \A j \in 1..i - 1 : a[j] = s[j]
  <2>1. /\ a \in Seq(S) /\ Len(a) = IF 1 <= i - 1 THEN i - 1 - 1 + 1 ELSE 0
        /\ \A j \in 1..i - 1 - 1 + 1 : a[j] = s[1 + j - 1]
    <3>1. \A j \in 1..i - 1 : s[j] \in S  BY <1>1
    <3> QED BY <1>1, <3>1, SubSeqProperties
  <2>2. \A j \in 1..i - 1 : 1 + j - 1 = j /\ j \in 1..i - 1 - 1 + 1  OBVIOUS
  <2> HIDE DEF a
  <2>3. Len(a) = i - 1  BY <2>1
  <2>4. \A j \in 1..i - 1 : a[j] = s[j]  BY <2>1, <2>2
  <2> QED BY <2>1, <2>3, <2>4
<1>3. b \in Seq(S) /\ Len(b) = Len(s) - i /\ \A j \in 1..Len(s) - i : b[j] = s[i + j]
  <2>1. /\ b \in Seq(S) /\ Len(b) = IF i + 1 <= Len(s) THEN Len(s) - (i + 1) + 1 ELSE 0
        /\ \A j \in 1..Len(s) - (i + 1) + 1 : b[j] = s[i + 1 + j - 1]
    <3>1. \A j \in i + 1..Len(s) : s[j] \in S  BY <1>1
    <3> QED BY <1>1, <3>1, SubSeqProperties
  <2>2. \A j \in 1..Len(s) - i : i + 1 + j - 1 = i + j /\ j \in 1..Len(s) - (i + 1) + 1  BY <1>1
  <2> HIDE DEF b
  <2>3. Len(b) = Len(s) - i  BY <1>1, <2>1
  <2>4. \A j \in 1..Len(s) - i : b[j] = s[i + j]  BY <2>1, <2>2
  <2> QED BY <2>1, <2>3, <2>4
<1>4. AF!RemoveAt(s, i) = a \o b  BY DEF AF!RemoveAt
<1> HIDE DEF a, b
<1>5. /\ a \o b \in Seq(S) /\ Len(a \o b) = Len(a) + Len(b)
      /\ \A j \in 1..Len(a) + Len(b) : (a \o b)[j] = IF j <= Len(a) THEN a[j] ELSE b[j - Len(a)]
  BY <1>2, <1>3, ConcatProperties
<1>6. Len(a) + Len(b) = Len(s) - 1  BY <1>1, <1>2, <1>3
<1>7. ASSUME NEW j \in 1..Len(s) - 1 PROVE (a \o b)[j] = IF j < i THEN s[j] ELSE s[j + 1]
  <2>1. (a \o b)[j] = IF j <= Len(a) THEN a[j] ELSE b[j - Len(a)]  BY <1>5, <1>6
  <2>2. CASE j < i  BY <1>2, <2>1, <2>2
  <2>3. CASE ~(j < i)
    <3>1. j - (i - 1) \in 1..Len(s) - i /\ i + (j - (i - 1)) = j + 1  BY <1>1, <2>3
    <3> QED BY <1>2, <1>3, <2>1, <2>3, <3>1
  <2> QED BY <2>2, <2>3
<1> QED BY <1>4, <1>5, <1>6, <1>7

LEMMA FrontProps ==
  ASSUME NEW S, NEW s \in Seq(S), NEW i \in 1..Len(s)
  PROVE  /\ DOMAIN AF!ToFront(s, i) = 1..Len(s) /\ AF!ToFront(s, i)[1] = s[i]
         /\ \A j \in 1..Len(s) : j # i => AF!ToFront(s, i)[IF j < i THEN j + 1 ELSE j] = s[j]
<1> DEFINE r == AF!RemoveAt(s, i)
           h == <<s[i]>>
<1>1. /\ r \in Seq(S) /\ Len(r) = Len(s) - 1
      /\ \A j \in 1..Len(s) - 1 : r[j] = IF j < i THEN s[j] ELSE s[j + 1]
  BY RemoveProps
<1>2. Len(s) \in Nat /\ h \in Seq(S) /\ Len(h) = 1 /\ h[1] = s[i]  OBVIOUS
<1>3. AF!ToFront(s, i) = h \o r  BY DEF AF!ToFront
<1> HIDE DEF r, h
<1>4. /\ h \o r \in Seq(S) /\ Len(h \o r) = Len(h) + Len(r)
      /\ \A j \in 1..Len(h) + Len(r) : (h \o r)[j] = IF j <= Len(h) THEN h[j] ELSE r[j - Len(h)]
  BY <1>1, <1>2, ConcatProperties
<1>5. Len(h) + Len(r) = Len(s)  BY <1>1, <1>2
<1>6. (h \o r)[1] = s[i]  BY <1>2, <1>4, <1>5
<1>7. ASSUME NEW j \in 1..Len(s), j # i PROVE (h \o r)[IF j < i THEN j + 1 ELSE j] = s[j]
  <2>1. CASE j < i
    <3>1. j + 1 \in 1..Len(s) /\ ~(j + 1 <= 1) /\ j + 1 - 1 = j /\ j \in 1..Len(s) - 1  BY <1>2, <2>1
    <3>2. (h \o r)[j + 1] = r[j + 1 - 1]  BY <1>2, <1>4, <1>5, <3>1
    <3>3. r[j] = s[j]  BY <1>1, <2>1, <3>1
    <3> QED BY <2>1, <3>1, <3>2, <3>3
  <2>2. CASE i < j
    <3>1. ~(j <= 1) /\ j - 1 \in 1..Len(s) - 1 /\ ~(j - 1 < i) /\ j - 1 + 1 = j  BY <1>2, <2>2
    <3>2. (h \o r)[j] = r[j - 1]  BY <1>2, <1>4, <1>5, <3>1
    <3>3. r[j - 1] = s[j]  BY <1>1, <3>1
    <3>4. (IF j < i THEN j + 1 ELSE j) = j  BY <2>2
    <3> QED BY <3>2, <3>3, <3>4
  <2>3. j \in Nat /\ i \in Nat  BY <1>2
  <2>4. j < i \/ i < j  BY <1>7, <2>3
  <2> QED BY <2>1, <2>2, <2>4
<1> QED BY <1>3, <1>4, <1>5, <1>6, <1>7

\* A route put together again from the three lists, with one channel in front.
Together(o) == [i \in DOMAIN o.chs |-> [ch |-> o.chs[i], model |-> o.models[i], group |-> o.groups[i]]]
RouteEntry == [ch : Nat \ {0}, model : STRING, group : STRING]
LEMMA RouteKept ==
  ASSUME NEW route \in Seq(RouteEntry), NEW id,
         NEW o, o = AF!prioritizeAffinityChannel(AF!Lists(route), id)
  PROVE  /\ AF!InFront(Together(o), route, id)
         /\ \A i \in DOMAIN o.chs : o.chs[i] \in Nat \ {0}
         /\ id = 0 => Together(o) = route
<1> DEFINE C == [i \in DOMAIN route |-> route[i].ch]
           M == [i \in DOMAIN route |-> route[i].model]
           G == [i \in DOMAIN route |-> route[i].group]
           n == Len(route)
           spots == {i \in 1..n : C[i] = id}
<1>1. n \in Nat /\ DOMAIN route = 1..n /\ \A i \in 1..n : route[i] \in RouteEntry  OBVIOUS
<1>2. /\ C \in Seq(Nat \ {0}) /\ Len(C) = n /\ M \in Seq(STRING) /\ Len(M) = n /\ G \in Seq(STRING) /\ Len(G) = n
      /\ DOMAIN C = 1..n
      /\ \A i \in 1..n : C[i] = route[i].ch /\ M[i] = route[i].model /\ G[i] = route[i].group
  BY <1>1 DEF RouteEntry
<1>3. AF!Lists(route) = [chs |-> C, models |-> M, groups |-> G]  BY DEF AF!Lists
<1>4. \A i \in 1..n : route[i] = [ch |-> C[i], model |-> M[i], group |-> G[i]]  BY <1>1 DEF RouteEntry
<1> HIDE DEF C, M, G, n
<1>5. AF!prioritizeAffinityChannel([chs |-> C, models |-> M, groups |-> G], id) =
        IF spots = {} THEN [chs |-> C, models |-> M, groups |-> G]
        ELSE LET i == CHOOSE i \in spots : \A j \in spots : i <= j
             IN  [chs |-> AF!ToFront(C, i), models |-> AF!ToFront(M, i), groups |-> AF!ToFront(G, i)]
  BY <1>2 DEF AF!prioritizeAffinityChannel
<1>6. CASE spots = {}
  <2>1. o = [chs |-> C, models |-> M, groups |-> G]  BY <1>3, <1>5, <1>6
  <2>2. Together(o) = [i \in 1..n |-> [ch |-> C[i], model |-> M[i], group |-> G[i]]]  BY <1>2, <2>1 DEF Together
  <2>3. Together(o) = route  BY <1>1, <1>4, <2>2
  <2> QED BY <1>2, <2>1, <2>3 DEF AF!InFront
<1>7. CASE spots # {}
  <2> DEFINE f == CHOOSE i \in spots : \A j \in spots : i <= j
  <2>1. \E i \in spots : \A j \in spots : i <= j
    <3>1. spots \subseteq Nat  BY <1>1
    <3> QED BY <1>7, <3>1, Least
  <2>2. f \in 1..n /\ C[f] = id  BY <2>1
  <2>3. o = [chs |-> AF!ToFront(C, f), models |-> AF!ToFront(M, f), groups |-> AF!ToFront(G, f)]  BY <1>3, <1>5, <1>7
  <2> HIDE DEF f
  <2>4. /\ DOMAIN AF!ToFront(C, f) = 1..n /\ AF!ToFront(C, f)[1] = C[f]
        /\ \A j \in 1..n : j # f => AF!ToFront(C, f)[IF j < f THEN j + 1 ELSE j] = C[j]
    BY <1>2, <2>2, FrontProps
  <2>5. /\ AF!ToFront(M, f)[1] = M[f]
        /\ \A j \in 1..n : j # f => AF!ToFront(M, f)[IF j < f THEN j + 1 ELSE j] = M[j]
    BY <1>2, <2>2, FrontProps
  <2>6. /\ AF!ToFront(G, f)[1] = G[f]
        /\ \A j \in 1..n : j # f => AF!ToFront(G, f)[IF j < f THEN j + 1 ELSE j] = G[j]
    BY <1>2, <2>2, FrontProps
  <2> DEFINE b == Together(o)
  <2>7. b = [i \in 1..n |-> [ch |-> AF!ToFront(C, f)[i], model |-> AF!ToFront(M, f)[i], group |-> AF!ToFront(G, f)[i]]]
    BY <2>3, <2>4 DEF Together
  <2> HIDE DEF b
  <2>8. b[1] = route[f]  BY <1>1, <1>4, <2>2, <2>4, <2>5, <2>6, <2>7
  <2>9. ASSUME NEW j \in 1..n, j # f PROVE b[IF j < f THEN j + 1 ELSE j] = route[j]
    <3> DEFINE p == IF j < f THEN j + 1 ELSE j
    <3>1. p \in 1..n  BY <1>1, <2>2
    <3>2. b[p] = [ch |-> AF!ToFront(C, f)[p], model |-> AF!ToFront(M, f)[p], group |-> AF!ToFront(G, f)[p]]  BY <2>7, <3>1
    <3>3. AF!ToFront(C, f)[p] = C[j] /\ AF!ToFront(M, f)[p] = M[j] /\ AF!ToFront(G, f)[p] = G[j]
      BY <2>4, <2>5, <2>6, <2>9
    <3> QED BY <1>4, <3>2, <3>3
  <2>10. Len(b) = n
    <3>1. b \in [1..n -> {b[i] : i \in 1..n}]  BY <2>7
    <3> QED BY <1>1, <3>1, LenProperties
  <2>11. route[f].ch = id  BY <1>2, <2>2
  <2>12. AF!InFront(b, route, id)  BY <1>1, <2>2, <2>8, <2>9, <2>10, <2>11 DEF AF!InFront, n
  <2>13. id # 0  BY <1>2, <2>2
  <2>14. ASSUME NEW i \in 1..n PROVE AF!ToFront(C, f)[i] \in Nat \ {0}
    <3>1. CASE i = 1  BY <1>2, <2>2, <2>4, <3>1
    <3>2. CASE i # 1 /\ i <= f
      <4>1. i - 1 \in 1..n /\ i - 1 # f /\ i - 1 < f /\ i - 1 + 1 = i  BY <1>1, <2>2, <3>2
      <4> QED BY <1>2, <2>4, <4>1
    <3>3. CASE i > f
      <4>1. i # f /\ ~(i < f)  BY <1>1, <2>2, <3>3
      <4> QED BY <1>2, <2>4, <4>1
    <3> QED BY <1>1, <2>2, <3>1, <3>2, <3>3
  <2> QED BY <2>3, <2>4, <2>12, <2>13, <2>14 DEF b
<1> QED BY <1>6, <1>7

---------------------------------------------------------------------------
(* Remembered channels: the inductive invariant. *)

AfEntries == [ch : Nat \ {0}, hit : Nat]
AfJob(j) ==
  \/ j = AF!Idle
  \/ /\ j.pc = "try" /\ j.route \in Offers /\ (j.using # "own" => j.id = 0)
     /\ j.order = AF!prioritizeAffinityChannel(AF!Lists(j.route), j.id)
  \/ j.pc = "get" /\ j.ch \in Nat \ {0}
  \/ j.pc = "set" /\ j.ch \in Nat \ {0} /\ j.seen \in AfEntries \cup {None}
  \/ j.pc = "del"
AfTyped ==
  /\ affBudget \in 0..Starts["AF"]
  /\ entries \in [CallGroups -> AfEntries \cup {None}]
  /\ \A g \in CallGroups \ {"own"} : entries[g] = None
  /\ affHist \in [count : Nat, lost : BOOLEAN]
  /\ DOMAIN routed = Workers /\ \A w \in Workers : AfJob(routed[w])

\* Each call may count once: what is counted, or is about to be, and the calls at work together
\* are no more than the requests there were.
Calling == {w \in Workers : routed[w].pc \in {"try", "get", "set"}}
Room == Starts["AF"] - affBudget - Cardinality(Calling)
Fits ==
  /\ affHist.count <= Room
  /\ \A g \in CallGroups : entries[g] # None => entries[g].hit <= Room /\ entries[g].hit > 0
  /\ \A w \in Workers : routed[w].pc = "set" /\ routed[w].seen # None => routed[w].seen.hit <= Room
Counted == ~affHist.lost => IF entries["own"] = None THEN affHist.count = 0 ELSE entries["own"].hit = affHist.count

AfIInv == AfTyped /\ Fits /\ Counted

LEMMA AfAssumed ==
  /\ IsFiniteSet(Workers) /\ Starts["AF"] \in Nat /\ "own" \in CallGroups
  /\ \A r \in Offers : r \in Seq([ch : Nat \ {0}, model : STRING, group : STRING])
  /\ None \notin [ch : Nat \ {0}, hit : Nat]
BY ServerAssumption

LEMMA CallingFinite == IsFiniteSet(Calling) /\ Cardinality(Calling) \in Nat
<1>1. Calling \in SUBSET Workers  BY DEF Calling
<1> QED BY <1>1, AfAssumed, FS_Subset, FS_CardinalityType

LEMMA AfImplies == ASSUME AfIInv PROVE AF!AffinityInv
<1> USE AfAssumed DEF AfIInv
<1>1. AF!TypeOK
  <2>1. affBudget \in 0..Starts["AF"] /\ affHist.count \in Nat /\ \A g \in CallGroups : entries[g] # None => entries[g].hit \in Nat
    BY DEF AfTyped, AfEntries
  <2>2. Room \in Int /\ Room <= Starts["AF"]  BY <2>1, CallingFinite DEF Room
  <2> QED BY <2>1, <2>2 DEF Fits, AF!TypeOK
<1>2. ASSUME NEW w \in Workers, AF!At(w, "try")
      PROVE  /\ AF!InFront(Together(routed[w].order), routed[w].route, routed[w].id)
             /\ routed[w].using # "own" => Together(routed[w].order) = routed[w].route
  <2>1. /\ routed[w].route \in Offers /\ (routed[w].using # "own" => routed[w].id = 0)
        /\ routed[w].order = AF!prioritizeAffinityChannel(AF!Lists(routed[w].route), routed[w].id)
    BY <1>2 DEF AfTyped, AfJob, AF!At, AF!Idle
  <2>2. routed[w].route \in Seq(RouteEntry)  BY <2>1 DEF RouteEntry
  <2> QED BY <2>1, <2>2, RouteKept
<1>3. entries["own"] # None /\ ~affHist.lost => entries["own"].hit = affHist.count  BY DEF Counted
<1> QED BY <1>1, <1>2, <1>3 DEF AF!AffinityInv, Together

---------------------------------------------------------------------------
(* Remembered channels: the steps. *)

LEMMA AfInit == ASSUME AF!Init PROVE AfIInv
<1> USE AfAssumed DEF AF!Init
<1>1. Calling = {}  BY DEF Calling, AF!Idle
<1>2. Room = 0  BY <1>1, FS_EmptySet DEF Room
<1>3. AfTyped  BY DEF AfTyped, AfJob
<1>4. Fits  BY <1>2 DEF Fits, AF!Idle
<1> QED BY <1>3, <1>4 DEF AfIInv, Counted

\* A step of one worker, who goes on with a job j: what it does to the calls at work.
LEMMA CallingMoves ==
  ASSUME AfTyped, NEW w \in Workers, NEW j, routed' = [routed EXCEPT ![w] = j]
  PROVE  /\ routed'[w] = j /\ \A u \in Workers \ {w} : routed'[u] = routed[u]
         /\ DOMAIN routed' = Workers
         /\ w \in Calling \/ j.pc \notin {"try", "get", "set"} => Cardinality(Calling)' <= Cardinality(Calling)
         /\ w \in Calling /\ j.pc \notin {"try", "get", "set"} => Cardinality(Calling)' = Cardinality(Calling) - 1
         /\ w \notin Calling => Cardinality(Calling)' <= Cardinality(Calling) + 1
         /\ Cardinality(Calling) \in Nat /\ Cardinality(Calling)' \in Nat
<1>1. routed'[w] = j /\ (\A u \in Workers \ {w} : routed'[u] = routed[u]) /\ DOMAIN routed' = Workers  BY DEF AfTyped
<1>2. Calling' = IF j.pc \in {"try", "get", "set"} THEN Calling \cup {w} ELSE Calling \ {w}  BY <1>1 DEF Calling
<1> DEFINE S == Calling
<1>3. IsFiniteSet(S) /\ Cardinality(S) \in Nat  BY CallingFinite
<1>4. (Calling)' = IF j.pc \in {"try", "get", "set"} THEN S \cup {w} ELSE S \ {w}  BY <1>2
<1>5. Cardinality(Calling)' = Cardinality(Calling')  OBVIOUS
<1> HIDE DEF S
<1>6. /\ Cardinality(S \cup {w}) = IF w \in S THEN Cardinality(S) ELSE Cardinality(S) + 1
      /\ Cardinality(S \ {w}) = IF w \in S THEN Cardinality(S) - 1 ELSE Cardinality(S)
  BY <1>3, FS_AddElement, FS_RemoveElement
<1>7. w \in S => Cardinality(S) # 0  BY <1>3, FS_EmptySet
<1>8. CASE j.pc \in {"try", "get", "set"}  BY <1>1, <1>3, <1>4, <1>5, <1>6, <1>8 DEF S
<1>9. CASE j.pc \notin {"try", "get", "set"}
  <2>1. Cardinality(Calling') = Cardinality(S \ {w})  BY <1>4, <1>9
  <2> QED BY <1>1, <1>3, <1>5, <1>6, <1>7, <1>9, <2>1 DEF S
<1> QED BY <1>8, <1>9

\* Where entries and counts stay and there is no less room, a job that fits keeps the invariant.
LEMMA AfGoes ==
  ASSUME AfIInv, NEW w \in Workers, NEW j, routed' = [routed EXCEPT ![w] = j], AfJob(j),
         UNCHANGED <<entries, affHist>>, affBudget' \in 0..Starts["AF"],
         \/ affBudget' = affBudget /\ (w \in Calling \/ j.pc \notin {"try", "get", "set"})
         \/ affBudget' = affBudget - 1,
         j.pc = "set" /\ j.seen # None => j.seen.hit <= Room
  PROVE  AfIInv'
<1> USE AfAssumed DEF AfIInv
<1>1. /\ routed'[w] = j /\ \A u \in Workers \ {w} : routed'[u] = routed[u]
      /\ DOMAIN routed' = Workers
      /\ w \in Calling \/ j.pc \notin {"try", "get", "set"} => Cardinality(Calling)' <= Cardinality(Calling)
      /\ w \notin Calling => Cardinality(Calling)' <= Cardinality(Calling) + 1
      /\ Cardinality(Calling) \in Nat /\ Cardinality(Calling)' \in Nat
  BY CallingMoves
<1>2. affBudget \in Int  BY DEF AfTyped
<1>3. Room' >= Room /\ Room \in Int /\ Room' \in Int
  <2>1. Room = Starts["AF"] - affBudget - Cardinality(Calling)  BY DEF Room
  <2>2. Room' = Starts["AF"] - affBudget' - Cardinality(Calling)'  BY DEF Room
  <2>3. Cardinality(Calling) \in Nat /\ Cardinality(Calling)' \in Nat /\ affBudget' \in Int  BY <1>1
  <2>4. CASE affBudget' = affBudget /\ Cardinality(Calling)' <= Cardinality(Calling)  BY <1>2, <2>1, <2>2, <2>3, <2>4
  <2>5. CASE affBudget' = affBudget - 1 /\ Cardinality(Calling)' <= Cardinality(Calling) + 1  BY <1>2, <2>1, <2>2, <2>3, <2>5
  <2>6. affBudget' = affBudget => w \in Calling \/ j.pc \notin {"try", "get", "set"}  BY <1>2
  <2>7. Cardinality(Calling)' <= Cardinality(Calling) + 1
    <3>1. CASE w \in Calling
      <4>1. Cardinality(Calling)' <= Cardinality(Calling)  BY <1>1, <3>1
      <4> QED BY <2>3, <4>1
    <3>2. CASE w \notin Calling  BY <1>1, <3>2
    <3> QED BY <3>1, <3>2
  <2> QED BY <1>1, <2>4, <2>5, <2>6, <2>7
<1>4. AfTyped'
  <2>1. \A u \in Workers : AfJob(routed'[u])  BY <1>1 DEF AfTyped
  <2>2. \A u \in Workers : AfJob(routed[u])' <=> AfJob(routed'[u])  BY DEF AfJob
  <2> QED BY <1>1, <2>1, <2>2 DEF AfTyped
<1>5. Fits'
  <2>1. affHist.count \in Nat /\ \A g \in CallGroups : entries[g] # None => entries[g].hit \in Nat  BY DEF AfTyped, AfEntries
  <2>2. \A u \in Workers : routed'[u].pc = "set" /\ routed'[u].seen # None => routed'[u].seen.hit \in Nat /\ routed'[u].seen.hit <= Room
    <3> SUFFICES ASSUME NEW u \in Workers, routed'[u].pc = "set", routed'[u].seen # None
                 PROVE  routed'[u].seen.hit \in Nat /\ routed'[u].seen.hit <= Room
      OBVIOUS
    <3>1. AfJob(routed'[u])  BY <1>1 DEF AfTyped
    <3>2. routed'[u].seen \in AfEntries  BY <3>1 DEF AfJob, AF!Idle
    <3> QED BY <1>1, <3>2 DEF Fits, AfEntries
  <2> QED BY <1>3, <2>1, <2>2 DEF Fits
<1>6. Counted'  BY DEF Counted
<1> QED BY <1>4, <1>5, <1>6

LEMMA AfSelects == ASSUME AfIInv, NEW w \in Workers, AF!SelectChannelWithAffinity(w) PROVE AfIInv'
<1> USE AfAssumed
<1>1. PICK route \in Offers, using \in CallGroups : \E id \in AF!getChannelAffinityChannelID(using) :
        routed' = [routed EXCEPT ![w] = [pc |-> "try", route |-> route, using |-> using, id |-> id,
                                         order |-> AF!prioritizeAffinityChannel(AF!Lists(route), id)]]
  BY DEF AF!SelectChannelWithAffinity, AF!Go
<1>2. PICK id \in AF!getChannelAffinityChannelID(using) :
        routed' = [routed EXCEPT ![w] = [pc |-> "try", route |-> route, using |-> using, id |-> id,
                                         order |-> AF!prioritizeAffinityChannel(AF!Lists(route), id)]]
  BY <1>1
<1>3. UNCHANGED <<entries, affHist>> /\ affBudget > 0 /\ affBudget' = affBudget - 1
  BY DEF AF!SelectChannelWithAffinity, AF!Spend
<1>4. using # "own" => id = 0  BY <1>2 DEF AF!getChannelAffinityChannelID, AfIInv, AfTyped
<1> DEFINE j == [pc |-> "try", route |-> route, using |-> using, id |-> id,
                 order |-> AF!prioritizeAffinityChannel(AF!Lists(route), id)]
<1>5. AfJob(j) /\ j.pc = "try"  BY <1>4 DEF AfJob
<1>6. routed' = [routed EXCEPT ![w] = j]  BY <1>2
<1> HIDE DEF j
<1>7. affBudget' \in 0..Starts["AF"]  BY <1>3 DEF AfIInv, AfTyped
<1> QED BY <1>3, <1>5, <1>6, <1>7, AfGoes

LEMMA AfServes == ASSUME AfIInv, NEW w \in Workers, AF!Served(w) PROVE AfIInv'
<1> USE AfAssumed
<1>1. routed[w].pc = "try" /\ UNCHANGED <<affBudget, entries, affHist>> /\ w \in Calling
  BY DEF AF!Served, AF!At, Calling
<1>2. affBudget' \in 0..Starts["AF"]  BY <1>1 DEF AfIInv, AfTyped
<1>3. CASE routed' = [routed EXCEPT ![w] = AF!Idle]
  <2>1. AfJob(AF!Idle) /\ AF!Idle.pc = "idle"  BY DEF AfJob, AF!Idle
  <2> QED BY <1>1, <1>2, <1>3, <2>1, AfGoes
<1>4. ASSUME NEW i \in DOMAIN routed[w].order.chs, routed' = [routed EXCEPT ![w] = [pc |-> "get", ch |-> routed[w].order.chs[i]]]
      PROVE  AfIInv'
  <2> DEFINE j == [pc |-> "get", ch |-> routed[w].order.chs[i]]
  <2>1. routed[w].route \in Seq(RouteEntry) /\ routed[w].order = AF!prioritizeAffinityChannel(AF!Lists(routed[w].route), routed[w].id)
    BY <1>1 DEF AfIInv, AfTyped, AfJob, AF!Idle, RouteEntry
  <2>2. routed[w].order.chs[i] \in Nat \ {0}  BY <1>4, <2>1, RouteKept
  <2>3. AfJob(j) /\ j.pc = "get"  BY <2>2 DEF AfJob
  <2>4. routed' = [routed EXCEPT ![w] = j]  BY <1>4
  <2> HIDE DEF j
  <2> QED BY <1>1, <1>2, <2>3, <2>4, AfGoes
<1> QED BY <1>3, <1>4 DEF AF!Served, AF!Go

LEMMA AfReads == ASSUME AfIInv, NEW w \in Workers, AF!upsertChannelAffinity(w) PROVE AfIInv'
<1> USE AfAssumed
<1>1. routed[w].pc = "get" /\ UNCHANGED <<affBudget, entries, affHist>> /\ w \in Calling
  BY DEF AF!upsertChannelAffinity, AF!At, Calling
<1>2. PICK seen \in {entries["own"], None} : routed' = [routed EXCEPT ![w] = [pc |-> "set", ch |-> routed[w].ch, seen |-> seen]]
  BY DEF AF!upsertChannelAffinity, AF!Go
<1>3. affBudget' \in 0..Starts["AF"] /\ routed[w].ch \in Nat \ {0} /\ seen \in AfEntries \cup {None}
  BY <1>1 DEF AfIInv, AfTyped, AfJob, AF!Idle
<1> DEFINE j == [pc |-> "set", ch |-> routed[w].ch, seen |-> seen]
<1>4. AfJob(j) /\ j.seen = seen  BY <1>3 DEF AfJob
<1>5. seen # None => seen.hit <= Room  BY DEF AfIInv, Fits
<1>6. routed' = [routed EXCEPT ![w] = j]  BY <1>2
<1> HIDE DEF j
<1> QED BY <1>1, <1>3, <1>4, <1>5, <1>6, AfGoes

LEMMA AfSets == ASSUME AfIInv, NEW w \in Workers, AF!SetEntry(w) PROVE AfIInv'
<1> USE AfAssumed DEF AfIInv
<1> DEFINE seen == routed[w].seen
           hits == IF seen = None THEN 1 ELSE seen.hit + 1
           e == [ch |-> routed[w].ch, hit |-> hits]
<1>1. routed[w].pc = "set" /\ routed' = [routed EXCEPT ![w] = AF!Idle] /\ affBudget' = affBudget /\ w \in Calling
  BY DEF AF!SetEntry, AF!At, AF!Go, Calling
<1>2. \/ UNCHANGED <<entries, affHist>>
      \/ /\ entries' = [entries EXCEPT !["own"] = e]
         /\ affHist' = [affHist EXCEPT !.count = @ + 1, !.lost = @ \/ seen # entries["own"]]
  BY DEF AF!SetEntry
<1>3. routed[w].ch \in Nat \ {0} /\ seen \in AfEntries \cup {None}  BY <1>1 DEF AfTyped, AfJob, AF!Idle
<1>4. AfJob(AF!Idle) /\ AF!Idle.pc = "idle"  BY DEF AfJob, AF!Idle
<1>5. CASE UNCHANGED <<entries, affHist>>
  <2>1. affBudget' \in 0..Starts["AF"]  BY <1>1 DEF AfTyped
  <2> QED BY <1>1, <1>4, <1>5, <2>1, AfGoes
<1>6. CASE /\ entries' = [entries EXCEPT !["own"] = e]
           /\ affHist' = [affHist EXCEPT !.count = @ + 1, !.lost = @ \/ seen # entries["own"]]
  <2>1. hits \in Nat /\ hits > 0 /\ e \in AfEntries /\ e.hit = hits  BY <1>3 DEF AfEntries
  <2>2. e # None  BY <2>1 DEF AfEntries
  <2>3. hits <= Room + 1
    <3>1. CASE seen = None
      <4>1. affHist.count \in Nat /\ affHist.count <= Room /\ Room \in Int  BY CallingFinite DEF AfTyped, Fits, Room
      <4> QED BY <3>1, <4>1
    <3>2. CASE seen # None
      <4>1. seen.hit <= Room /\ seen.hit \in Nat /\ Room \in Int  BY <1>1, <1>3, <3>2, CallingFinite DEF AfTyped, Fits, AfEntries, Room
      <4> QED BY <3>2, <4>1
    <3> QED BY <3>1, <3>2
  <2> DEFINE b == affHist.lost \/ seen # entries["own"]
             n == affHist.count + 1
  <2>4. b \in BOOLEAN /\ n \in Nat /\ affHist' = [affHist EXCEPT !.count = n, !.lost = b]  BY <1>6 DEF AfTyped
  <2>5. ~b => ~affHist.lost /\ seen = entries["own"]  OBVIOUS
  <2>6. seen = None => hits = 1  OBVIOUS
  <2>7. seen # None => hits = seen.hit + 1  OBVIOUS
  <2> HIDE DEF b, e, hits
  <2>8. affHist' \in [count : Nat, lost : BOOLEAN] /\ affHist'.count = n /\ affHist'.lost = b  BY <2>4 DEF AfTyped
  <2>9. entries' \in [CallGroups -> AfEntries \cup {None}] /\ entries'["own"] = e /\ \A g \in CallGroups \ {"own"} : entries'[g] = entries[g]
    BY <1>6, <2>1 DEF AfTyped
  <2>10. /\ routed'[w] = AF!Idle /\ \A u \in Workers \ {w} : routed'[u] = routed[u]
         /\ DOMAIN routed' = Workers
         /\ Cardinality(Calling)' = Cardinality(Calling) - 1
         /\ Cardinality(Calling) \in Nat /\ Cardinality(Calling)' \in Nat
    BY <1>1, <1>4, CallingMoves
  <2>11. Room' = Room + 1 /\ Room \in Int
    <3>1. Room = Starts["AF"] - affBudget - Cardinality(Calling)  BY DEF Room
    <3>2. Room' = Starts["AF"] - affBudget' - Cardinality(Calling)'  BY DEF Room
    <3>3. affBudget \in Int  BY DEF AfTyped
    <3> QED BY <1>1, <2>10, <3>1, <3>2, <3>3
  <2>12. AfTyped'
    <3>1. \A u \in Workers : AfJob(routed'[u])  BY <1>4, <2>10 DEF AfTyped
    <3>2. \A u \in Workers : AfJob(routed[u])' <=> AfJob(routed'[u])  BY DEF AfJob
    <3>3. affBudget' \in 0..Starts["AF"]  BY <1>1 DEF AfTyped
    <3>4. \A g \in CallGroups \ {"own"} : entries'[g] = None  BY <2>9 DEF AfTyped
    <3> QED BY <2>8, <2>9, <2>10, <3>1, <3>2, <3>3, <3>4 DEF AfTyped
  <2>13. Fits'
    <3>1. affHist'.count <= Room'
      <4>1. affHist.count <= Room /\ affHist.count \in Nat  BY DEF Fits, AfTyped
      <4> QED BY <2>8, <2>11, <4>1
    <3>2. \A g \in CallGroups : entries'[g] # None => entries'[g].hit <= Room' /\ entries'[g].hit > 0
      <4> SUFFICES ASSUME NEW g \in CallGroups, entries'[g] # None PROVE entries'[g].hit <= Room' /\ entries'[g].hit > 0  OBVIOUS
      <4>1. g = "own"  BY <2>9 DEF AfTyped
      <4> QED BY <2>1, <2>3, <2>9, <2>11, <4>1
    <3>3. \A u \in Workers : routed'[u].pc = "set" /\ routed'[u].seen # None => routed'[u].seen.hit <= Room'
      <4> SUFFICES ASSUME NEW u \in Workers, routed'[u].pc = "set", routed'[u].seen # None PROVE routed'[u].seen.hit <= Room'  OBVIOUS
      <4>1. routed'[u] = routed[u]  BY <1>4, <2>10
      <4>2. routed[u].seen.hit <= Room  BY <4>1 DEF Fits
      <4>3. routed[u].seen \in AfEntries  BY <4>1 DEF AfTyped, AfJob, AF!Idle
      <4>4. routed[u].seen.hit \in Nat  BY <4>3 DEF AfEntries
      <4> QED BY <2>11, <4>1, <4>2, <4>4
    <3> QED BY <3>1, <3>2, <3>3 DEF Fits
  <2>14. Counted'
    <3> SUFFICES ASSUME ~b PROVE hits = n  BY <2>1, <2>2, <2>8, <2>9 DEF Counted
    <3>1. ~affHist.lost /\ seen = entries["own"]  BY <2>5
    <3>2. CASE seen = None  BY <2>6, <3>1, <3>2 DEF Counted
    <3>3. CASE seen # None  BY <2>7, <3>1, <3>3 DEF Counted
    <3> QED BY <3>2, <3>3
  <2> QED BY <2>12, <2>13, <2>14
<1> QED BY <1>2, <1>5, <1>6

LEMMA AfClears == ASSUME AfIInv, NEW w \in Workers, AF!ClearChannelAffinityCache(w) PROVE AfIInv'
<1> USE AfAssumed
<1>1. UNCHANGED <<entries, affHist>> /\ affBudget > 0 /\ affBudget' = affBudget - 1
  BY DEF AF!ClearChannelAffinityCache, AF!Spend
<1>2. PICK j \in {[pc |-> "del", keys |-> AF!clearChannelAffinityCacheAll], AF!Idle} : routed' = [routed EXCEPT ![w] = j]
  BY DEF AF!ClearChannelAffinityCache, AF!Go
<1>3. AfJob(j) /\ j.pc \notin {"try", "get", "set"}  BY DEF AfJob, AF!Idle
<1>4. affBudget' \in 0..Starts["AF"]  BY <1>1 DEF AfIInv, AfTyped
<1> QED BY <1>1, <1>2, <1>3, <1>4, AfGoes

\* Forgetting entries, while nothing else moves.
LEMMA AfForgets ==
  ASSUME AfIInv, NEW S, AF!Forget(S), UNCHANGED <<affBudget, routed>>
  PROVE  AfIInv'
<1> USE AfAssumed DEF AfIInv
<1>1. /\ entries' = [g \in CallGroups |-> IF g \in S THEN None ELSE entries[g]]
      /\ affHist' = IF "own" \in S THEN [affHist EXCEPT !.count = 0, !.lost = FALSE] ELSE affHist
  BY DEF AF!Forget
<1>2. affHist' \in [count : Nat, lost : BOOLEAN] /\ affHist'.count <= affHist.count
      /\ ("own" \in S => affHist'.count = 0) /\ ("own" \notin S => affHist' = affHist)
  <2>1. affHist \in [count : Nat, lost : BOOLEAN]  BY DEF AfTyped
  <2>2. CASE "own" \in S
    <3>1. affHist' = [affHist EXCEPT !.count = 0, !.lost = FALSE]  BY <1>1, <2>2
    <3>2. affHist' = [count |-> 0, lost |-> FALSE]  BY <2>1, <3>1
    <3> QED BY <2>1, <2>2, <3>2
  <2>3. CASE "own" \notin S
    <3>1. affHist' = affHist  BY <1>1, <2>3
    <3> QED BY <2>1, <2>3, <3>1
  <2> QED BY <2>2, <2>3
<1>3. AfTyped'  BY <1>1, <1>2 DEF AfTyped, AfJob
<1>4. Room' = Room /\ Room \in Int
  <2>1. Cardinality(Calling)' = Cardinality(Calling)  BY DEF Calling
  <2> QED BY <2>1, CallingFinite DEF Room, AfTyped
<1>5. affHist.count \in Nat /\ affHist'.count \in Nat  BY <1>2 DEF AfTyped
<1>6. Fits'  BY <1>1, <1>2, <1>4, <1>5 DEF Fits
<1>7. Counted'  BY <1>1, <1>2 DEF Counted
<1> QED BY <1>3, <1>6, <1>7

LEMMA AfDeletes == ASSUME AfIInv, NEW w \in Workers, AF!DelKeys(w) PROVE AfIInv'
<1> USE AfAssumed DEF AfIInv
<1>1. routed[w].pc = "del" /\ routed' = [routed EXCEPT ![w] = AF!Idle] /\ affBudget' = affBudget
  BY DEF AF!DelKeys, AF!At, AF!Go
<1>2. AfJob(AF!Idle) /\ AF!Idle.pc = "idle"  BY DEF AfJob, AF!Idle
<1>3. /\ routed'[w] = AF!Idle /\ \A u \in Workers \ {w} : routed'[u] = routed[u]
      /\ DOMAIN routed' = Workers
  BY <1>1, CallingMoves
<1>4. Calling' = Calling  BY <1>1, <1>2, <1>3 DEF Calling
<1>5. Room' = Room  BY <1>1, <1>4 DEF Room
<1>6. \A u \in Workers : AfJob(routed'[u])  BY <1>2, <1>3 DEF AfTyped
<1>7. Room \in Int /\ affHist.count \in Nat  BY CallingFinite DEF Room, AfTyped
<1>8. PICK S \in {routed[w].keys, {}} :
        /\ entries' = [g \in CallGroups |-> IF g \in S THEN None ELSE entries[g]]
        /\ affHist' = IF "own" \in S THEN [affHist EXCEPT !.count = 0, !.lost = FALSE] ELSE affHist
  <2>1. CASE AF!Forget(routed[w].keys)  BY <2>1 DEF AF!Forget
  <2>2. CASE UNCHANGED <<entries, affHist>>
    <3>1. entries' = [g \in CallGroups |-> IF g \in {} THEN None ELSE entries[g]]  BY <2>2 DEF AfTyped
    <3> QED BY <2>2, <3>1
  <2> QED BY <2>1, <2>2 DEF AF!DelKeys
<1>9. affHist' \in [count : Nat, lost : BOOLEAN] /\ affHist'.count <= affHist.count
      /\ ("own" \in S => affHist'.count = 0) /\ ("own" \notin S => affHist' = affHist)
  <2>1. affHist \in [count : Nat, lost : BOOLEAN]  BY DEF AfTyped
  <2>2. CASE "own" \in S
    <3>1. affHist' = [affHist EXCEPT !.count = 0, !.lost = FALSE]  BY <1>8, <2>2
    <3>2. affHist' = [count |-> 0, lost |-> FALSE]  BY <2>1, <3>1
    <3> QED BY <2>1, <2>2, <3>2
  <2>3. CASE "own" \notin S
    <3>1. affHist' = affHist  BY <1>8, <2>3
    <3> QED BY <2>1, <2>3, <3>1
  <2> QED BY <2>2, <2>3
<1>10. AfTyped'
  <2>1. \A u \in Workers : AfJob(routed[u])' <=> AfJob(routed'[u])  BY DEF AfJob
  <2>2. entries' \in [CallGroups -> AfEntries \cup {None}] /\ \A g \in CallGroups \ {"own"} : entries'[g] = None  BY <1>8 DEF AfTyped
  <2>3. affBudget' \in 0..Starts["AF"]  BY <1>1 DEF AfTyped
  <2> QED BY <1>3, <1>6, <1>9, <2>1, <2>2, <2>3 DEF AfTyped
<1>11. Fits'
  <2>1. affHist'.count <= Room'
    <3>1. affHist.count <= Room /\ affHist'.count \in Nat  BY <1>9 DEF Fits
    <3> QED BY <1>5, <1>7, <1>9, <3>1
  <2>2. \A u \in Workers : routed'[u].pc = "set" => routed'[u] = routed[u]  BY <1>2, <1>3
  <2> QED BY <1>5, <1>8, <2>1, <2>2 DEF Fits
<1>12. Counted'  BY <1>8, <1>9 DEF Counted
<1> QED BY <1>10, <1>11, <1>12

LEMMA AfRestarts == ASSUME AfIInv, AF!Restart PROVE AfIInv'
<1> USE AfAssumed DEF AfIInv
<1>1. /\ affBudget > 0 /\ affBudget' = affBudget - 1 /\ routed' = [w \in Workers |-> AF!Idle]
      /\ UNCHANGED <<entries, affHist>>
  BY DEF AF!Restart, AF!Spend
<1>2. Calling' = {}  BY <1>1 DEF Calling, AF!Idle
<1>3. Cardinality(Calling)' = 0  BY <1>2, FS_EmptySet
<1>4. Room' >= Room /\ Room \in Int /\ Room' \in Int
  <2>1. Room = Starts["AF"] - affBudget - Cardinality(Calling)  BY DEF Room
  <2>2. Room' = Starts["AF"] - affBudget' - Cardinality(Calling)'  BY DEF Room
  <2>3. affBudget \in Int  BY DEF AfTyped
  <2> QED BY <1>1, <1>3, <2>1, <2>2, <2>3, CallingFinite
<1>5. AfTyped'
  <2>1. affBudget' \in 0..Starts["AF"]  BY <1>1 DEF AfTyped
  <2> QED BY <1>1, <2>1 DEF AfTyped, AfJob
<1>6. Fits'
  <2>1. affHist.count \in Nat /\ \A g \in CallGroups : entries[g] # None => entries[g].hit \in Nat  BY DEF AfTyped, AfEntries
  <2> QED BY <1>1, <1>4, <2>1 DEF Fits, AF!Idle
<1> QED BY <1>1, <1>5, <1>6 DEF Counted

LEMMA AfStep == ASSUME AfIInv, AF!Next PROVE AfIInv'
<1>1. CASE AF!ExpireEntry  BY <1>1, AfForgets DEF AF!ExpireEntry
<1> QED BY <1>1, AfSelects, AfServes, AfReads, AfSets, AfClears, AfDeletes, AfRestarts DEF AF!Next

LEMMA AfStill == ASSUME AfIInv, UNCHANGED afVars PROVE AfIInv'
BY DEF afVars, AfIInv, AfTyped, AfJob, Fits, Room, Calling, Counted

\* RememberedInv: a remembered channel changes the order of a route and nothing else, its count
\* counts, and the two copies of the cache answer alike, for any workers, routes, keys and limits.
THEOREM RememberedChannelsAreRight == ServerSpec => []RememberedInv
<1> DEFINE I == (part = "AF" => AfIInv) /\ (part = "HY" => HyIInv)
<1>1. ServerInit => I  BY AfInit, HyInit DEF ServerInit, GatewayInit
<1>2. I /\ [ServerNext]_serverVars => I'
  <2> SUFFICES ASSUME I, [ServerNext]_serverVars PROVE I'  OBVIOUS
  <2>1. CASE part = "AF" /\ AF!Next /\ part' = part  BY <2>1, AfStep
  <2>2. CASE part = "HY" /\ HY!Next /\ part' = part  BY <2>2, HyStep
  <2>3. CASE part' = part /\ part \notin {"AF", "HY"}  BY <2>3
  <2>4. CASE UNCHANGED serverVars  BY <2>4, AfStill, HyStill DEF serverVars, gateway
  <2> QED BY <2>1, <2>2, <2>3, <2>4 DEF ServerNext, AdministrationNext, GatewayNext
<1>3. I => RememberedInv  BY AfImplies, HyImplies DEF RememberedInv
<1> QED BY <1>1, <1>2, <1>3, PTL DEF ServerSpec

---------------------------------------------------------------------------
(* Keys of a channel: positions in what stays of a list. *)

LEMMA MkAssumed == IsFiniteSet(Secrets) /\ Starts["MK"] \in Nat /\ None \notin Workers
BY ServerAssumption

\* MultiKeys counts as FiniteSets does.
LEMMA MkCardinality == \A S : MK!Cardinality(S) = Cardinality(S)
BY DEF MK!Cardinality, MK!IsFiniteSet, Cardinality, IsFiniteSet

\* The elements of a set of positions up to one of them.
UpTo(S, i) == {j \in S : j <= i}
LEMMA UpToFinite ==
  ASSUME NEW n \in Nat, NEW S \in SUBSET (1..n)
  PROVE  /\ IsFiniteSet(S) /\ Cardinality(S) \in Nat /\ Cardinality(S) <= n
         /\ \A i \in S : Cardinality(UpTo(S, i)) \in 1..Cardinality(S)
         /\ \A i, k \in S : i # k => Cardinality(UpTo(S, i)) # Cardinality(UpTo(S, k))
<1>1. IsFiniteSet(1..n) /\ Cardinality(1..n) = n
  <2>1. IsFiniteSet(1..n) /\ Cardinality(1..n) = IF 1 > n THEN 0 ELSE n - 1 + 1  BY FS_Interval
  <2> QED BY <2>1
<1>2. IsFiniteSet(S) /\ Cardinality(S) <= n  BY <1>1, FS_Subset
<1>3. Cardinality(S) \in Nat  BY <1>2, FS_CardinalityType
<1>4. \A i : UpTo(S, i) \in SUBSET S  BY DEF UpTo
<1>5. \A i : IsFiniteSet(UpTo(S, i)) /\ Cardinality(UpTo(S, i)) <= Cardinality(S)  BY <1>2, <1>4, FS_Subset
<1>6. \A i : Cardinality(UpTo(S, i)) \in Nat  BY <1>5, FS_CardinalityType
<1>7. ASSUME NEW i \in S PROVE Cardinality(UpTo(S, i)) \in 1..Cardinality(S)
  <2>1. i \in UpTo(S, i)  BY DEF UpTo
  <2>2. Cardinality(UpTo(S, i)) # 0  BY <1>5, <2>1, FS_EmptySet
  <2> QED BY <1>3, <1>5, <1>6, <2>2
<1>8. ASSUME NEW i \in S, NEW k \in S, i < k PROVE Cardinality(UpTo(S, i)) # Cardinality(UpTo(S, k))
  <2> \A j \in S : j \in Int  OBVIOUS
  <2>1. UpTo(S, i) \in SUBSET UpTo(S, k)
    <3> SUFFICES ASSUME NEW j \in S, j <= i PROVE j <= k  BY DEF UpTo
    <3> QED BY <1>8
  <2>2. k \in UpTo(S, k) /\ k \notin UpTo(S, i)  BY <1>8 DEF UpTo
  <2>3. UpTo(S, i) # UpTo(S, k)  BY <2>2
  <2> QED BY <1>5, <2>1, <2>3, FS_Subset
<1>9. \A i, k \in S : i # k => i < k \/ k < i  OBVIOUS
<1> QED BY <1>2, <1>3, <1>7, <1>8, <1>9

\* Position(S, m) is the m-th element of S.
LEMMA PositionThere ==
  ASSUME NEW n \in Nat, NEW S \in SUBSET (1..n), NEW m \in 1..Cardinality(S)
  PROVE  MK!Position(S, m) \in S /\ Cardinality(UpTo(S, MK!Position(S, m))) = m
<1>1. /\ IsFiniteSet(S) /\ Cardinality(S) \in Nat
      /\ \A i \in S : Cardinality(UpTo(S, i)) \in 1..Cardinality(S)
      /\ \A i, k \in S : i # k => Cardinality(UpTo(S, i)) # Cardinality(UpTo(S, k))
  BY UpToFinite
<1> DEFINE T == 1..Cardinality(S)
           f == [i \in S |-> Cardinality(UpTo(S, i))]
<1>2. f \in Injection(S, T)  BY <1>1 DEF Injection, IsInjective
<1>3. IsFiniteSet(T) /\ Cardinality(T) = Cardinality(S)
  <2>1. IsFiniteSet(T) /\ Cardinality(T) = IF 1 > Cardinality(S) THEN 0 ELSE Cardinality(S) - 1 + 1  BY <1>1, FS_Interval
  <2> QED BY <1>1, <2>1
<1>4. f \in Surjection(S, T)
  <2> HIDE DEF f, T
  <2> QED BY <1>2, <1>3, FS_Injection
<1>5. \E i \in S : Cardinality(UpTo(S, i)) = m  BY <1>4 DEF Surjection
<1>6. MK!Position(S, m) = CHOOSE i \in S : Cardinality(UpTo(S, i)) = m  BY MkCardinality DEF MK!Position, UpTo
<1> QED BY <1>5, <1>6

---------------------------------------------------------------------------
(* Keys of a channel: the inductive invariant. *)

KeyList(l) == \E n \in Nat : 0 < n /\ n <= Cardinality(Secrets) /\ l \in [1..n -> Secrets] /\ \A i, j \in 1..n : i # j => l[i] # l[j]
KeyRow(r) ==
  /\ r = [keys |-> r.keys, status |-> r.status] /\ KeyList(r.keys)
  /\ r.status = [i \in DOMAIN r.status |-> r.status[i]] /\ DOMAIN r.status \subseteq Nat
KeyJob(j) == j = MK!Idle \/ \E c : KeyRow(c) /\ (j = [pc |-> "lock", copy |-> c] \/ j = [pc |-> "act", copy |-> c])

\* Every status has its key, and the keys that are off are those of the statuses.
InStep(row, off) == DOMAIN row.status \subseteq DOMAIN row.keys /\ MK!OffOf(row) = off
MkIInv ==
  /\ budget \in 0..Starts["MK"] /\ keyLock \in Workers \cup {None}
  /\ KeyRow(keyRow)
  /\ keyHist \in [stale : BOOLEAN, edited : BOOLEAN, off : SUBSET Secrets]
  /\ DOMAIN requests = Workers /\ \A w \in Workers : KeyJob(requests[w])
  /\ \A w \in Workers : requests[w].pc = "act" => keyLock = w
  /\ ~keyHist.stale /\ ~keyHist.edited => InStep(keyRow, keyHist.off)

LEMMA ListsAre == \A l : l \in MK!Lists <=> KeyList(l)
<1>1. MK!Cardinality(Secrets) = Cardinality(Secrets) /\ Cardinality(Secrets) \in Nat
  BY MkCardinality, MkAssumed, FS_CardinalityType
<1>2. ASSUME NEW l, l \in MK!Lists PROVE KeyList(l)
  <2>1. PICK n \in 1..MK!Cardinality(Secrets) : l \in {x \in [1..n -> Secrets] : \A i, j \in 1..n : i # j => x[i] # x[j]}
    BY <1>2 DEF MK!Lists
  <2> QED BY <1>1, <2>1 DEF KeyList
<1>3. ASSUME NEW l, KeyList(l) PROVE l \in MK!Lists
  <2>1. PICK n \in Nat : 0 < n /\ n <= Cardinality(Secrets) /\ l \in [1..n -> Secrets] /\ \A i, j \in 1..n : i # j => l[i] # l[j]
    BY <1>3 DEF KeyList
  <2>2. n \in 1..MK!Cardinality(Secrets)  BY <1>1, <2>1
  <2>3. l \in {x \in [1..n -> Secrets] : \A i, j \in 1..n : i # j => x[i] # x[j]}  BY <2>1
  <2> QED BY <2>2, <2>3 DEF MK!Lists
<1> QED BY <1>2, <1>3

LEMMA ListThere == ASSUME NEW l, KeyList(l) PROVE l # <<>>
<1>1. PICK n \in Nat : 0 < n /\ l \in [1..n -> Secrets]  BY DEF KeyList
<1>2. 1 \in DOMAIN l  BY <1>1
<1> QED BY <1>2

LEMMA MkImplies == ASSUME MkIInv PROVE MK!MultiKeyInv
<1> USE DEF MkIInv
<1>1. keyRow.keys \in MK!Lists /\ keyRow.keys # <<>>  BY ListsAre, ListThere DEF KeyRow
<1>2. MK!TypeOK  BY <1>1 DEF MK!TypeOK, KeyRow
<1>3. \A w \in Workers : MK!At(w, "act") => keyLock = w  BY DEF MK!At
<1> QED BY <1>1, <1>2, <1>3 DEF MK!MultiKeyInv, InStep

---------------------------------------------------------------------------
(* Keys of a channel: what a request makes of a row. *)

\* What is right of a result r of a copy c: a row again, and in step if the copy was.
Outcome(c, r) == {k \in {r.keys[i] : i \in DOMAIN r.keys} :
                    IF r.keys = c.keys THEN k \in MK!OffOf(r) ELSE r.status # MK!AllOn /\ k \in MK!OffOf(c)}
RightResult(c, r) ==
  /\ KeyRow(r)
  /\ DOMAIN c.status \subseteq DOMAIN c.keys => InStep(r, Outcome(c, r))

\* The same keys and other statuses.
LEMMA SameKeys ==
  ASSUME NEW c, KeyRow(c), NEW st, st = [i \in DOMAIN st |-> st[i]], DOMAIN st \subseteq Nat,
         DOMAIN c.status \subseteq DOMAIN c.keys => DOMAIN st \subseteq DOMAIN c.keys
  PROVE  RightResult(c, [keys |-> c.keys, status |-> st])
<1> DEFINE r == [keys |-> c.keys, status |-> st]
<1>1. r.keys = c.keys /\ r.status = st /\ r = [keys |-> r.keys, status |-> r.status]  OBVIOUS
<1> HIDE DEF r
<1>2. KeyRow(r)  BY <1>1 DEF KeyRow
<1>3. MK!OffOf(r) \subseteq {r.keys[i] : i \in DOMAIN r.keys}  BY DEF MK!OffOf
<1>4. Outcome(c, r) = MK!OffOf(r)  BY <1>1, <1>3 DEF Outcome
<1> QED BY <1>1, <1>2, <1>4 DEF RightResult, InStep, r

\* Without statuses, whatever the list.
LEMMA NoneOff ==
  ASSUME NEW c, NEW l, KeyList(l)
  PROVE  RightResult(c, [keys |-> l, status |-> MK!AllOn])
<1> DEFINE r == [keys |-> l, status |-> MK!AllOn]
<1>1. r.keys = l /\ r.status = MK!AllOn /\ r = [keys |-> r.keys, status |-> r.status]  OBVIOUS
<1>2. DOMAIN MK!AllOn = {} /\ MK!AllOn = [i \in DOMAIN MK!AllOn |-> MK!AllOn[i]]  BY DEF MK!AllOn
<1> HIDE DEF r
<1>3. MK!OffOf(r) = {}  BY <1>1, <1>2 DEF MK!OffOf
<1>4. Outcome(c, r) = {}  BY <1>1, <1>3 DEF Outcome
<1> QED BY <1>1, <1>2, <1>3, <1>4 DEF RightResult, InStep, KeyRow, r

\* Some keys go, and some stay.
LEMMA SomeStay ==
  ASSUME NEW c, KeyRow(c), NEW S, S \subseteq DOMAIN c.keys, S # {}, S # DOMAIN c.keys,
         NEW r, r = MK!Shrink(c, S).row
  PROVE  RightResult(c, r)
<1>1. PICK n \in Nat : 0 < n /\ n <= Cardinality(Secrets) /\ c.keys \in [1..n -> Secrets] /\ \A i, j \in 1..n : i # j => c.keys[i] # c.keys[j]
  BY DEF KeyRow, KeyList
<1> DEFINE m == Cardinality(S)
           P(i) == MK!Position(S, i)
           L == [i \in 1..m |-> c.keys[P(i)]]
           D == {i \in 1..m : P(i) \in DOMAIN c.status}
           T == [i \in D |-> c.status[P(i)]]
<1>2. S \in SUBSET (1..n) /\ DOMAIN c.keys = 1..n  BY <1>1
<1>3. m \in Nat /\ m <= n /\ IsFiniteSet(S)  BY <1>2, UpToFinite
<1>4. 0 < m
  <2>1. Cardinality(S) # 0  BY <1>3, FS_EmptySet
  <2> QED BY <1>3, <2>1
<1>5. m # n
  <2>1. IsFiniteSet(1..n) /\ Cardinality(1..n) = IF 1 > n THEN 0 ELSE n - 1 + 1  BY FS_Interval
  <2>2. Cardinality(1..n) = n  BY <1>1, <2>1
  <2> QED BY <1>2, <2>1, <2>2, FS_Subset
<1>6. \A i \in 1..m : P(i) \in S /\ Cardinality(UpTo(S, P(i))) = i  BY <1>2, PositionThere
<1>7. \A i \in 1..m : P(i) \in 1..n  BY <1>2, <1>6
<1>8. \A i, j \in 1..m : i # j => P(i) # P(j)  BY <1>6
<1>9. r = [keys |-> L, status |-> T]  BY MkCardinality DEF MK!Shrink, MK!Saved
<1> HIDE DEF P, m
<1>10. L \in [1..m -> Secrets] /\ \A i, j \in 1..m : i # j => L[i] # L[j]  BY <1>1, <1>7, <1>8
<1>11. DOMAIN L = 1..m /\ DOMAIN T = D /\ D \subseteq 1..m /\ T = [i \in DOMAIN T |-> T[i]]  OBVIOUS
<1>12. \A i \in 1..m : L[i] = c.keys[P(i)]  OBVIOUS
<1>13. \A i \in 1..m : i \in D <=> P(i) \in DOMAIN c.status  OBVIOUS
<1> HIDE DEF L, T, D
<1>14. r.keys = L /\ r.status = T /\ r = [keys |-> r.keys, status |-> r.status]  BY <1>9
<1>15. KeyList(L)
  <2>1. Cardinality(Secrets) \in Nat  BY MkAssumed, FS_CardinalityType
  <2>2. m <= Cardinality(Secrets)  BY <1>1, <1>3, <2>1
  <2> QED BY <1>3, <1>4, <1>10, <2>2 DEF KeyList
<1>16. KeyRow(r)
  <2>1. D \subseteq Nat  BY <1>3, <1>11
  <2> QED BY <1>11, <1>14, <1>15, <2>1 DEF KeyRow
<1>17. L # c.keys
  <2>1. 1..m # 1..n
    <3>1. n \in 1..n /\ n \notin 1..m  BY <1>1, <1>3, <1>5
    <3> QED BY <3>1
  <2> QED BY <1>2, <1>11, <2>1
<1>18. ASSUME DOMAIN c.status \subseteq DOMAIN c.keys PROVE InStep(r, Outcome(c, r))
  <2>1. MK!OffOf(r) = {L[i] : i \in D}
    <3>1. D \cap 1..m = D  BY <1>11
    <3> QED BY <1>11, <1>14, <3>1 DEF MK!OffOf
  <2>2. Outcome(c, r) = {k \in {L[i] : i \in 1..m} : T # MK!AllOn /\ k \in MK!OffOf(c)}  BY <1>11, <1>14, <1>17 DEF Outcome
  <2>3. ASSUME NEW k \in MK!OffOf(r) PROVE k \in Outcome(c, r)
    <3>1. PICK i \in D : k = L[i]  BY <2>1
    <3>2. i \in 1..m  BY <1>11
    <3>3. P(i) \in DOMAIN c.status /\ P(i) \in DOMAIN c.keys  BY <1>2, <1>7, <1>13, <3>2
    <3>4. k \in MK!OffOf(c)  BY <1>12, <3>1, <3>2, <3>3 DEF MK!OffOf
    <3>5. T # MK!AllOn
      <4>1. DOMAIN MK!AllOn = {}  BY DEF MK!AllOn
      <4> QED BY <1>11, <4>1
    <3> QED BY <2>2, <3>1, <3>2, <3>4, <3>5
  <2>4. ASSUME NEW k \in Outcome(c, r) PROVE k \in MK!OffOf(r)
    <3>1. PICK i \in 1..m : k = L[i]  BY <2>2
    <3>2. k \in MK!OffOf(c)  BY <2>2
    <3>3. PICK j \in DOMAIN c.status \cap DOMAIN c.keys : k = c.keys[j]  BY <3>2 DEF MK!OffOf
    <3>4. c.keys[P(i)] = c.keys[j] /\ j \in 1..n /\ P(i) \in 1..n  BY <1>2, <1>7, <1>12, <3>1, <3>3
    <3>5. P(i) = j  BY <1>1, <3>4
    <3>6. i \in D  BY <1>13, <3>3, <3>5
    <3> QED BY <2>1, <3>1, <3>6
  <2>5. DOMAIN r.status \subseteq DOMAIN r.keys  BY <1>11, <1>14
  <2> QED BY <2>3, <2>4, <2>5 DEF InStep
<1> QED BY <1>16, <1>18 DEF RightResult

\* What a request makes of its copy is right.
LEMMA ResultsRight ==
  ASSUME NEW c, KeyRow(c), NEW r \in MK!Results(c), r.ok
  PROVE  RightResult(c, r.row)
<1> USE DEF MK!Saved, MK!Refused
<1>1. PICK n \in Nat : 0 < n /\ c.keys \in [1..n -> Secrets]  BY DEF KeyRow, KeyList
<1>2. DOMAIN c.keys = 1..n /\ Len(c.keys) = n /\ KeyList(c.keys)  BY <1>1 DEF KeyRow
<1>3. ASSUME NEW l \in MK!Lists, r = MK!setKeys(c, l) PROVE RightResult(c, r.row)
  BY <1>3, ListsAre, NoneOff DEF MK!setKeys
<1>4. CASE r = MK!enableAllKeys(c)  BY <1>2, <1>4, NoneOff DEF MK!enableAllKeys
<1>5. ASSUME NEW i, r = MK!disableKey(c, i) PROVE RightResult(c, r.row)
  <2> DEFINE st == [j \in DOMAIN c.status \cup {i} |-> IF j = i THEN 2 ELSE c.status[j]]
  <2>1. r.row = [keys |-> c.keys, status |-> st] /\ i \in DOMAIN c.keys  BY <1>5 DEF MK!disableKey
  <2>2. DOMAIN st = DOMAIN c.status \cup {i} /\ st = [j \in DOMAIN st |-> st[j]]  OBVIOUS
  <2> HIDE DEF st
  <2>3. DOMAIN st \subseteq Nat  BY <1>2, <2>1, <2>2 DEF KeyRow
  <2> QED BY <2>1, <2>2, <2>3, SameKeys
<1>6. ASSUME NEW i, r = MK!enableKey(c, i) PROVE RightResult(c, r.row)
  <2> DEFINE st == [j \in DOMAIN c.status \cap (DOMAIN c.status \ {i}) |-> c.status[j]]
  <2>1. r.row = [keys |-> c.keys, status |-> st]  BY <1>6 DEF MK!enableKey, MK!Kept
  <2>2. DOMAIN st \subseteq DOMAIN c.status /\ st = [j \in DOMAIN st |-> st[j]]  OBVIOUS
  <2> HIDE DEF st
  <2>3. DOMAIN st \subseteq Nat  BY <2>2 DEF KeyRow
  <2> QED BY <2>1, <2>2, <2>3, SameKeys
<1>7. CASE r = MK!disableAllKeys(c)
  <2> DEFINE st == [j \in DOMAIN c.status \cup DOMAIN c.keys |-> IF j \in DOMAIN c.status THEN c.status[j] ELSE 2]
  <2>1. r.row = [keys |-> c.keys, status |-> st]  BY <1>7 DEF MK!disableAllKeys
  <2>2. DOMAIN st = DOMAIN c.status \cup DOMAIN c.keys /\ st = [j \in DOMAIN st |-> st[j]]  OBVIOUS
  <2> HIDE DEF st
  <2>3. DOMAIN st \subseteq Nat  BY <1>2, <2>2 DEF KeyRow
  <2> QED BY <2>1, <2>2, <2>3, SameKeys
<1>8. ASSUME NEW i, r = MK!deleteKey(c, i) PROVE RightResult(c, r.row)
  <2>1. i \in DOMAIN c.keys /\ ~(Len(c.keys) <= 1) /\ r = MK!Shrink(c, DOMAIN c.keys \ {i})  BY <1>8 DEF MK!deleteKey
  <2>2. DOMAIN c.keys \ {i} # {}
    <3>1. 1 \in 1..n /\ 2 \in 1..n  BY <1>2, <2>1
    <3> QED BY <1>2, <3>1
  <2> QED BY <2>1, <2>2, SomeStay
<1>9. CASE r = MK!deleteDisabledKeys(c)
  <2> DEFINE gone == {i \in DOMAIN c.keys : i \in DOMAIN c.status /\ c.status[i] = 3}
  <2>1. gone # {} /\ gone # DOMAIN c.keys /\ r = MK!Shrink(c, DOMAIN c.keys \ gone)  BY <1>9 DEF MK!deleteDisabledKeys
  <2>2. gone \subseteq DOMAIN c.keys  OBVIOUS
  <2> HIDE DEF gone
  <2> QED BY <2>1, <2>2, SomeStay
<1>10. \/ \E l \in MK!Lists : r = MK!setKeys(c, l)
       \/ \E i \in 1..MK!Cardinality(Secrets) : r \in {MK!disableKey(c, i), MK!enableKey(c, i), MK!deleteKey(c, i)}
       \/ r \in {MK!enableAllKeys(c), MK!disableAllKeys(c), MK!deleteDisabledKeys(c)}
  BY DEF MK!Results
<1> QED BY <1>3, <1>4, <1>5, <1>6, <1>7, <1>8, <1>9, <1>10

---------------------------------------------------------------------------
(* Keys of a channel: the steps. *)

LEMMA MkInit == ASSUME MK!Init PROVE MkIInv
<1> USE MkAssumed DEF MK!Init
<1>1. PICK l \in MK!Lists : keyRow = [keys |-> l, status |-> MK!AllOn]  BY DEF MK!Init
<1>2. KeyList(l)  BY ListsAre
<1>3. DOMAIN MK!AllOn = {} /\ MK!AllOn = [i \in DOMAIN MK!AllOn |-> MK!AllOn[i]]  BY DEF MK!AllOn
<1>4. keyRow.keys = l /\ keyRow.status = MK!AllOn  BY <1>1
<1>5. KeyRow(keyRow)  BY <1>1, <1>2, <1>3, <1>4 DEF KeyRow
<1>6. InStep(keyRow, {})  BY <1>3, <1>4 DEF InStep, MK!OffOf
<1>7. \A w \in Workers : requests[w] = MK!Idle /\ requests[w].pc # "act"  BY DEF MK!Idle
<1>8. keyHist.off = {} /\ keyHist \in [stale : BOOLEAN, edited : BOOLEAN, off : SUBSET Secrets]  OBVIOUS
<1>9. budget \in 0..Starts["MK"] /\ keyLock \in Workers \cup {None} /\ DOMAIN requests = Workers  OBVIOUS
<1> QED BY <1>5, <1>6, <1>7, <1>8, <1>9 DEF MkIInv, KeyJob

\* A request that goes on.
LEMMA KeyMoves ==
  ASSUME MkIInv, NEW w \in Workers, NEW j, requests' = [requests EXCEPT ![w] = j], KeyJob(j)
  PROVE  /\ requests'[w] = j /\ (\A u \in Workers \ {w} : requests'[u] = requests[u])
         /\ DOMAIN requests' = Workers /\ \A u \in Workers : KeyJob(requests'[u])
BY DEF MkIInv

\* Where the row stays.
LEMMA RowStays ==
  ASSUME MkIInv, UNCHANGED <<keyRow, keyHist>>, budget' \in 0..Starts["MK"], keyLock' \in Workers \cup {None},
         DOMAIN requests' = Workers, \A u \in Workers : KeyJob(requests'[u]),
         \A u \in Workers : requests'[u].pc = "act" => keyLock' = u
  PROVE  MkIInv'
<1>1. KeyRow(keyRow)'  BY DEF MkIInv, KeyRow
<1>2. \A u \in Workers : KeyJob(requests[u])'  BY DEF KeyJob, KeyRow
<1>3. (~keyHist.stale /\ ~keyHist.edited => InStep(keyRow, keyHist.off))'  BY DEF MkIInv, InStep, MK!OffOf
<1>4. (keyHist \in [stale : BOOLEAN, edited : BOOLEAN, off : SUBSET Secrets])'  BY DEF MkIInv
<1> QED BY <1>1, <1>2, <1>3, <1>4 DEF MkIInv

LEMMA MkReads == ASSUME MkIInv, NEW w \in Workers, MK!ManageMultiKeys(w) PROVE MkIInv'
<1> DEFINE j == [pc |-> "lock", copy |-> keyRow]
<1>1. /\ budget > 0 /\ budget' = budget - 1 /\ requests' = [requests EXCEPT ![w] = j]
      /\ UNCHANGED <<keyRow, keyLock, keyHist>>
  BY DEF MK!ManageMultiKeys
<1>2. KeyJob(j) /\ j.pc = "lock"  BY DEF KeyJob, MkIInv
<1> HIDE DEF j
<1>3. /\ requests'[w] = j /\ (\A u \in Workers \ {w} : requests'[u] = requests[u])
      /\ DOMAIN requests' = Workers /\ \A u \in Workers : KeyJob(requests'[u])
  BY <1>1, <1>2, KeyMoves
<1>4. budget' \in 0..Starts["MK"]  BY <1>1, MkAssumed DEF MkIInv
<1>5. keyLock' \in Workers \cup {None} /\ \A u \in Workers : requests'[u].pc = "act" => keyLock' = u
  BY <1>1, <1>2, <1>3 DEF MkIInv
<1> QED BY <1>1, <1>3, <1>4, <1>5, RowStays

LEMMA MkLocks == ASSUME MkIInv, NEW w \in Workers, MK!getMultiKeyLock(w) PROVE MkIInv'
<1>1. /\ requests[w].pc = "lock" /\ keyLock = None /\ keyLock' = w
      /\ requests' = [requests EXCEPT ![w].pc = "act"] /\ UNCHANGED <<budget, keyRow, keyHist>>
  BY DEF MK!getMultiKeyLock, MK!At
<1>2. PICK c : KeyRow(c) /\ requests[w] = [pc |-> "lock", copy |-> c]  BY <1>1 DEF MkIInv, KeyJob, MK!Idle
<1> DEFINE j == [pc |-> "act", copy |-> c]
<1>3. [requests[w] EXCEPT !.pc = "act"] = j  BY <1>2
<1>4. requests' = [requests EXCEPT ![w] = j]  BY <1>1, <1>3
<1>5. KeyJob(j)  BY <1>2 DEF KeyJob
<1> HIDE DEF j
<1>6. /\ requests'[w] = j /\ (\A u \in Workers \ {w} : requests'[u] = requests[u])
      /\ DOMAIN requests' = Workers /\ \A u \in Workers : KeyJob(requests'[u])
  BY <1>4, <1>5, KeyMoves
<1>7. \A u \in Workers \ {w} : requests[u].pc # "act"  BY <1>1, MkAssumed DEF MkIInv
<1>8. budget' \in 0..Starts["MK"] /\ \A u \in Workers : requests'[u].pc = "act" => keyLock' = u
  BY <1>1, <1>6, <1>7 DEF MkIInv
<1> QED BY <1>1, <1>6, <1>8, RowStays

LEMMA MkSaves == ASSUME MkIInv, NEW w \in Workers, MK!saveState(w) PROVE MkIInv'
<1> DEFINE c == requests[w].copy
<1>1. /\ requests[w].pc = "act" /\ keyLock' = None /\ requests' = [requests EXCEPT ![w] = MK!Idle] /\ budget' = budget
  BY DEF MK!saveState, MK!At
<1>2. KeyRow(c)  BY <1>1 DEF MkIInv, KeyJob, MK!Idle
<1>3. KeyJob(MK!Idle) /\ MK!Idle.pc = "idle"  BY DEF KeyJob, MK!Idle
<1>4. /\ requests'[w] = MK!Idle /\ (\A u \in Workers \ {w} : requests'[u] = requests[u])
      /\ DOMAIN requests' = Workers /\ \A u \in Workers : KeyJob(requests'[u])
  BY <1>1, <1>3, KeyMoves
<1>5. \A u \in Workers : requests'[u].pc # "act"  BY <1>1, <1>3, <1>4, MkAssumed DEF MkIInv
<1>6. CASE UNCHANGED <<keyRow, keyHist>>
  <2>1. budget' \in 0..Starts["MK"] /\ keyLock' \in Workers \cup {None}  BY <1>1 DEF MkIInv
  <2> QED BY <1>4, <1>5, <1>6, <2>1, RowStays
<1>7. ASSUME NEW r \in MK!Results(c), r.ok, keyRow' = r.row,
             keyHist' = [stale |-> (keyHist.stale \/ c # keyRow) /\ r.row.status # MK!AllOn,
                         edited |-> keyHist.edited /\ r.row.status # MK!AllOn,
                         off |-> {k \in {r.row.keys[i] : i \in DOMAIN r.row.keys} :
                                    IF r.row.keys = c.keys THEN k \in MK!OffOf(r.row) ELSE r.row.status # MK!AllOn /\ k \in keyHist.off}]
      PROVE MkIInv'
  <2> DEFINE late == (keyHist.stale \/ c # keyRow) /\ r.row.status # MK!AllOn
             torn == keyHist.edited /\ r.row.status # MK!AllOn
             off == {k \in {r.row.keys[i] : i \in DOMAIN r.row.keys} :
                       IF r.row.keys = c.keys THEN k \in MK!OffOf(r.row) ELSE r.row.status # MK!AllOn /\ k \in keyHist.off}
  <2>1. keyHist' = [stale |-> late, edited |-> torn, off |-> off]  BY <1>7
  <2>2. RightResult(c, r.row)  BY <1>2, <1>7, ResultsRight
  <2>3. late \in BOOLEAN /\ torn \in BOOLEAN  BY DEF MkIInv
  <2>4. off \subseteq Secrets
    <3>1. PICK n \in Nat : r.row.keys \in [1..n -> Secrets]  BY <2>2 DEF RightResult, KeyRow, KeyList
    <3> QED BY <3>1
  <2>5. ASSUME ~late, ~torn PROVE InStep(r.row, off)
    <3>1. CASE r.row.status = MK!AllOn
      <4>1. MK!OffOf(r.row) = {} /\ DOMAIN r.row.status = {}  BY <3>1 DEF MK!OffOf, MK!AllOn
      <4>2. off = {}  BY <3>1, <4>1
      <4> QED BY <4>1, <4>2 DEF InStep
    <3>2. CASE r.row.status # MK!AllOn
      <4>1. ~keyHist.stale /\ ~keyHist.edited /\ c = keyRow  BY <2>5, <3>2
      <4>2. InStep(c, keyHist.off)  BY <4>1 DEF MkIInv
      <4>3. off = Outcome(c, r.row)  BY <4>2 DEF Outcome, InStep
      <4> QED BY <2>2, <4>2, <4>3 DEF RightResult, InStep
    <3> QED BY <3>1, <3>2
  <2> HIDE DEF late, torn, off, c
  <2>6. /\ keyHist' \in [stale : BOOLEAN, edited : BOOLEAN, off : SUBSET Secrets]
        /\ keyHist'.stale = late /\ keyHist'.edited = torn /\ keyHist'.off = off
    BY <2>1, <2>3, <2>4
  <2>7. KeyRow(keyRow')  BY <1>7, <2>2 DEF RightResult
  <2>8. ~keyHist'.stale /\ ~keyHist'.edited => InStep(keyRow', keyHist'.off)  BY <1>7, <2>5, <2>6
  <2>9. budget' \in 0..Starts["MK"] /\ keyLock' \in Workers \cup {None}  BY <1>1 DEF MkIInv
  <2>10. KeyRow(keyRow)' /\ (~keyHist.stale /\ ~keyHist.edited => InStep(keyRow, keyHist.off))'
         /\ \A u \in Workers : KeyJob(requests[u])'
    BY <1>4, <2>7, <2>8 DEF KeyRow, KeyJob, InStep, MK!OffOf
  <2> QED BY <1>4, <1>5, <2>6, <2>9, <2>10 DEF MkIInv
<1>8. \/ UNCHANGED <<keyRow, keyHist>>
      \/ \E r \in MK!Results(c) :
           /\ r.ok /\ keyRow' = r.row
           /\ keyHist' = [stale |-> (keyHist.stale \/ c # keyRow) /\ r.row.status # MK!AllOn,
                         edited |-> keyHist.edited /\ r.row.status # MK!AllOn,
                         off |-> {k \in {r.row.keys[i] : i \in DOMAIN r.row.keys} :
                                    IF r.row.keys = c.keys THEN k \in MK!OffOf(r.row) ELSE r.row.status # MK!AllOn /\ k \in keyHist.off}]
  BY DEF MK!saveState
<1> QED BY <1>6, <1>7, <1>8

LEMMA MkUpdates == ASSUME MkIInv, MK!UpdateChannel PROVE MkIInv'
<1>1. /\ budget > 0 /\ budget' = budget - 1 /\ UNCHANGED <<keyLock, requests>>
  BY DEF MK!UpdateChannel
<1>2. PICK l \in MK!Lists, st \in {keyRow.status} \cup {[j \in {i} |-> 3] : i \in 1..MK!Cardinality(Secrets)} :
        /\ keyRow' = [keys |-> l, status |-> st]
        /\ keyHist' = [keyHist EXCEPT !.edited = @ \/ (l # keyRow.keys /\ st # MK!AllOn) \/ ~(DOMAIN st \subseteq DOMAIN l),
                                      !.off = {l[i] : i \in DOMAIN st \cap DOMAIN l}]
  BY DEF MK!UpdateChannel
<1> DEFINE torn == keyHist.edited \/ (l # keyRow.keys /\ st # MK!AllOn) \/ ~(DOMAIN st \subseteq DOMAIN l)
           off == {l[i] : i \in DOMAIN st \cap DOMAIN l}
<1>3. keyHist' = [keyHist EXCEPT !.edited = torn, !.off = off]  BY <1>2
<1>4. KeyList(l)  BY ListsAre
<1>5. st = [i \in DOMAIN st |-> st[i]] /\ DOMAIN st \subseteq Nat
  <2>1. CASE st = keyRow.status  BY <2>1 DEF MkIInv, KeyRow
  <2>2. ASSUME NEW i \in 1..MK!Cardinality(Secrets), st = [j \in {i} |-> 3] PROVE st = [k \in DOMAIN st |-> st[k]] /\ DOMAIN st \subseteq Nat
    <3>1. MK!Cardinality(Secrets) \in Nat  BY MkCardinality, MkAssumed, FS_CardinalityType
    <3>2. DOMAIN st = {i} /\ i \in Nat  BY <2>2, <3>1
    <3>3. st = [k \in {i} |-> st[k]]  BY <2>2
    <3> QED BY <3>2, <3>3
  <2> QED BY <1>2, <2>1, <2>2
<1>6. keyRow'.keys = l /\ keyRow'.status = st  BY <1>2
<1>7. KeyRow(keyRow')  BY <1>2, <1>4, <1>5, <1>6 DEF KeyRow
<1>8. torn \in BOOLEAN  BY DEF MkIInv
<1>9. off \subseteq Secrets
  <2>1. PICK n \in Nat : l \in [1..n -> Secrets]  BY <1>4 DEF KeyList
  <2> QED BY <2>1
<1>10. MK!OffOf(keyRow') = off  BY <1>6 DEF MK!OffOf
<1>11. ~torn => DOMAIN st \subseteq DOMAIN l  OBVIOUS
<1> HIDE DEF torn, off
<1>12. /\ keyHist' \in [stale : BOOLEAN, edited : BOOLEAN, off : SUBSET Secrets]
       /\ keyHist'.edited = torn /\ keyHist'.off = off
  BY <1>3, <1>8, <1>9 DEF MkIInv
<1>13. ~keyHist'.stale /\ ~keyHist'.edited => InStep(keyRow', keyHist'.off)  BY <1>6, <1>10, <1>11, <1>12 DEF InStep
<1>14. budget' \in 0..Starts["MK"]  BY <1>1, MkAssumed DEF MkIInv
<1>15. KeyRow(keyRow)' /\ (~keyHist.stale /\ ~keyHist.edited => InStep(keyRow, keyHist.off))'
       /\ \A u \in Workers : KeyJob(requests[u])'
  BY <1>1, <1>7, <1>13 DEF KeyRow, KeyJob, InStep, MK!OffOf, MkIInv
<1> QED BY <1>1, <1>12, <1>14, <1>15 DEF MkIInv

LEMMA MkRestarts == ASSUME MkIInv, MK!Restart PROVE MkIInv'
<1>1. budget > 0 /\ budget' = budget - 1 /\ keyLock' = None /\ UNCHANGED <<keyRow, keyHist>>
      /\ requests' = [w \in Workers |-> MK!Idle]
  BY DEF MK!Restart
<1>2. \A w \in Workers : requests'[w] = MK!Idle /\ requests'[w].pc # "act"  BY <1>1 DEF MK!Idle
<1>3. budget' \in 0..Starts["MK"]  BY <1>1, MkAssumed DEF MkIInv
<1>4. \A u \in Workers : KeyJob(requests[u])'  BY <1>2 DEF KeyJob
<1> QED BY <1>1, <1>2, <1>3, <1>4 DEF MkIInv, KeyRow, InStep, MK!OffOf

LEMMA MkStep == ASSUME MkIInv, MK!Next PROVE MkIInv'
BY MkReads, MkLocks, MkSaves, MkUpdates, MkRestarts DEF MK!Next

LEMMA MkStill == ASSUME MkIInv, UNCHANGED <<budget, mkVars>> PROVE MkIInv'
BY RowStays DEF mkVars, MkIInv

\* MultiKeyInv: a list of keys is never empty and repeats none, a status stays with its key while
\* positions shift, and whoever changes the row holds the lock, for any keys and any workers.
THEOREM StatusesFollowKeys == ServerSpec => []MultiKeyInv
<1> DEFINE I == part = "MK" => MkIInv
<1>1. ServerInit => I  BY MkInit DEF ServerInit, GatewayInit
<1>2. I /\ [ServerNext]_serverVars => I'
  <2> SUFFICES ASSUME I, [ServerNext]_serverVars PROVE I'  OBVIOUS
  <2>1. CASE part = "MK" /\ MK!Next /\ part' = part  BY <2>1, MkStep
  <2>2. CASE part' = part /\ part # "MK"  BY <2>2
  <2>3. CASE UNCHANGED serverVars  BY <2>3, MkStill DEF serverVars, gateway
  <2> QED BY <2>1, <2>2, <2>3 DEF ServerNext, AdministrationNext, GatewayNext
<1>3. I => MultiKeyInv  BY MkImplies DEF MultiKeyInv
<1> QED BY <1>1, <1>2, <1>3, PTL DEF ServerSpec

---------------------------------------------------------------------------
(* Limits: windows and products. *)

LEMMA DivMore == ASSUME NEW a \in Nat, NEW b \in Nat, NEW p \in Nat \ {0}, a <= b PROVE a \div p <= b \div p
OBVIOUS
LEMMA DivNext == ASSUME NEW a \in Nat, NEW b \in Nat, NEW p \in Nat \ {0}, a + p <= b PROVE (a \div p) + 1 <= b \div p
OBVIOUS
LEMMA DivNat == ASSUME NEW a \in Nat, NEW p \in Nat \ {0} PROVE a \div p \in Nat
OBVIOUS
LEMMA TimesMore == ASSUME NEW l \in Nat, NEW x \in Nat, NEW y \in Nat, x <= y PROVE l * x \in Nat /\ l * y \in Nat /\ l * x <= l * y
OBVIOUS
LEMMA TimesNext == ASSUME NEW l \in Nat, NEW x \in Nat PROVE l * (x + 1) = l * x + l /\ l * x \in Nat
OBVIOUS

\* What the windows that ended before the instant t let through at most.
Before(l, t, p) == l * (t \div p)
LEMMA BeforeGrows ==
  ASSUME NEW l \in Nat, NEW s \in Nat, NEW t \in Nat, NEW p \in Nat \ {0}, s <= t
  PROVE  /\ Before(l, s, p) \in Nat /\ Before(l, t, p) \in Nat /\ Before(l, s, p) <= Before(l, t, p)
         /\ s + p <= t => Before(l, s, p) + l <= Before(l, t, p)
<1>1. s \div p \in Nat /\ t \div p \in Nat /\ s \div p <= t \div p  BY DivNat, DivMore
<1> DEFINE x == s \div p
           y == t \div p
<1>2. x \in Nat /\ y \in Nat /\ x <= y  BY <1>1
<1>3. s + p <= t => x + 1 <= y  BY DivNext
<1> HIDE DEF x, y
<1>4. l * x \in Nat /\ l * y \in Nat /\ l * x <= l * y  BY <1>2, TimesMore
<1>5. x + 1 <= y => l * x + l <= l * y
  <2> SUFFICES ASSUME x + 1 <= y PROVE l * x + l <= l * y  OBVIOUS
  <2>1. x + 1 \in Nat  BY <1>2
  <2>2. l * (x + 1) <= l * y  BY <1>2, <2>1, TimesMore
  <2>3. l * (x + 1) = l * x + l  BY <1>2, TimesNext
  <2> QED BY <2>2, <2>3
<1> QED BY <1>3, <1>4, <1>5 DEF Before, x, y

LEMMA BeforeNat == ASSUME NEW l \in Nat, NEW t \in Nat, NEW p \in Nat \ {0} PROVE Before(l, t, p) \in Nat
<1>1. t <= t  OBVIOUS
<1> QED BY <1>1, BeforeGrows

---------------------------------------------------------------------------
(* Limits: the inductive invariant. *)

LEMMA LmAssumed ==
  /\ LimitChain \in Seq(STRING \ {"tpm"}) /\ Len(LimitChain) \in Nat \ {0} /\ Tokens \in Nat \ {0} /\ Window \in Nat \ {0}
  /\ (\A i \in DOMAIN LimitChain : LimitOf[LimitChain[i]] \in Nat) /\ LimitOf["tpm"] \in Nat \ {0}
  /\ Starts["LM"] \in Nat /\ Clock["LM"] \in Nat
  /\ None \notin Objects /\ None \notin Nat /\ None \notin Workers
BY ServerAssumption

LmKeys == {LimitChain[i] : i \in DOMAIN LimitChain} \cup {"tpm"}
KeyAt(i) == IF i > Len(LimitChain) THEN "tpm" ELSE LimitChain[i]
Counters == [count : Nat, reset : Nat]
RedisCounters == [count : Nat \ {0}, until : Nat \cup {None}]
LmPcs == {"check", "count", "expire", "peek", "upstream"}
LmCalls ==
  {j \in [pc : LmPcs, i : 1..Len(LimitChain) + 1, obj : Objects \cup {None}] :
     /\ j.pc = "count" => j.obj \in Objects
     /\ j.pc \in {"peek", "upstream"} => j.i = Len(LimitChain)}

LmTyped ==
  /\ now \in 0..Clock["LM"] /\ budget \in 0..Starts["LM"] /\ inRedis \in BOOLEAN
  /\ limits \in [LmKeys -> Objects \cup {None}]
  /\ objects \in [Objects -> Counters \cup {None}]
  /\ redisKeys \in [LmKeys -> RedisCounters \cup {None}]
  /\ calls \in [Workers -> LmCalls \cup {LM!Idle}]
  /\ limHist \in [admitted : [LmKeys -> Nat], tokens : Nat, orphan : BOOLEAN, lost : BOOLEAN, failed : BOOLEAN]

\* Pointers lead to counters, each key has its own, and a window begins before it ends.
Pointers ==
  /\ \A k \in LmKeys : limits[k] # None => objects[limits[k]] # None
  /\ \A j, k \in LmKeys : limits[j] # None /\ limits[j] = limits[k] => j = k
  /\ \A w \in Workers : calls[w].pc = "count" => objects[calls[w].obj] # None
  /\ \A o \in Objects : objects[o] # None => objects[o].reset >= Window /\ objects[o].reset - Window <= now
  /\ \A k \in LmKeys : redisKeys[k] # None /\ redisKeys[k].until # None =>
       redisKeys[k].until >= Window /\ redisKeys[k].until - Window <= now
  /\ \A w \in Workers : (calls[w].pc = "count" => ~inRedis) /\ (calls[w].pc = "expire" => inRedis /\ redisKeys[KeyAt(calls[w].i)] # None)

\* A key of Redis has no end exactly while one call is about to give it one.
Endless(k) == redisKeys[k] # None /\ redisKeys[k].until = None
GivesEnd(w) == calls[w].pc = "expire"
Expiring ==
  /\ \A w \in Workers : GivesEnd(w) => Endless(KeyAt(calls[w].i))
  /\ \A v, w \in Workers : GivesEnd(v) /\ GivesEnd(w) /\ KeyAt(calls[v].i) = KeyAt(calls[w].i) => v = w
  /\ \A k \in LmKeys : Endless(k) => \E w \in Workers : GivesEnd(w) /\ KeyAt(calls[w].i) = k

\* A key let through what the windows before its own may, and of its own what it counted.
Within(n, l) == IF n <= l THEN n ELSE l
Admitted(k) == limHist.admitted[k]
InMemory(k) ==
  IF limits[k] = None THEN Admitted(k) <= Before(LimitOf[k], now, Window + 1)
  ELSE Admitted(k) <= Before(LimitOf[k], objects[limits[k]].reset - Window, Window + 1) + Within(objects[limits[k]].count, LimitOf[k])
InRedis(k) ==
  IF redisKeys[k] = None THEN Admitted(k) <= Before(LimitOf[k], now, Window)
  ELSE IF redisKeys[k].until = None THEN Admitted(k) <= Before(LimitOf[k], now, Window) + Within(redisKeys[k].count, LimitOf[k])
  ELSE Admitted(k) <= Before(LimitOf[k], redisKeys[k].until - Window, Window) + Within(redisKeys[k].count, LimitOf[k])
KeyHolds(k) == IF inRedis THEN InRedis(k) ELSE InMemory(k)

\* Calls that have looked at the group's tokens and have not added theirs.
Beyond(j) == j.pc = "upstream" \/ (j.pc \in {"check", "count"} /\ j.i = Len(LimitChain) + 1)
Past == {w \in Workers : Beyond(calls[w])}
\* Tokens of the first window are all in its counter.
CounterOf(o, r) == IF inRedis THEN (IF r = None THEN 0 ELSE r.count) ELSE IF o = None THEN 0 ELSE objects[o].count
TokensHold ==
  now < Window =>
    /\ limHist.tokens <= CounterOf(limits["tpm"], redisKeys["tpm"])
    /\ limHist.tokens + Tokens * Cardinality(Past) <= LimitOf["tpm"] - 1 + Tokens * Cardinality(Workers)

Clean == ~limHist.orphan /\ ~limHist.lost /\ ~limHist.failed
LmIInv == LmTyped /\ Pointers /\ (Clean => Expiring /\ (\A k \in LmKeys \ {"tpm"} : KeyHolds(k)) /\ TokensHold)

LEMMA LmKeysAre == LM!Keys = LmKeys /\ "tpm" \in LmKeys /\ (\A k \in LmKeys \ {"tpm"} : LimitOf[k] \in Nat) /\ \A k \in LmKeys : LimitOf[k] \in Nat
BY LmAssumed DEF LM!Keys, LmKeys
LEMMA KeyIn == ASSUME NEW i \in 1..Len(LimitChain) + 1 PROVE KeyAt(i) \in LmKeys /\ (KeyAt(i) = "tpm" <=> i = Len(LimitChain) + 1)
<1>1. Len(LimitChain) \in Nat /\ DOMAIN LimitChain = 1..Len(LimitChain) /\ \A n \in 1..Len(LimitChain) : LimitChain[n] # "tpm"
  BY LmAssumed
<1> QED BY <1>1 DEF KeyAt, LmKeys
LEMMA LmCardinality == \A S : LM!Cardinality(S) = Cardinality(S)
BY DEF LM!Cardinality, LM!IsFiniteSet, Cardinality, IsFiniteSet
LEMMA LmNone == None \notin Counters /\ None \notin RedisCounters
<1>1. None \notin [count : Nat, reset : Nat] /\ None \notin [count : Nat, until : Nat \cup {None}]  BY ServerAssumption
<1>2. None \notin Counters  BY <1>1 DEF Counters
<1>3. RedisCounters \subseteq [count : Nat, until : Nat \cup {None}]  BY DEF RedisCounters
<1> QED BY <1>1, <1>2, <1>3
LEMMA LmIdle == LM!Idle \notin LmCalls /\ LM!Idle.pc = "idle" /\ ~Beyond(LM!Idle)
BY DEF LM!Idle, LmCalls, LmPcs, Beyond

\* The products of the calls past the look.
LEMMA PastCounts ==
  ASSUME NEW S \in SUBSET Workers
  PROVE  /\ Cardinality(S) \in Nat /\ Tokens * Cardinality(S) \in Nat /\ Tokens * Cardinality(S) <= Tokens * Cardinality(Workers)
         /\ Tokens * Cardinality(Workers) \in Nat
         /\ \A w \in S : Tokens * Cardinality(S \ {w}) = Tokens * Cardinality(S) - Tokens
<1>1. IsFiniteSet(Workers)  BY ServerAssumption
<1>2. IsFiniteSet(S) /\ Cardinality(S) \in Nat /\ Cardinality(Workers) \in Nat /\ Cardinality(S) <= Cardinality(Workers)
  BY <1>1, FS_Subset, FS_CardinalityType
<1>3. Tokens * Cardinality(S) \in Nat /\ Tokens * Cardinality(S) <= Tokens * Cardinality(Workers) /\ Tokens * Cardinality(Workers) \in Nat
  BY <1>2, LmAssumed, TimesMore
<1>4. ASSUME NEW w \in S PROVE Tokens * Cardinality(S \ {w}) = Tokens * Cardinality(S) - Tokens
  <2>1. Cardinality(S \ {w}) = Cardinality(S) - 1 /\ IsFiniteSet(S \ {w})  BY <1>2, FS_RemoveElement
  <2>2. Cardinality(S \ {w}) \in Nat  BY <2>1, FS_CardinalityType
  <2> DEFINE x == Cardinality(S \ {w})
  <2>3. x \in Nat /\ Cardinality(S) = x + 1  BY <1>2, <2>1, <2>2
  <2> HIDE DEF x
  <2>4. Tokens * (x + 1) = Tokens * x + Tokens /\ Tokens * x \in Nat  BY <2>3, LmAssumed, TimesNext
  <2>5. Tokens * Cardinality(S) = Tokens * x + Tokens  BY <2>3, <2>4
  <2> QED BY <2>4, <2>5, LmAssumed DEF x
<1> QED BY <1>2, <1>3, <1>4

LEMMA LmInit == ASSUME LM!Init PROVE LmIInv
<1> USE LmAssumed DEF LM!Init
<1>1. LmTyped  BY LmKeysAre DEF LmTyped
<1>2. Pointers  BY LmKeysAre, LmIdle DEF Pointers
<1>3. Expiring  BY LmKeysAre, LmIdle DEF Expiring, Endless, GivesEnd
<1>4. ASSUME NEW k \in LmKeys \ {"tpm"} PROVE KeyHolds(k)
  <2>1. Admitted(k) = 0 /\ limits[k] = None /\ redisKeys[k] = None  BY LmKeysAre DEF Admitted
  <2>2. Before(LimitOf[k], now, Window) \in Nat /\ Before(LimitOf[k], now, Window + 1) \in Nat
    <3>1. now \in Nat /\ Window \in Nat \ {0} /\ Window + 1 \in Nat \ {0} /\ LimitOf[k] \in Nat  BY LmKeysAre
    <3> QED BY <3>1, BeforeNat
  <2> QED BY <2>1, <2>2 DEF KeyHolds, InRedis, InMemory
<1>5. TokensHold
  <2>1. Past = {} /\ Past \in SUBSET Workers  BY LmIdle DEF Past
  <2>2. Tokens * Cardinality(Past) <= Tokens * Cardinality(Workers) /\ Tokens * Cardinality(Past) \in Nat /\ Tokens * Cardinality(Workers) \in Nat
    BY <2>1, PastCounts
  <2>3. limHist.tokens = 0  OBVIOUS
  <2>4. limHist.tokens <= CounterOf(limits["tpm"], redisKeys["tpm"])  BY <2>3, LmKeysAre DEF CounterOf
  <2> QED BY <2>2, <2>3, <2>4 DEF TokensHold
<1> QED BY <1>1, <1>2, <1>3, <1>4, <1>5 DEF LmIInv

LEMMA LmImplies == ASSUME LmIInv PROVE LM!LimitsHold
<1> USE LmAssumed DEF LmIInv
<1>1. LM!TypeOK  BY LmKeysAre DEF LM!TypeOK, LmTyped, Pointers
<1> SUFFICES ASSUME Clean
             PROVE /\ \A k \in LM!Keys \ {"tpm"} :
                        limHist.admitted[k] <= LimitOf[k] * (1 + now \div (IF inRedis THEN Window ELSE Window + 1))
                   /\ now < Window => limHist.tokens <= LimitOf["tpm"] - 1 + Tokens * LM!Cardinality(Workers)
                   /\ \A k \in LM!Keys : redisKeys[k] # None
                        => IF redisKeys[k].until = None THEN \E w \in Workers : LM!At(w, "expire") /\ LM!Key(w) = k ELSE TRUE
  BY <1>1 DEF LM!LimitsHold, Clean
<1>2. ASSUME NEW k \in LmKeys \ {"tpm"}
      PROVE  limHist.admitted[k] <= LimitOf[k] * (1 + now \div (IF inRedis THEN Window ELSE Window + 1))
  <2> DEFINE p == IF inRedis THEN Window ELSE Window + 1
             l == LimitOf[k]
  <2>1. p \in Nat \ {0} /\ l \in Nat /\ now \in Nat  BY LmKeysAre DEF LmTyped
  <2>11. Before(l, now, p) \in Nat  BY <2>1, BeforeNat
  <2>2. \E s \in Nat : s <= now /\ Admitted(k) <= Before(l, s, p) + l
    <3>1. Before(l, now, p) \in Nat  BY <2>11
    <3>2. CASE inRedis
      <4>1. InRedis(k) /\ p = Window  BY <3>2 DEF KeyHolds
      <4>2. CASE redisKeys[k] = None  BY <2>1, <3>1, <4>1, <4>2 DEF InRedis, LmTyped, Admitted
      <4>3. CASE redisKeys[k] # None /\ redisKeys[k].until = None
        <5>1. redisKeys[k].count \in Nat  BY <4>3 DEF LmTyped, RedisCounters
        <5>2. Within(redisKeys[k].count, l) <= l /\ Within(redisKeys[k].count, l) \in Nat  BY <2>1, <5>1 DEF Within
        <5>3. Admitted(k) <= Before(l, now, p) + Within(redisKeys[k].count, l)  BY <4>1, <4>3 DEF InRedis
        <5>4. Admitted(k) \in Nat  BY DEF LmTyped, Admitted
        <5>5. now \in Nat /\ l \in Nat  BY <2>1
        <5> HIDE DEF p, l
        <5>6. now <= now /\ Admitted(k) <= Before(l, now, p) + l  BY <3>1, <5>2, <5>3, <5>4, <5>5
        <5> QED BY <5>5, <5>6
      <4>4. CASE redisKeys[k] # None /\ redisKeys[k].until # None
        <5>1. redisKeys[k].count \in Nat /\ redisKeys[k].until \in Nat  BY <4>4 DEF LmTyped, RedisCounters
        <5>2. Within(redisKeys[k].count, l) <= l /\ Within(redisKeys[k].count, l) \in Nat  BY <2>1, <5>1 DEF Within
        <5>3. redisKeys[k].until - Window \in Nat /\ redisKeys[k].until - Window <= now  BY <4>4, <5>1 DEF Pointers
        <5>4. Before(l, redisKeys[k].until - Window, p) \in Nat  BY <2>1, <5>3, BeforeNat
        <5>5. Admitted(k) <= Before(l, redisKeys[k].until - Window, p) + Within(redisKeys[k].count, l)  BY <4>1, <4>4 DEF InRedis
        <5>6. Admitted(k) <= Before(l, redisKeys[k].until - Window, p) + l  BY <2>1, <5>2, <5>4, <5>5 DEF LmTyped, Admitted
        <5> QED BY <5>3, <5>6
      <4> QED BY <4>2, <4>3, <4>4
    <3>3. CASE ~inRedis
      <4>1. InMemory(k) /\ p = Window + 1  BY <3>3 DEF KeyHolds
      <4>2. CASE limits[k] = None  BY <2>1, <3>1, <4>1, <4>2 DEF InMemory, LmTyped, Admitted
      <4>3. CASE limits[k] # None
        <5> DEFINE o == limits[k]
        <5>1. o \in Objects /\ objects[o] \in Counters  BY <4>3 DEF LmTyped, Pointers
        <5>2. objects[o].count \in Nat /\ objects[o].reset \in Nat /\ objects[o].reset - Window \in Nat /\ objects[o].reset - Window <= now
          BY <5>1, LmAssumed DEF Pointers, Counters
        <5>3. Within(objects[o].count, l) <= l /\ Within(objects[o].count, l) \in Nat  BY <2>1, <5>2 DEF Within
        <5>4. Before(l, objects[o].reset - Window, p) \in Nat  BY <2>1, <5>2, BeforeNat
        <5>5. Admitted(k) <= Before(l, objects[o].reset - Window, p) + Within(objects[o].count, l)  BY <4>1, <4>3 DEF InMemory
        <5>6. Admitted(k) <= Before(l, objects[o].reset - Window, p) + l  BY <2>1, <5>3, <5>4, <5>5 DEF LmTyped, Admitted
        <5> QED BY <5>2, <5>6
      <4> QED BY <4>2, <4>3
    <3> QED BY <3>2, <3>3
  <2>3. PICK s \in Nat : s <= now /\ Admitted(k) <= Before(l, s, p) + l  BY <2>2
  <2>4. Before(l, s, p) \in Nat /\ Before(l, now, p) \in Nat /\ Before(l, s, p) <= Before(l, now, p)  BY <2>1, <2>3, BeforeGrows
  <2>5. now \div p \in Nat  BY <2>1, DivNat
  <2>6. Before(l, now, p) = l * (now \div p)  BY DEF Before
  <2> DEFINE x == now \div p
  <2>7. x \in Nat /\ Before(l, now, p) = l * x  BY <2>5, <2>6
  <2> HIDE DEF x
  <2>12. l \in Nat  BY <2>1
  <2> HIDE DEF l
  <2>13. l * (x + 1) = l * x + l  BY <2>12, <2>7, TimesNext
  <2>14. 1 + x = x + 1  BY <2>7
  <2>8. l * (1 + x) = l * x + l  BY <2>13, <2>14
  <2>15. Admitted(k) \in Nat  BY DEF LmTyped, Admitted
  <2>9. Admitted(k) <= l * x + l  BY <2>12, <2>15, <2>3, <2>4, <2>7
  <2>10. Admitted(k) <= l * (1 + x)  BY <2>8, <2>9
  <2> QED BY <2>10 DEF Admitted, x, l
<1>3. now < Window => limHist.tokens <= LimitOf["tpm"] - 1 + Tokens * LM!Cardinality(Workers)
  <2> SUFFICES ASSUME now < Window PROVE limHist.tokens <= LimitOf["tpm"] - 1 + Tokens * Cardinality(Workers)  BY LmCardinality
  <2>1. Past \in SUBSET Workers  BY DEF Past
  <2>2. Tokens * Cardinality(Past) \in Nat /\ Tokens * Cardinality(Workers) \in Nat  BY <2>1, PastCounts
  <2>3. limHist.tokens \in Nat  BY DEF LmTyped
  <2>4. limHist.tokens + Tokens * Cardinality(Past) <= LimitOf["tpm"] - 1 + Tokens * Cardinality(Workers)  BY DEF TokensHold
  <2> QED BY <2>2, <2>3, <2>4
<1>4. \A k \in LmKeys : Endless(k) => \E w \in Workers : LM!At(w, "expire") /\ LM!Key(w) = k
  BY DEF Expiring, GivesEnd, LM!At, LM!Key, KeyAt
<1> QED BY <1>2, <1>3, <1>4, LmKeysAre DEF Endless

---------------------------------------------------------------------------
(* Limits: the steps. *)

\* A call that goes on, and the calls past the look.
LEMMA LmMoves ==
  ASSUME LmTyped, NEW w \in Workers, NEW j, j \in LmCalls \cup {LM!Idle}, calls' = [calls EXCEPT ![w] = j]
  PROVE  /\ calls' \in [Workers -> LmCalls \cup {LM!Idle}]
         /\ calls'[w] = j /\ \A u \in Workers \ {w} : calls'[u] = calls[u]
         /\ Tokens * Cardinality(Past) \in Nat /\ (Tokens * Cardinality(Past))' \in Nat /\ Tokens * Cardinality(Workers) \in Nat
         /\ (Tokens * Cardinality(Past))' <= Tokens * Cardinality(Workers)
         /\ Beyond(calls[w]) \/ ~Beyond(j) => (Tokens * Cardinality(Past))' <= Tokens * Cardinality(Past)
         /\ Beyond(calls[w]) /\ ~Beyond(j) => (Tokens * Cardinality(Past))' = Tokens * Cardinality(Past) - Tokens
<1>1. calls' \in [Workers -> LmCalls \cup {LM!Idle}] /\ calls'[w] = j /\ \A u \in Workers \ {w} : calls'[u] = calls[u]
  BY DEF LmTyped
<1> DEFINE S == Past
           T == {u \in Workers : Beyond(calls'[u])}
<1>2. (Tokens * Cardinality(Past))' = Tokens * Cardinality(T)  BY DEF Past, Beyond
<1>3. S \in SUBSET Workers /\ T \in SUBSET Workers  BY DEF Past
<1>4. w \in S <=> Beyond(calls[w])  BY DEF Past
<1>5. w \in T <=> Beyond(j)  BY <1>1
<1>6. \A u \in Workers \ {w} : u \in S <=> u \in T  BY <1>1 DEF Past
<1> HIDE DEF S, T
<1>7. /\ Tokens * Cardinality(S) \in Nat /\ Tokens * Cardinality(T) \in Nat /\ Tokens * Cardinality(Workers) \in Nat
      /\ Tokens * Cardinality(T) <= Tokens * Cardinality(Workers)
      /\ \A u \in S : Tokens * Cardinality(S \ {u}) = Tokens * Cardinality(S) - Tokens
  BY <1>3, PastCounts
<1>8. CASE w \in S /\ w \notin T
  <2>1. T = S \ {w}  BY <1>3, <1>6, <1>8
  <2>2. Tokens * Cardinality(T) = Tokens * Cardinality(S) - Tokens  BY <1>7, <1>8, <2>1
  <2>3. Tokens \in Nat  BY LmAssumed
  <2>4. Tokens * Cardinality(T) <= Tokens * Cardinality(S)  BY <1>7, <2>2, <2>3
  <2> QED BY <1>1, <1>2, <1>7, <2>2, <2>4 DEF S
<1>9. CASE w \in S <=> w \in T
  <2>1. T = S  BY <1>3, <1>6, <1>9
  <2>2. Tokens * Cardinality(T) <= Tokens * Cardinality(S)  BY <1>7, <2>1
  <2> QED BY <1>1, <1>2, <1>4, <1>5, <1>7, <1>9, <2>2 DEF S
<1>10. CASE w \notin S /\ w \in T  BY <1>1, <1>2, <1>4, <1>5, <1>7, <1>10 DEF S
<1> QED BY <1>8, <1>9, <1>10

\* What a verdict makes of a call.
LEMMA VerdictMoves ==
  ASSUME LmTyped, NEW w \in Workers, calls[w].pc \in {"check", "count", "expire"}, NEW pass, LM!RateLimitMiddleware(w, pass)
  PROVE  /\ calls[w] \in LmCalls
         /\ \E j : /\ j \in LmCalls \cup {LM!Idle} /\ calls' = [calls EXCEPT ![w] = j] /\ ~Beyond(j)
                   /\ j.pc \notin {"count", "expire"}
<1>1. calls[w] \in LmCalls  BY LmIdle DEF LmTyped
<1>2. calls[w].i \in 1..Len(LimitChain) + 1 /\ Len(LimitChain) \in Nat  BY <1>1, LmAssumed DEF LmCalls
<1>3. LM!Key(w) = "tpm" <=> calls[w].i = Len(LimitChain) + 1  BY <1>2, KeyIn DEF LM!Key, KeyAt
<1> DEFINE j == IF LM!Key(w) = "tpm" \/ ~pass THEN LM!Idle
                ELSE IF calls[w].i = Len(LimitChain) THEN [pc |-> "peek", i |-> calls[w].i, obj |-> None]
                ELSE [pc |-> "check", i |-> calls[w].i + 1, obj |-> None]
<1>4. calls' = [calls EXCEPT ![w] = j]  BY DEF LM!RateLimitMiddleware
<1>5. j \in LmCalls \cup {LM!Idle} /\ ~Beyond(j) /\ j.pc \notin {"count", "expire"}
  <2>1. CASE LM!Key(w) = "tpm" \/ ~pass  BY <2>1, LmIdle
  <2>2. CASE ~(LM!Key(w) = "tpm" \/ ~pass) /\ calls[w].i = Len(LimitChain)
    <3>1. j = [pc |-> "peek", i |-> Len(LimitChain), obj |-> None]  BY <2>2
    <3>2. Len(LimitChain) \in 1..Len(LimitChain) + 1  BY LmAssumed
    <3> QED BY <3>1, <3>2 DEF LmCalls, LmPcs, Beyond
  <2>3. CASE ~(LM!Key(w) = "tpm" \/ ~pass) /\ calls[w].i # Len(LimitChain)
    <3> DEFINE n == calls[w].i + 1
    <3>1. j = [pc |-> "check", i |-> n, obj |-> None]  BY <2>3
    <3>2. n \in 1..Len(LimitChain) /\ n \in 1..Len(LimitChain) + 1 /\ n # Len(LimitChain) + 1  BY <1>2, <1>3, <2>3
    <3> HIDE DEF n
    <3> QED BY <3>1, <3>2 DEF LmCalls, LmPcs, Beyond
  <2> QED BY <2>1, <2>2, <2>3
<1> HIDE DEF j
<1> QED BY <1>1, <1>4, <1>5

\* What is noted of a verdict.
LEMMA NotedIs ==
  ASSUME LmTyped, NEW w \in Workers, LM!Key(w) \in LmKeys, NEW pass \in BOOLEAN, NEW h, h = LM!Noted(w, pass)
  PROVE  /\ h \in [admitted : [LmKeys -> Nat], tokens : Nat, orphan : BOOLEAN, lost : BOOLEAN, failed : BOOLEAN]
         /\ h.orphan = limHist.orphan /\ h.lost = limHist.lost /\ h.failed = limHist.failed
         /\ h.admitted[LM!Key(w)] = IF pass THEN limHist.admitted[LM!Key(w)] + 1 ELSE limHist.admitted[LM!Key(w)]
         /\ \A k \in LmKeys : k # LM!Key(w) => h.admitted[k] = limHist.admitted[k]
         /\ h.tokens = IF LM!Key(w) = "tpm" /\ now < Window THEN limHist.tokens + Tokens ELSE limHist.tokens
<1> DEFINE k == LM!Key(w)
           a == [limHist.admitted EXCEPT ![k] = IF pass THEN limHist.admitted[k] + 1 ELSE limHist.admitted[k]]
           t == IF k = "tpm" /\ now < Window THEN limHist.tokens + Tokens ELSE limHist.tokens
<1>1. h = [limHist EXCEPT !.admitted = a, !.tokens = t]  BY DEF LM!Noted
<1>2. limHist \in [admitted : [LmKeys -> Nat], tokens : Nat, orphan : BOOLEAN, lost : BOOLEAN, failed : BOOLEAN]  BY DEF LmTyped
<1>3. a \in [LmKeys -> Nat] /\ a[k] = (IF pass THEN limHist.admitted[k] + 1 ELSE limHist.admitted[k])
      /\ \A i \in LmKeys : i # k => a[i] = limHist.admitted[i]
  BY <1>2
<1>4. t \in Nat  BY <1>2, LmAssumed
<1> HIDE DEF a, t
<1>5. h \in [admitted : [LmKeys -> Nat], tokens : Nat, orphan : BOOLEAN, lost : BOOLEAN, failed : BOOLEAN]
      /\ h.orphan = limHist.orphan /\ h.lost = limHist.lost /\ h.failed = limHist.failed /\ h.admitted = a /\ h.tokens = t
  BY <1>1, <1>2, <1>3, <1>4
<1> QED BY <1>3, <1>5 DEF t

\* Where stores and counts stay, and a call goes on that gives no key its end.
LEMMA StoresStay ==
  ASSUME LmIInv, NEW w \in Workers, NEW j, j \in LmCalls \cup {LM!Idle}, calls' = [calls EXCEPT ![w] = j],
         calls[w].pc # "expire", j.pc # "expire", j.pc = "count" => ~inRedis /\ objects[j.obj] # None,
         UNCHANGED <<now, inRedis, limits, objects, redisKeys, limHist>>, budget' \in 0..Starts["LM"],
         Beyond(calls[w]) \/ ~Beyond(j) \/ ~(now < Window) \/ limHist.tokens <= LimitOf["tpm"] - 1 \/ ~Clean
  PROVE  LmIInv'
<1> USE DEF LmIInv
<1>1. /\ calls' \in [Workers -> LmCalls \cup {LM!Idle}]
      /\ calls'[w] = j /\ \A u \in Workers \ {w} : calls'[u] = calls[u]
      /\ Tokens * Cardinality(Past) \in Nat /\ (Tokens * Cardinality(Past))' \in Nat /\ Tokens * Cardinality(Workers) \in Nat
      /\ (Tokens * Cardinality(Past))' <= Tokens * Cardinality(Workers)
      /\ Beyond(calls[w]) \/ ~Beyond(j) => (Tokens * Cardinality(Past))' <= Tokens * Cardinality(Past)
  BY LmMoves
<1>2. LmTyped'  BY <1>1 DEF LmTyped
<1>3. Pointers'  BY <1>1 DEF Pointers
<1>4. Clean => Expiring'
  <2>1. \A u \in Workers : GivesEnd(u)' <=> GivesEnd(u)  BY <1>1 DEF GivesEnd
  <2>2. \A u \in Workers : GivesEnd(u) => calls'[u] = calls[u]  BY <1>1 DEF GivesEnd
  <2>3. \A k : Endless(k)' <=> Endless(k)  BY DEF Endless
  <2> QED BY <2>1, <2>2, <2>3 DEF Expiring, KeyAt, Endless, GivesEnd
<1>5. Clean => \A k \in LmKeys \ {"tpm"} : KeyHolds(k)'  BY DEF KeyHolds, InRedis, InMemory, Admitted
<1>6. Clean => TokensHold'
  <2> SUFFICES ASSUME Clean, now < Window PROVE TokensHold'  BY DEF TokensHold
  <2>1. limHist.tokens \in Nat /\ LimitOf["tpm"] \in Nat  BY LmAssumed DEF LmTyped
  <2>2. limHist.tokens <= CounterOf(limits["tpm"], redisKeys["tpm"])
        /\ limHist.tokens + Tokens * Cardinality(Past) <= LimitOf["tpm"] - 1 + Tokens * Cardinality(Workers)
    BY DEF TokensHold
  <2> DEFINE x == Tokens * Cardinality(Past)
             y == (Tokens * Cardinality(Past))'
             z == Tokens * Cardinality(Workers)
  <2>3. x \in Nat /\ y \in Nat /\ z \in Nat /\ y <= z /\ (y <= x \/ limHist.tokens <= LimitOf["tpm"] - 1)  BY <1>1
  <2>4. limHist.tokens + x <= LimitOf["tpm"] - 1 + z  BY <2>2
  <2> HIDE DEF x, y, z
  <2>5. limHist.tokens + y <= LimitOf["tpm"] - 1 + z  BY <2>1, <2>3, <2>4
  <2>6. (limHist.tokens + Tokens * Cardinality(Past))' <= LimitOf["tpm"] - 1 + Tokens * Cardinality(Workers)  BY <2>5 DEF y, z
  <2> QED BY <2>2, <2>6 DEF TokensHold, CounterOf
<1>7. Clean' => Clean  BY DEF Clean
<1> QED BY <1>2, <1>3, <1>4, <1>5, <1>6, <1>7

LEMMA LmArrives == ASSUME LmIInv, NEW w \in Workers, LM!Arrive(w) PROVE LmIInv'
<1>1. calls[w] = LM!Idle /\ budget > 0 /\ budget' = budget - 1 /\ UNCHANGED <<now, inRedis, limits, objects, redisKeys, limHist>>
  BY DEF LM!Arrive, LM!stores
<1> DEFINE j == [pc |-> "check", i |-> 1, obj |-> None]
<1>2. calls' = [calls EXCEPT ![w] = j]  BY DEF LM!Arrive
<1>3. j \in LmCalls /\ ~Beyond(j) /\ j.pc = "check"  BY LmAssumed DEF LmCalls, LmPcs, Beyond
<1>4. budget' \in 0..Starts["LM"]  BY <1>1, LmAssumed DEF LmIInv, LmTyped
<1> HIDE DEF j
<1> QED BY <1>1, <1>2, <1>3, <1>4, LmIdle, StoresStay

LEMMA LmPeeks == ASSUME LmIInv, NEW w \in Workers, LM!Peek(w) PROVE LmIInv'
<1> DEFINE o == limits["tpm"]
           n == IF inRedis THEN LM!Running("tpm")
                ELSE IF o = None THEN 0 ELSE IF LM!expired(objects[o]) THEN 0 ELSE objects[o].count
           j == IF LM!peekWindow(n) THEN [calls[w] EXCEPT !.pc = "upstream"] ELSE LM!Idle
<1>1. calls[w].pc = "peek" /\ calls' = [calls EXCEPT ![w] = j]
      /\ UNCHANGED <<now, budget, inRedis, limits, objects, redisKeys, limHist>>
  BY DEF LM!Peek, LM!At, LM!stores
<1>2. calls[w] \in LmCalls  BY <1>1, LmIdle DEF LmIInv, LmTyped
<1>3. [calls[w] EXCEPT !.pc = "upstream"] \in LmCalls /\ [calls[w] EXCEPT !.pc = "upstream"].pc = "upstream"
  BY <1>1, <1>2 DEF LmCalls, LmPcs
<1>4. j \in LmCalls \cup {LM!Idle} /\ j.pc \notin {"count", "expire"}  BY <1>3, LmIdle
<1>5. Beyond(j) => n < LimitOf["tpm"]  BY LmIdle DEF LM!peekWindow
<1>6. ASSUME Clean, now < Window, n < LimitOf["tpm"] PROVE limHist.tokens <= LimitOf["tpm"] - 1
  <2>1. "tpm" \in LmKeys  BY LmKeysAre
  <2>2. n \in Nat /\ CounterOf(limits["tpm"], redisKeys["tpm"]) <= n
    <3>1. CASE inRedis
      <4>1. CASE redisKeys["tpm"] = None  BY <3>1, <4>1 DEF CounterOf, LM!Running
      <4>2. CASE redisKeys["tpm"] # None
        <5>1. redisKeys["tpm"].count \in Nat  BY <2>1, <4>2 DEF LmIInv, LmTyped, RedisCounters
        <5>2. redisKeys["tpm"].until # None => redisKeys["tpm"].until \in Nat /\ redisKeys["tpm"].until >= Window
          BY <2>1, <4>2 DEF LmIInv, LmTyped, RedisCounters, Pointers
        <5>3. redisKeys["tpm"].until # None => ~(redisKeys["tpm"].until <= now)  BY <1>6, <5>2, LmAssumed DEF LmIInv, LmTyped
        <5> QED BY <3>1, <4>2, <5>1, <5>3 DEF CounterOf, LM!Running
      <4> QED BY <4>1, <4>2
    <3>2. CASE ~inRedis
      <4>1. CASE o = None  BY <3>2, <4>1 DEF CounterOf
      <4>2. CASE o # None
        <5>1. o \in Objects /\ objects[o] \in Counters /\ objects[o].reset >= Window
          BY <2>1, <4>2 DEF LmIInv, LmTyped, Pointers
        <5>2. objects[o].count \in Nat /\ objects[o].reset \in Nat  BY <5>1 DEF Counters
        <5>3. ~LM!expired(objects[o])  BY <1>6, <5>1, <5>2, LmAssumed DEF LM!expired, LmIInv, LmTyped
        <5> QED BY <3>2, <4>2, <5>2, <5>3 DEF CounterOf
      <4> QED BY <4>1, <4>2
    <3> QED BY <3>1, <3>2
  <2>3. limHist.tokens <= CounterOf(limits["tpm"], redisKeys["tpm"])  BY <1>6 DEF LmIInv, TokensHold
  <2>4. limHist.tokens \in Nat /\ CounterOf(limits["tpm"], redisKeys["tpm"]) \in Nat
    <3>1. redisKeys["tpm"] # None => redisKeys["tpm"].count \in Nat  BY <2>1 DEF LmIInv, LmTyped, RedisCounters
    <3>2. limits["tpm"] # None => objects[limits["tpm"]].count \in Nat  BY <2>1 DEF LmIInv, LmTyped, Pointers, Counters
    <3> QED BY <3>1, <3>2 DEF CounterOf, LmIInv, LmTyped
  <2> HIDE DEF n
  <2> QED BY <1>6, <2>2, <2>3, <2>4, LmAssumed
<1>7. budget' \in 0..Starts["LM"]  BY <1>1 DEF LmIInv, LmTyped
<1> HIDE DEF j, n
<1> QED BY <1>1, <1>4, <1>5, <1>6, <1>7, StoresStay

LEMMA LmRecords == ASSUME LmIInv, NEW w \in Workers, LM!RecordGroupTokens(w) PROVE LmIInv'
<1>1. calls[w].pc = "upstream" /\ UNCHANGED <<now, budget, inRedis, limits, objects, redisKeys, limHist>> /\ Beyond(calls[w])
  BY DEF LM!RecordGroupTokens, LM!At, LM!stores, Beyond
<1>2. PICK j \in {[pc |-> "check", i |-> Len(LimitChain) + 1, obj |-> None], LM!Idle} : calls' = [calls EXCEPT ![w] = j]
  BY DEF LM!RecordGroupTokens
<1>3. Len(LimitChain) + 1 \in 1..Len(LimitChain) + 1  BY LmAssumed
<1>4. j \in LmCalls \cup {LM!Idle} /\ j.pc \notin {"count", "expire"}  BY <1>3, LmIdle DEF LmCalls, LmPcs
<1>5. budget' \in 0..Starts["LM"]  BY <1>1 DEF LmIInv, LmTyped
<1> QED BY <1>1, <1>2, <1>4, <1>5, StoresStay

LEMMA Admits ==
  ASSUME NEW a \in Nat, NEW b \in Nat, NEW n \in Nat, NEW l \in Nat, a <= b + Within(n, l)
  PROVE  (IF n + 1 <= l THEN a + 1 ELSE a) <= b + Within(n + 1, l)
BY DEF Within

LEMMA WithinLess == ASSUME NEW n \in Nat, NEW l \in Nat PROVE Within(n, l) \in Nat /\ Within(n, l) <= l /\ Within(0, l) = 0
BY DEF Within

LEMMA LmLoads == ASSUME LmIInv, NEW w \in Workers, LM!LoadOrStore(w) PROVE LmIInv'
<1> USE LmAssumed
<1> DEFINE k == LM!Key(w)
<1>1. calls[w].pc = "check" /\ ~inRedis /\ UNCHANGED <<now, budget, inRedis, redisKeys, limHist>>
  BY DEF LM!LoadOrStore, LM!At
<1>2. calls[w] \in LmCalls  BY <1>1, LmIdle DEF LmIInv, LmTyped
<1>3. k \in LmKeys /\ k = KeyAt(calls[w].i)  BY <1>2, KeyIn DEF LmCalls, LM!Key, KeyAt
<1>4. ASSUME NEW o \in Objects, calls' = [calls EXCEPT ![w].pc = "count", ![w].obj = o]
      PROVE  \E j : /\ j \in LmCalls /\ calls' = [calls EXCEPT ![w] = j] /\ j.pc = "count" /\ j.obj = o
                    /\ (Beyond(j) <=> Beyond(calls[w]))
  <2> DEFINE j == [pc |-> "count", i |-> calls[w].i, obj |-> o]
  <2>1. j \in LmCalls /\ (Beyond(j) <=> Beyond(calls[w])) /\ j.pc = "count" /\ j.obj = o
    BY <1>1, <1>2 DEF LmCalls, LmPcs, Beyond
  <2>2. [[calls[w] EXCEPT !.pc = "count"] EXCEPT !.obj = o] = j
    <3> DEFINE a == [calls[w] EXCEPT !.pc = "count"]
    <3>1. a = [pc |-> "count", i |-> calls[w].i, obj |-> calls[w].obj]  BY <1>2 DEF LmCalls
    <3> HIDE DEF a
    <3>2. [a EXCEPT !.obj = o] = j  BY <3>1
    <3> QED BY <3>2 DEF a
  <2>3. calls' = [calls EXCEPT ![w] = j]  BY <1>4, <2>2 DEF LmIInv, LmTyped
  <2> HIDE DEF j
  <2> QED BY <2>1, <2>3
<1>5. CASE limits[k] # None /\ calls' = [calls EXCEPT ![w].pc = "count", ![w].obj = limits[k]] /\ UNCHANGED <<limits, objects>>
  <2>1. limits[k] \in Objects /\ objects[limits[k]] # None  BY <1>3, <1>5 DEF LmIInv, LmTyped, Pointers
  <2>2. PICK j : /\ j \in LmCalls /\ calls' = [calls EXCEPT ![w] = j] /\ j.pc = "count" /\ j.obj = limits[k]
                 /\ (Beyond(j) <=> Beyond(calls[w]))
    BY <1>4, <1>5, <2>1
  <2>3. budget' \in 0..Starts["LM"]  BY <1>1 DEF LmIInv, LmTyped
  <2> QED BY <1>1, <1>5, <2>1, <2>2, <2>3, StoresStay
<1>6. ASSUME limits[k] = None, NEW o \in Objects, objects[o] = None,
             objects' = [objects EXCEPT ![o] = [count |-> 0, reset |-> now + Window]],
             limits' = [limits EXCEPT ![k] = o],
             calls' = [calls EXCEPT ![w].pc = "count", ![w].obj = o]
      PROVE  LmIInv'
  <2> USE DEF LmIInv
  <2>1. PICK j : /\ j \in LmCalls /\ calls' = [calls EXCEPT ![w] = j] /\ j.pc = "count" /\ j.obj = o
                 /\ (Beyond(j) <=> Beyond(calls[w]))
    BY <1>4, <1>6
  <2> DEFINE c == [count |-> 0, reset |-> now + Window]
  <2>2. now \in Nat /\ c \in Counters /\ c # None /\ c.count = 0 /\ c.reset = now + Window
    BY LmNone DEF LmTyped, Counters
  <2> HIDE DEF c
  <2>3. objects' \in [Objects -> Counters \cup {None}] /\ objects'[o] = c /\ \A i \in Objects \ {o} : objects'[i] = objects[i]
    BY <1>6, <2>2 DEF LmTyped, c
  <2>4. limits' \in [LmKeys -> Objects \cup {None}] /\ limits'[k] = o /\ \A i \in LmKeys \ {k} : limits'[i] = limits[i] /\ limits[i] # o
    BY <1>3, <1>6 DEF LmTyped, Pointers
  <2>5. /\ calls' \in [Workers -> LmCalls \cup {LM!Idle}]
        /\ calls'[w] = j /\ \A u \in Workers \ {w} : calls'[u] = calls[u]
        /\ Tokens * Cardinality(Past) \in Nat /\ (Tokens * Cardinality(Past))' \in Nat /\ Tokens * Cardinality(Workers) \in Nat
        /\ (Tokens * Cardinality(Past))' <= Tokens * Cardinality(Past)
    BY <2>1, LmMoves
  <2>6. LmTyped'  BY <1>1, <2>3, <2>4, <2>5 DEF LmTyped
  <2>7. Pointers'
    <3>1. \A i \in LmKeys : limits'[i] # None => objects'[limits'[i]] # None
      BY <2>2, <2>3, <2>4 DEF Pointers, LmTyped
    <3>2. \A i, n \in LmKeys : limits'[i] # None /\ limits'[i] = limits'[n] => i = n  BY <2>4 DEF Pointers
    <3>3. \A u \in Workers : calls'[u].pc = "count" => objects'[calls'[u].obj] # None
      <4> SUFFICES ASSUME NEW u \in Workers, calls'[u].pc = "count" PROVE objects'[calls'[u].obj] # None  OBVIOUS
      <4>1. CASE u = w  BY <2>1, <2>2, <2>3, <2>5, <4>1
      <4>2. CASE u # w
        <5>1. calls[u] \in LmCalls /\ calls[u].pc = "count" /\ calls'[u] = calls[u]  BY <2>5, <4>2, LmIdle DEF LmTyped
        <5>2. calls[u].obj \in Objects /\ objects[calls[u].obj] # None  BY <5>1 DEF LmCalls, Pointers
        <5> QED BY <1>6, <2>3, <5>1, <5>2
      <4> QED BY <4>1, <4>2
    <3>4. \A i \in Objects : objects'[i] # None => objects'[i].reset >= Window /\ objects'[i].reset - Window <= now
      BY <2>2, <2>3 DEF Pointers
    <3>5. \A u \in Workers : (calls'[u].pc = "count" => ~inRedis) /\ calls'[u].pc # "expire"
      BY <1>1, <2>1, <2>5 DEF Pointers
    <3> QED BY <1>1, <3>1, <3>2, <3>3, <3>4, <3>5 DEF Pointers
  <2>8. ASSUME Clean PROVE Expiring'
    <3>1. \A u \in Workers : ~GivesEnd(u)' /\ ~GivesEnd(u)  BY <1>1, <2>1, <2>5 DEF Pointers, GivesEnd
    <3>2. \A i : Endless(i)' <=> Endless(i)  BY <1>1 DEF Endless
    <3> QED BY <2>8, <3>1, <3>2 DEF Expiring
  <2>9. ASSUME Clean, NEW i \in LmKeys \ {"tpm"} PROVE KeyHolds(i)'
    <3>1. InMemory(i)  BY <1>1, <2>9 DEF KeyHolds
    <3>2. CASE i # k
      <4>1. limits'[i] = limits[i] /\ limits[i] # o  BY <2>4, <3>2
      <4>2. limits[i] # None => objects'[limits[i]] = objects[limits[i]]  BY <2>3, <4>1 DEF LmTyped
      <4>3. InMemory(i)'  BY <1>1, <3>1, <4>1, <4>2 DEF InMemory, Admitted
      <4> QED BY <1>1, <4>3 DEF KeyHolds
    <3>3. CASE i = k
      <4>1. Admitted(i) <= Before(LimitOf[i], now, Window + 1)  BY <1>6, <3>1, <3>3 DEF InMemory
      <4>2. LimitOf[i] \in Nat /\ Before(LimitOf[i], now, Window + 1) \in Nat /\ Window + 1 \in Nat \ {0}
        <5>1. LimitOf[i] \in Nat /\ Window + 1 \in Nat \ {0}  BY LmKeysAre
        <5> QED BY <2>2, <5>1, BeforeNat
      <4>3. Within(0, LimitOf[i]) = 0  BY <4>2, WithinLess
      <4>4. limits'[i] = o /\ o # None /\ objects'[o].count = 0 /\ objects'[o].reset - Window = now
        BY <2>2, <2>3, <2>4, <3>3
      <4>5. Admitted(i)' = Admitted(i) /\ Admitted(i) \in Nat  BY <1>1 DEF Admitted, LmTyped
      <4>6. Admitted(i)' <= Before(LimitOf[i], now, Window + 1) + 0  BY <4>1, <4>2, <4>5
      <4>7. InMemory(i)'  BY <4>3, <4>4, <4>6 DEF InMemory
      <4> QED BY <1>1, <4>7 DEF KeyHolds
    <3> QED BY <3>2, <3>3
  <2>10. ASSUME Clean PROVE TokensHold'
    <3> SUFFICES ASSUME now < Window PROVE TokensHold'  BY <1>1 DEF TokensHold
    <3>1. limHist.tokens <= CounterOf(limits["tpm"], redisKeys["tpm"])
          /\ limHist.tokens + Tokens * Cardinality(Past) <= LimitOf["tpm"] - 1 + Tokens * Cardinality(Workers)
      BY <2>10 DEF TokensHold
    <3>2. limHist.tokens <= CounterOf(limits["tpm"], redisKeys["tpm"])'
      <4>1. CASE k = "tpm"
        <5>1. limHist.tokens <= 0  BY <1>1, <1>6, <3>1, <4>1 DEF CounterOf
        <5>2. CounterOf(limits["tpm"], redisKeys["tpm"])' = 0  BY <1>1, <2>2, <2>3, <2>4, <4>1 DEF CounterOf
        <5> QED BY <5>1, <5>2
      <4>2. CASE k # "tpm"
        <5>1. limits'["tpm"] = limits["tpm"] /\ limits["tpm"] # o  BY <2>4, <4>2, LmKeysAre
        <5>2. limits["tpm"] # None => objects'[limits["tpm"]] = objects[limits["tpm"]]  BY <2>3, <5>1, LmKeysAre DEF LmTyped
        <5> QED BY <1>1, <3>1, <5>1, <5>2 DEF CounterOf
      <4> QED BY <4>1, <4>2
    <3>3. (limHist.tokens + Tokens * Cardinality(Past))' <= LimitOf["tpm"] - 1 + Tokens * Cardinality(Workers)
      <4> DEFINE x == Tokens * Cardinality(Past)
                 y == (Tokens * Cardinality(Past))'
                 z == Tokens * Cardinality(Workers)
      <4>1. x \in Nat /\ y \in Nat /\ z \in Nat /\ y <= x /\ limHist.tokens + x <= LimitOf["tpm"] - 1 + z /\ limHist.tokens \in Nat
        BY <2>5, <3>1 DEF LmTyped
      <4> HIDE DEF x, y, z
      <4>2. limHist.tokens + y <= LimitOf["tpm"] - 1 + z  BY <4>1
      <4> QED BY <1>1, <4>2 DEF y, z
    <3> QED BY <1>1, <3>2, <3>3 DEF TokensHold
  <2>11. Clean' => Clean  BY <1>1 DEF Clean
  <2> QED BY <2>6, <2>7, <2>8, <2>9, <2>10, <2>11
<1>7. \/ limits[k] # None /\ calls' = [calls EXCEPT ![w].pc = "count", ![w].obj = limits[k]] /\ UNCHANGED <<limits, objects>>
      \/ /\ limits[k] = None
         /\ \E o \in Objects : /\ objects[o] = None
                               /\ objects' = [objects EXCEPT ![o] = [count |-> 0, reset |-> now + Window]]
                               /\ limits' = [limits EXCEPT ![k] = o]
                               /\ calls' = [calls EXCEPT ![w].pc = "count", ![w].obj = o]
  BY DEF LM!LoadOrStore
<1> HIDE DEF k
<1> QED BY <1>5, <1>6, <1>7

LEMMA LmSweeps == ASSUME LmIInv, NEW k \in LmKeys, LM!Sweep(k) PROVE LmIInv'
<1> USE LmAssumed DEF LmIInv
<1> DEFINE o == limits[k]
<1>1. /\ ~inRedis /\ o # None /\ now > objects[o].reset + Window /\ limits' = [limits EXCEPT ![k] = None]
      /\ UNCHANGED <<now, budget, inRedis, redisKeys, calls, limHist>>
  BY DEF LM!Sweep
<1>2. objects' = objects \/ (objects' = [objects EXCEPT ![o] = None] /\ \A w \in Workers : ~(calls[w].pc = "count" /\ calls[w].obj = o))
  <2>1. objects' = [objects EXCEPT ![o] = IF \E w \in Workers : calls[w].pc = "count" /\ calls[w].obj = o THEN objects[o] ELSE None]
    BY DEF LM!Sweep, LM!At
  <2> QED BY <2>1 DEF LmTyped
<1>3. o \in Objects /\ objects[o] \in Counters  BY <1>1 DEF LmTyped, Pointers
<1>4. objects[o].count \in Nat /\ objects[o].reset \in Nat /\ objects[o].reset >= Window  BY <1>3 DEF Counters, Pointers
<1>5. objects' \in [Objects -> Counters \cup {None}] /\ (\A i \in Objects \ {o} : objects'[i] = objects[i])
      /\ (objects'[o] = objects[o] \/ objects'[o] = None)
      /\ \A w \in Workers : calls[w].pc = "count" /\ calls[w].obj = o => objects'[o] = objects[o]
  BY <1>2, <1>3 DEF LmTyped
<1>6. limits' \in [LmKeys -> Objects \cup {None}] /\ limits'[k] = None /\ \A i \in LmKeys \ {k} : limits'[i] = limits[i] /\ limits[i] # o
  BY <1>1 DEF LmTyped, Pointers
<1>7. LmTyped'  BY <1>1, <1>5, <1>6 DEF LmTyped
<1>8. Pointers'
  <2>1. ASSUME NEW i \in LmKeys, limits'[i] # None PROVE objects'[limits'[i]] # None
    <3>1. i # k  BY <1>6, <2>1
    <3>2. limits'[i] = limits[i] /\ limits[i] # o  BY <1>6, <3>1
    <3>3. limits[i] \in Objects \ {o} /\ objects[limits[i]] # None  BY <2>1, <3>2 DEF LmTyped, Pointers
    <3> QED BY <1>5, <3>2, <3>3
  <2>2. \A i, n \in LmKeys : limits'[i] # None /\ limits'[i] = limits'[n] => i = n  BY <1>6 DEF Pointers
  <2>3. \A u \in Workers : calls[u].pc = "count" => objects'[calls[u].obj] # None
    <3> SUFFICES ASSUME NEW u \in Workers, calls[u].pc = "count" PROVE objects'[calls[u].obj] # None  OBVIOUS
    <3>1. calls[u] \in LmCalls  BY LmIdle DEF LmTyped
    <3>2. calls[u].obj \in Objects /\ objects[calls[u].obj] # None  BY <3>1 DEF LmCalls, Pointers
    <3> QED BY <1>5, <3>2
  <2>4. \A i \in Objects : objects'[i] # None => objects'[i].reset >= Window /\ objects'[i].reset - Window <= now  BY <1>5 DEF Pointers
  <2> QED BY <1>1, <2>1, <2>2, <2>3, <2>4 DEF Pointers
<1>9. Expiring => Expiring'  BY <1>1 DEF Expiring, Endless, GivesEnd
<1>10. ASSUME Clean, NEW i \in LmKeys \ {"tpm"} PROVE KeyHolds(i)'
  <2>1. InMemory(i)  BY <1>1, <1>10 DEF KeyHolds
  <2>2. CASE i # k
    <3>1. limits'[i] = limits[i] /\ limits[i] # o  BY <1>6, <2>2
    <3>2. limits[i] # None => objects'[limits[i]] = objects[limits[i]]  BY <1>5, <3>1 DEF LmTyped
    <3>3. InMemory(i)'  BY <1>1, <2>1, <3>1, <3>2 DEF InMemory, Admitted
    <3> QED BY <1>1, <3>3 DEF KeyHolds
  <2>3. CASE i = k
    <3> DEFINE l == LimitOf[i]
               s == objects[o].reset - Window
    <3>1. Admitted(i) <= Before(l, s, Window + 1) + Within(objects[o].count, l)  BY <1>1, <2>1, <2>3 DEF InMemory
    <3>2. l \in Nat /\ s \in Nat /\ now \in Nat /\ Window + 1 \in Nat \ {0} /\ s <= now /\ s + (Window + 1) <= now /\ Admitted(i) \in Nat
      <4>1. l \in Nat /\ now \in Nat /\ Window + 1 \in Nat \ {0} /\ Admitted(i) \in Nat  BY LmKeysAre DEF LmTyped, Admitted
      <4> DEFINE r == objects[o].reset
      <4>2. r \in Nat /\ r >= Window /\ now > r + Window /\ Window \in Nat  BY <1>1, <1>4
      <4> HIDE DEF r
      <4>3. r - Window \in Nat /\ r - Window <= now /\ (r - Window) + (Window + 1) <= now  BY <4>1, <4>2
      <4>4. s = r - Window  BY DEF r
      <4> QED BY <4>1, <4>3, <4>4
    <3>3. Within(objects[o].count, l) \in Nat /\ Within(objects[o].count, l) <= l  BY <1>4, <3>2, WithinLess
    <3> HIDE DEF l, s
    <3>4. Before(l, s, Window + 1) \in Nat /\ Before(l, now, Window + 1) \in Nat /\ Before(l, s, Window + 1) + l <= Before(l, now, Window + 1)
      BY <3>2, BeforeGrows
    <3>5. Admitted(i) <= Before(l, now, Window + 1)  BY <3>1, <3>2, <3>3, <3>4
    <3>6. InMemory(i)'  BY <1>1, <1>6, <2>3, <3>5 DEF InMemory, Admitted, l
    <3> QED BY <1>1, <3>6 DEF KeyHolds
  <2> QED BY <2>2, <2>3
<1>11. ASSUME TokensHold PROVE TokensHold'
  <2> SUFFICES ASSUME now < Window PROVE TokensHold'  BY <1>1 DEF TokensHold
  <2>1. k # "tpm"  BY <1>1, <1>4 DEF LmTyped
  <2>2. limits'["tpm"] = limits["tpm"] /\ limits["tpm"] # o  BY <1>6, <2>1, LmKeysAre
  <2>3. limits["tpm"] # None => objects'[limits["tpm"]] = objects[limits["tpm"]]  BY <1>5, <2>2, LmKeysAre DEF LmTyped
  <2>4. CounterOf(limits["tpm"], redisKeys["tpm"])' = CounterOf(limits["tpm"], redisKeys["tpm"])  BY <1>1, <2>2, <2>3 DEF CounterOf
  <2>5. Past' = Past  BY <1>1 DEF Past
  <2> QED BY <1>1, <1>11, <2>4, <2>5 DEF TokensHold
<1>12. Clean' => Clean  BY <1>1 DEF Clean
<1> QED BY <1>7, <1>8, <1>9, <1>10, <1>11, <1>12

LEMMA LmCounts == ASSUME LmIInv, NEW w \in Workers, LM!checkLimit(w) PROVE LmIInv'
<1> USE LmAssumed DEF LmIInv
<1> DEFINE o == calls[w].obj
           k == LM!Key(w)
           info == IF LM!expired(objects[o]) THEN [count |-> 0, reset |-> now + Window] ELSE objects[o]
           n == info.count + LM!Amount(w)
           pass == n <= LimitOf[k]
           c == [info EXCEPT !.count = n]
           h == LM!Noted(w, pass)
           stray == h.orphan \/ limits[k] # o
<1>1. /\ calls[w].pc = "count" /\ ~inRedis /\ objects' = [objects EXCEPT ![o] = c] /\ LM!RateLimitMiddleware(w, pass)
      /\ limHist' = [h EXCEPT !.orphan = stray]
      /\ UNCHANGED <<now, budget, inRedis, limits, redisKeys>>
  BY DEF LM!checkLimit, LM!At, Pointers
<1>2. PICK j : /\ j \in LmCalls \cup {LM!Idle} /\ calls' = [calls EXCEPT ![w] = j] /\ ~Beyond(j)
               /\ j.pc \notin {"count", "expire"}
  BY <1>1, VerdictMoves
<1>3. calls[w] \in LmCalls  BY <1>1, LmIdle DEF LmTyped
<1>4. k \in LmKeys /\ (k = "tpm" <=> calls[w].i = Len(LimitChain) + 1) /\ o \in Objects /\ objects[o] \in Counters
  BY <1>1, <1>3, KeyIn DEF LmCalls, LM!Key, KeyAt, LmTyped, Pointers
<1>5. now \in Nat /\ objects[o].count \in Nat /\ objects[o].reset \in Nat /\ objects[o].reset >= Window /\ objects[o].reset - Window <= now
  <2>1. now \in Nat /\ objects[o] # None  BY <1>4, LmNone DEF LmTyped
  <2>2. objects[o].count \in Nat /\ objects[o].reset \in Nat  BY <1>4 DEF Counters
  <2>3. objects[o].reset >= Window /\ objects[o].reset - Window <= now  BY <1>4, <2>1 DEF Pointers
  <2> QED BY <2>1, <2>2, <2>3
<1>6. LM!Amount(w) = (IF k = "tpm" THEN Tokens ELSE 1) /\ LM!Amount(w) \in Nat  BY DEF LM!Amount
<1>7. info \in Counters /\ info.reset >= Window /\ info.reset - Window <= now
  <2>1. CASE LM!expired(objects[o])
    <3>1. info = [count |-> 0, reset |-> now + Window]  BY <2>1
    <3> QED BY <1>5, <3>1 DEF Counters
  <2>2. CASE ~LM!expired(objects[o])  BY <1>4, <1>5, <2>2
  <2> QED BY <2>1, <2>2
<1>8. n \in Nat /\ c \in Counters /\ c.count = n /\ c.reset = info.reset /\ c # None
  <2>1. n \in Nat  BY <1>6, <1>7 DEF Counters
  <2>2. c = [count |-> n, reset |-> info.reset]  BY <1>7 DEF Counters
  <2> QED BY <1>7, <2>1, <2>2, LmNone DEF Counters
<1>9. pass \in BOOLEAN  BY <1>4, <1>8, LmKeysAre
<1>10. /\ h \in [admitted : [LmKeys -> Nat], tokens : Nat, orphan : BOOLEAN, lost : BOOLEAN, failed : BOOLEAN]
       /\ h.orphan = limHist.orphan /\ h.lost = limHist.lost /\ h.failed = limHist.failed
       /\ h.admitted[k] = (IF pass THEN limHist.admitted[k] + 1 ELSE limHist.admitted[k])
       /\ \A i \in LmKeys : i # k => h.admitted[i] = limHist.admitted[i]
       /\ h.tokens = (IF k = "tpm" /\ now < Window THEN limHist.tokens + Tokens ELSE limHist.tokens)
  <2>1. h = LM!Noted(w, pass) /\ k = LM!Key(w)  OBVIOUS
  <2> HIDE DEF h, pass
  <2> QED BY <1>4, <1>9, <2>1, NotedIs
<1>11. \/ info.count = 0 /\ info.reset = now + Window /\ now > objects[o].reset
       \/ info = objects[o] /\ ~(now > objects[o].reset)
  BY DEF LM!expired
<1> HIDE DEF info, n, c, h, stray, o, k, pass
<1>12. stray \in BOOLEAN  BY <1>10 DEF stray
<1>13. /\ limHist' \in [admitted : [LmKeys -> Nat], tokens : Nat, orphan : BOOLEAN, lost : BOOLEAN, failed : BOOLEAN]
       /\ limHist'.lost = h.lost /\ limHist'.failed = h.failed /\ limHist'.orphan = stray
       /\ limHist'.admitted = h.admitted /\ limHist'.tokens = h.tokens
  BY <1>1, <1>10, <1>12
<1>14. Clean' => Clean /\ limits[k] = o  BY <1>10, <1>13 DEF Clean, stray
<1>15. objects' \in [Objects -> Counters \cup {None}] /\ objects'[o] = c /\ \A i \in Objects \ {o} : objects'[i] = objects[i]
  BY <1>1, <1>4, <1>8 DEF LmTyped
<1>16. /\ calls' \in [Workers -> LmCalls \cup {LM!Idle}]
       /\ calls'[w] = j /\ \A u \in Workers \ {w} : calls'[u] = calls[u]
       /\ Tokens * Cardinality(Past) \in Nat /\ (Tokens * Cardinality(Past))' \in Nat /\ Tokens * Cardinality(Workers) \in Nat
       /\ (Tokens * Cardinality(Past))' <= Tokens * Cardinality(Past)
       /\ Beyond(calls[w]) => (Tokens * Cardinality(Past))' = Tokens * Cardinality(Past) - Tokens
  BY <1>2, LmMoves
<1>17. LmTyped'  BY <1>1, <1>13, <1>15, <1>16 DEF LmTyped
<1>18. Pointers'
  <2>1. \A i \in Objects : objects[i] # None => objects'[i] # None  BY <1>8, <1>15
  <2>2. \A i \in LmKeys : limits[i] # None => limits[i] \in Objects  BY DEF LmTyped
  <2>3. \A u \in Workers : calls'[u].pc \in {"count", "expire"} => calls'[u] = calls[u] /\ calls[u] \in LmCalls
    BY <1>2, <1>16, LmIdle DEF LmTyped
  <2>4. \A u \in Workers : calls[u] \in LmCalls /\ calls[u].pc = "count" => calls[u].obj \in Objects  BY DEF LmCalls
  <2>5. \A i \in Objects : objects'[i] # None => objects'[i].reset >= Window /\ objects'[i].reset - Window <= now
    BY <1>7, <1>8, <1>15 DEF Pointers
  <2>6. \A i \in LmKeys : limits[i] # None => objects'[limits[i]] # None  BY <2>1, <2>2 DEF Pointers
  <2>7. \A u \in Workers : calls'[u].pc = "count" => objects'[calls'[u].obj] # None  BY <2>1, <2>3, <2>4 DEF Pointers
  <2>8. \A u \in Workers : (calls'[u].pc = "count" => ~inRedis) /\ (calls'[u].pc = "expire" => inRedis /\ redisKeys[KeyAt(calls'[u].i)] # None)
    BY <2>3 DEF Pointers
  <2> QED BY <1>1, <2>5, <2>6, <2>7, <2>8 DEF Pointers
<1>19. Clean => Expiring'
  <2>1. \A u \in Workers : ~GivesEnd(u)' /\ ~GivesEnd(u)  BY <1>1, <1>2, <1>16 DEF Pointers, GivesEnd
  <2>2. \A i : Endless(i)' <=> Endless(i)  BY <1>1 DEF Endless
  <2> QED BY <2>1, <2>2 DEF Expiring
<1>20. ASSUME Clean, limits[k] = o, NEW i \in LmKeys \ {"tpm"} PROVE KeyHolds(i)'
  <2>1. InMemory(i)  BY <1>1, <1>20 DEF KeyHolds
  <2>2. CASE i # k
    <3>1. limits[i] # None => limits[i] # o  BY <1>4, <1>20, <2>2 DEF Pointers
    <3>2. limits[i] # None => objects'[limits[i]] = objects[limits[i]]  BY <1>15, <3>1 DEF LmTyped
    <3>3. limHist'.admitted[i] = limHist.admitted[i]  BY <1>10, <1>13, <2>2
    <3>4. InMemory(i)'  BY <1>1, <2>1, <3>2, <3>3 DEF InMemory, Admitted
    <3> QED BY <1>1, <3>4 DEF KeyHolds
  <2>3. CASE i = k
    <3> DEFINE l == LimitOf[i]
               s == objects[o].reset - Window
               t == info.reset - Window
    <3>1. o # None /\ Admitted(i) <= Before(l, s, Window + 1) + Within(objects[o].count, l)
      BY <1>4, <1>20, <2>1, <2>3 DEF InMemory
    <3>2. l \in Nat /\ Window + 1 \in Nat \ {0} /\ Admitted(i) \in Nat  BY LmKeysAre DEF LmTyped, Admitted
    <3>3. s \in Nat /\ s <= now  BY <1>5
    <3>4. n = info.count + 1 /\ info.count \in Nat  BY <1>6, <1>7, <1>20, <2>3 DEF n, Counters
    <3>5. Admitted(i)' = IF info.count + 1 <= l THEN Admitted(i) + 1 ELSE Admitted(i)
      BY <1>10, <1>13, <2>3, <3>4 DEF Admitted, pass
    <3>6. t \in Nat  BY <1>7 DEF Counters
    <3>7. Within(objects[o].count, l) \in Nat /\ Within(objects[o].count, l) <= l /\ Within(0, l) = 0
      BY <1>5, <3>2, WithinLess
    <3>8. (info.count = 0 /\ t = now /\ s + (Window + 1) <= now) \/ (info = objects[o] /\ t = s)
      <4>1. CASE info.count = 0 /\ info.reset = now + Window /\ now > objects[o].reset
        <5> DEFINE r == objects[o].reset
        <5>1. r \in Nat /\ now > r /\ now \in Nat  BY <1>5, <4>1
        <5> HIDE DEF r
        <5>2. (r - Window) + (Window + 1) <= now /\ (now + Window) - Window = now  BY <5>1
        <5> QED BY <4>1, <5>2 DEF r
      <4>2. CASE info = objects[o]  BY <4>2
      <4> QED BY <1>11, <4>1, <4>2
    <3> HIDE DEF l, s, t
    <3>9. Before(l, s, Window + 1) \in Nat /\ Before(l, t, Window + 1) \in Nat  BY <3>2, <3>3, <3>6, BeforeNat
    <3>10. Admitted(i) <= Before(l, t, Window + 1) + Within(info.count, l)
      <4>1. CASE info.count = 0 /\ t = now /\ s + (Window + 1) <= now
        <5>1. Before(l, s, Window + 1) + l <= Before(l, t, Window + 1)  BY <1>5, <3>2, <3>3, <4>1, BeforeGrows
        <5> QED BY <3>1, <3>2, <3>7, <3>9, <4>1, <5>1
      <4>2. CASE info = objects[o] /\ t = s  BY <3>1, <4>2
      <4> QED BY <3>8, <4>1, <4>2
    <3>11. (IF info.count + 1 <= l THEN Admitted(i) + 1 ELSE Admitted(i)) <= Before(l, t, Window + 1) + Within(info.count + 1, l)
      BY <3>2, <3>4, <3>9, <3>10, Admits
    <3>12. Admitted(i)' <= Before(l, t, Window + 1) + Within(n, l)  BY <3>4, <3>5, <3>11
    <3>13. InMemory(i)'  BY <1>1, <1>8, <1>15, <1>20, <2>3, <3>1, <3>12 DEF InMemory, l, t
    <3> QED BY <1>1, <3>13 DEF KeyHolds
  <2> QED BY <2>2, <2>3
<1>21. ASSUME Clean, limits[k] = o PROVE TokensHold'
  <2> SUFFICES ASSUME now < Window PROVE TokensHold'  BY <1>1 DEF TokensHold
  <2> DEFINE x == Tokens * Cardinality(Past)
             y == (Tokens * Cardinality(Past))'
             z == Tokens * Cardinality(Workers)
  <2>1. limHist.tokens <= CounterOf(limits["tpm"], redisKeys["tpm"]) /\ limHist.tokens + x <= LimitOf["tpm"] - 1 + z
    BY <1>21 DEF TokensHold
  <2>2. x \in Nat /\ y \in Nat /\ z \in Nat /\ limHist.tokens \in Nat /\ Tokens \in Nat  BY <1>16 DEF LmTyped
  <2>3. CASE k = "tpm"
    <3>1. Beyond(calls[w])  BY <1>1, <1>4, <2>3 DEF Beyond
    <3>2. y = x - Tokens  BY <1>16, <3>1
    <3>3. limHist'.tokens = limHist.tokens + Tokens  BY <1>10, <1>13, <2>3
    <3>4. n = objects[o].count + Tokens  BY <1>5, <1>6, <1>11, <2>3 DEF n
    <3>5. limHist.tokens <= objects[o].count  BY <1>1, <1>4, <1>21, <2>1, <2>3 DEF CounterOf
    <3>6. CounterOf(limits["tpm"], redisKeys["tpm"])' = n  BY <1>1, <1>4, <1>8, <1>15, <1>21, <2>3 DEF CounterOf
    <3> HIDE DEF x, y, z
    <3>7. limHist'.tokens <= n  BY <1>5, <2>2, <3>3, <3>4, <3>5
    <3>8. limHist'.tokens + y <= LimitOf["tpm"] - 1 + z  BY <2>1, <2>2, <3>2, <3>3
    <3> QED BY <3>6, <3>7, <3>8 DEF TokensHold, y, z
  <2>4. CASE k # "tpm"
    <3>1. limHist'.tokens = limHist.tokens  BY <1>10, <1>13, <2>4
    <3>2. limits["tpm"] # None => limits["tpm"] # o  BY <1>4, <1>21, <2>4, LmKeysAre DEF Pointers
    <3>3. limits["tpm"] # None => objects'[limits["tpm"]] = objects[limits["tpm"]]  BY <1>15, <3>2, LmKeysAre DEF LmTyped
    <3>4. CounterOf(limits["tpm"], redisKeys["tpm"])' = CounterOf(limits["tpm"], redisKeys["tpm"])  BY <1>1, <3>3 DEF CounterOf
    <3>5. y <= x  BY <1>16
    <3> HIDE DEF x, y, z
    <3>6. limHist'.tokens + y <= LimitOf["tpm"] - 1 + z  BY <2>1, <2>2, <3>1, <3>5
    <3> QED BY <2>1, <3>1, <3>4, <3>6 DEF TokensHold, y, z
  <2> QED BY <2>3, <2>4
<1> QED BY <1>14, <1>17, <1>18, <1>19, <1>20, <1>21

LEMMA LmRuns ==
  ASSUME LmTyped, Pointers, NEW k \in LmKeys
  PROVE  /\ LM!Running(k) \in Nat
         /\ \/ LM!Running(k) = 0 /\ redisKeys[k] = None
            \/ /\ LM!Running(k) = 0 /\ redisKeys[k] # None /\ redisKeys[k].until \in Nat
               /\ redisKeys[k].until - Window \in Nat /\ redisKeys[k].until <= now
            \/ LM!Running(k) # 0 /\ redisKeys[k] # None /\ LM!Running(k) = redisKeys[k].count
<1> USE LmAssumed
<1>1. CASE redisKeys[k] = None  BY <1>1 DEF LM!Running
<1>2. CASE redisKeys[k] # None
  <2> DEFINE r == redisKeys[k]
  <2>1. r.count \in Nat \ {0} /\ r.until \in Nat \cup {None}  BY <1>2 DEF LmTyped, RedisCounters
  <2>2. CASE r.until # None /\ r.until <= now
    <3>1. LM!Running(k) = 0  BY <1>2, <2>2 DEF LM!Running
    <3>2. r.until \in Nat /\ r.until >= Window  BY <1>2, <2>1, <2>2 DEF Pointers
    <3>3. r.until - Window \in Nat  BY <3>2
    <3> QED BY <1>2, <2>2, <3>1, <3>2, <3>3
  <2>3. CASE ~(r.until # None /\ r.until <= now)
    <3>1. LM!Running(k) = r.count  BY <1>2, <2>3 DEF LM!Running
    <3> QED BY <1>2, <2>1, <3>1
  <2> QED BY <2>2, <2>3
<1> QED BY <1>1, <1>2

LEMMA LmRedis == ASSUME LmIInv, NEW w \in Workers, LM!redisCheckLimit(w) PROVE LmIInv'
<1> USE LmAssumed DEF LmIInv
<1> DEFINE k == LM!Key(w)
           run == LM!Running(k)
           t == LM!Amount(w)
           n == run + t
           first == n = t
           pass == n <= LimitOf[k]
           c == [count |-> n, until |-> IF first THEN None ELSE redisKeys[k].until]
<1>1. calls[w].pc = "check" /\ inRedis /\ UNCHANGED <<now, budget, inRedis, limits, objects>>
  BY DEF LM!redisCheckLimit, LM!At
<1>2. \/ /\ redisKeys' = [redisKeys EXCEPT ![k] = c]
         /\ IF first THEN calls' = [calls EXCEPT ![w].pc = "expire"] ELSE LM!RateLimitMiddleware(w, pass)
         /\ limHist' = LM!Noted(w, pass)
      \/ /\ LM!RateLimitMiddleware(w, TRUE)
         /\ limHist' = [LM!Noted(w, TRUE) EXCEPT !.failed = TRUE]
         /\ UNCHANGED redisKeys
  BY DEF LM!redisCheckLimit
<1>3. calls[w] \in LmCalls  BY <1>1, LmIdle DEF LmTyped
<1>4. k \in LmKeys /\ k = KeyAt(calls[w].i) /\ (k = "tpm" <=> calls[w].i = Len(LimitChain) + 1)
  BY <1>3, KeyIn DEF LmCalls, LM!Key, KeyAt
<1>5. t = (IF k = "tpm" THEN Tokens ELSE 1) /\ t \in Nat \ {0}  BY DEF LM!Amount
<1>6. /\ run \in Nat
      /\ \/ run = 0 /\ redisKeys[k] = None
         \/ /\ run = 0 /\ redisKeys[k] # None /\ redisKeys[k].until \in Nat
            /\ redisKeys[k].until - Window \in Nat /\ redisKeys[k].until <= now
         \/ run # 0 /\ redisKeys[k] # None /\ run = redisKeys[k].count
  BY <1>4, LmRuns
<1>7. calls[w].pc \in {"check", "count", "expire"} /\ now \in Nat  BY <1>1 DEF LmTyped
<1>8. ASSUME LM!RateLimitMiddleware(w, TRUE), limHist' = [LM!Noted(w, TRUE) EXCEPT !.failed = TRUE], UNCHANGED redisKeys
      PROVE  LmIInv'
  <2>1. PICK j : /\ j \in LmCalls \cup {LM!Idle} /\ calls' = [calls EXCEPT ![w] = j] /\ j.pc \notin {"count", "expire"}
    BY <1>7, <1>8, VerdictMoves
  <2>2. calls' \in [Workers -> LmCalls \cup {LM!Idle}] /\ calls'[w] = j /\ \A u \in Workers \ {w} : calls'[u] = calls[u]
    BY <2>1, LmMoves
  <2> DEFINE h == LM!Noted(w, TRUE)
  <2>3. h \in [admitted : [LmKeys -> Nat], tokens : Nat, orphan : BOOLEAN, lost : BOOLEAN, failed : BOOLEAN]  BY <1>4, NotedIs
  <2>4. limHist' = [h EXCEPT !.failed = TRUE]  BY <1>8
  <2> HIDE DEF h
  <2>5. limHist' \in [admitted : [LmKeys -> Nat], tokens : Nat, orphan : BOOLEAN, lost : BOOLEAN, failed : BOOLEAN] /\ limHist'.failed
    BY <2>3, <2>4
  <2>6. LmTyped'  BY <1>1, <1>8, <2>2, <2>5 DEF LmTyped
  <2>7. Pointers'  BY <1>1, <1>8, <2>1, <2>2 DEF Pointers
  <2>8. ~Clean'  BY <2>5 DEF Clean
  <2> QED BY <2>6, <2>7, <2>8
<1>9. ASSUME redisKeys' = [redisKeys EXCEPT ![k] = c],
             IF first THEN calls' = [calls EXCEPT ![w].pc = "expire"] ELSE LM!RateLimitMiddleware(w, pass),
             limHist' = LM!Noted(w, pass)
      PROVE  LmIInv'
  <2>1. first <=> run = 0  BY <1>5, <1>6
  <2>2. n \in Nat \ {0} /\ c.count = n /\ (first => c.until = None) /\ (~first => c.until = redisKeys[k].until)
    BY <1>5, <1>6
  <2>3. c \in RedisCounters /\ c # None
    <3>1. ~first => redisKeys[k].until \in Nat \cup {None}  BY <1>4, <1>6, <2>1 DEF LmTyped, RedisCounters
    <3>2. c.until \in Nat \cup {None} /\ c = [count |-> n, until |-> c.until]  BY <3>1
    <3> QED BY <2>2, <3>2, LmNone DEF RedisCounters
  <2>4. pass \in BOOLEAN  OBVIOUS
  <2>5. PICK j : /\ j \in LmCalls \cup {LM!Idle} /\ calls' = [calls EXCEPT ![w] = j] /\ ~Beyond(j) /\ j.pc # "count"
                 /\ (j.pc = "expire" <=> first) /\ (first => j.i = calls[w].i)
    <3>1. CASE first
      <4> DEFINE j == [pc |-> "expire", i |-> calls[w].i, obj |-> calls[w].obj]
      <4>1. [calls[w] EXCEPT !.pc = "expire"] = j /\ j \in LmCalls /\ ~Beyond(j)  BY <1>3 DEF LmCalls, LmPcs, Beyond
      <4>2. calls' = [calls EXCEPT ![w] = j]  BY <1>9, <3>1, <4>1
      <4> QED BY <3>1, <4>1, <4>2
    <3>2. CASE ~first
      <4>1. LM!RateLimitMiddleware(w, pass)  BY <1>9, <3>2
      <4> HIDE DEF pass, first
      <4> QED BY <1>7, <3>2, <4>1, VerdictMoves
    <3> QED BY <3>1, <3>2
  <2>6. /\ calls' \in [Workers -> LmCalls \cup {LM!Idle}]
        /\ calls'[w] = j /\ \A u \in Workers \ {w} : calls'[u] = calls[u]
        /\ Tokens * Cardinality(Past) \in Nat /\ (Tokens * Cardinality(Past))' \in Nat /\ Tokens * Cardinality(Workers) \in Nat
        /\ (Tokens * Cardinality(Past))' <= Tokens * Cardinality(Past)
        /\ Beyond(calls[w]) => (Tokens * Cardinality(Past))' = Tokens * Cardinality(Past) - Tokens
    BY <2>5, LmMoves
  <2>7. /\ limHist' \in [admitted : [LmKeys -> Nat], tokens : Nat, orphan : BOOLEAN, lost : BOOLEAN, failed : BOOLEAN]
        /\ limHist'.orphan = limHist.orphan /\ limHist'.lost = limHist.lost /\ limHist'.failed = limHist.failed
        /\ limHist'.admitted[k] = (IF pass THEN limHist.admitted[k] + 1 ELSE limHist.admitted[k])
        /\ \A i \in LmKeys : i # k => limHist'.admitted[i] = limHist.admitted[i]
        /\ limHist'.tokens = (IF k = "tpm" /\ now < Window THEN limHist.tokens + Tokens ELSE limHist.tokens)
    <3>1. limHist' = LM!Noted(w, pass)  BY <1>9
    <3> HIDE DEF pass
    <3> QED BY <1>4, <2>4, <3>1, NotedIs
  <2>8. redisKeys' \in [LmKeys -> RedisCounters \cup {None}] /\ redisKeys'[k] = c /\ \A i \in LmKeys \ {k} : redisKeys'[i] = redisKeys[i]
    <3> HIDE DEF c
    <3> QED BY <1>4, <1>9, <2>3 DEF LmTyped
  <2>9. run # 0 => redisKeys[k] # None /\ run = redisKeys[k].count  BY <1>6
  <2> HIDE DEF c, pass, first, n, run, t, k
  <2>10. LmTyped'  BY <1>1, <2>6, <2>7, <2>8 DEF LmTyped
  <2>11. Pointers'
    <3>1. \A u \in Workers : calls'[u].pc # "count"  BY <1>1, <2>5, <2>6 DEF Pointers
    <3>2. \A u \in Workers : calls'[u].pc = "expire" => redisKeys'[KeyAt(calls'[u].i)] # None
      <4> SUFFICES ASSUME NEW u \in Workers, calls'[u].pc = "expire" PROVE redisKeys'[KeyAt(calls'[u].i)] # None  OBVIOUS
      <4>1. CASE u = w  BY <1>4, <2>3, <2>5, <2>6, <2>8, <4>1
      <4>2. CASE u # w
        <5>1. calls'[u] = calls[u] /\ calls[u] \in LmCalls  BY <2>6, <4>2, LmIdle DEF LmTyped
        <5>2. KeyAt(calls[u].i) \in LmKeys /\ redisKeys[KeyAt(calls[u].i)] # None  BY <5>1, KeyIn DEF LmCalls, Pointers
        <5> QED BY <2>3, <2>8, <5>1, <5>2
      <4> QED BY <4>1, <4>2
    <3>3. ASSUME NEW i \in LmKeys, redisKeys'[i] # None, redisKeys'[i].until # None
          PROVE  redisKeys'[i].until >= Window /\ redisKeys'[i].until - Window <= now
      <4>1. CASE i # k  BY <2>8, <3>3, <4>1 DEF Pointers
      <4>2. CASE i = k
        <5>1. ~first /\ redisKeys[k] # None /\ redisKeys'[i].until = redisKeys[k].until
          BY <2>1, <2>2, <2>8, <2>9, <3>3, <4>2
        <5> QED BY <1>4, <3>3, <5>1 DEF Pointers
      <4> QED BY <4>1, <4>2
    <3> QED BY <1>1, <3>1, <3>2, <3>3 DEF Pointers
  <2>12. ASSUME Clean PROVE Expiring'
    <3>0. PICK q \in LmKeys : q = k  BY <1>4
    <3>11. redisKeys'[q] = c  BY <2>8, <3>0
    <3>1. Endless(q) => ~first /\ Endless(q)'  BY <1>6, <2>1, <2>2, <2>3, <3>0, <3>11, LmAssumed DEF Endless
    <3>2. ASSUME NEW i \in LmKeys, i # q PROVE Endless(i)' <=> Endless(i)
      <4>1. redisKeys'[i] = redisKeys[i]  BY <2>8, <3>0, <3>2
      <4> QED BY <4>1 DEF Endless
    <3>3. Endless(q)' => first \/ Endless(q)  BY <2>1, <2>2, <2>9, <3>0, <3>11 DEF Endless
    <3>4. first => Endless(q)'  BY <2>2, <2>3, <3>11 DEF Endless
    <3>5. ~GivesEnd(w) /\ (GivesEnd(w)' <=> first) /\ (first => KeyAt(calls'[w].i) = q)  BY <1>1, <1>4, <2>5, <2>6, <3>0 DEF GivesEnd
    <3>6. \A u \in Workers \ {w} : (GivesEnd(u)' <=> GivesEnd(u)) /\ KeyAt(calls'[u].i) = KeyAt(calls[u].i)  BY <2>6 DEF GivesEnd
    <3>7. \A u \in Workers : GivesEnd(u) => KeyAt(calls[u].i) \in LmKeys /\ Endless(KeyAt(calls[u].i))
      <4> SUFFICES ASSUME NEW u \in Workers, GivesEnd(u) PROVE KeyAt(calls[u].i) \in LmKeys /\ Endless(KeyAt(calls[u].i))  OBVIOUS
      <4>1. calls[u] \in LmCalls  BY LmIdle DEF LmTyped, GivesEnd
      <4> QED BY <2>12, <4>1, KeyIn DEF LmCalls, Expiring
    <3>8. ASSUME NEW u \in Workers, GivesEnd(u)' PROVE Endless(KeyAt(calls[u].i))'
      <4>1. CASE u = w
        <5>1. KeyAt(calls'[u].i) = q /\ Endless(q)'  BY <3>4, <3>5, <3>8, <4>1
        <5> QED BY <5>1 DEF Endless
      <4>2. CASE u # w
        <5>1. GivesEnd(u) /\ KeyAt(calls'[u].i) = KeyAt(calls[u].i)  BY <3>6, <3>8, <4>2
        <5>2. PICK i \in LmKeys : i = KeyAt(calls[u].i)  BY <3>7, <5>1
        <5>3. Endless(i)  BY <3>7, <5>1, <5>2
        <5>4. Endless(i)'
          <6>1. CASE i = q  BY <3>1, <5>3, <6>1
          <6>2. CASE i # q  BY <3>2, <5>3, <6>2
          <6> QED BY <6>1, <6>2
        <5> QED BY <5>1, <5>2, <5>4 DEF Endless
      <4> QED BY <4>1, <4>2
    <3>9. ASSUME NEW u \in Workers, NEW v \in Workers, GivesEnd(u)', GivesEnd(v)', KeyAt(calls'[u].i) = KeyAt(calls'[v].i) PROVE u = v
      <4>1. CASE u # w /\ v # w  BY <2>12, <3>6, <3>9, <4>1 DEF Expiring
      <4>2. CASE u = w /\ v # w
        <5>1. first /\ KeyAt(calls[v].i) = q /\ Endless(q)  BY <3>5, <3>6, <3>7, <3>9, <4>2
        <5> QED BY <3>1, <5>1
      <4>3. CASE u # w /\ v = w
        <5>1. first /\ KeyAt(calls[u].i) = q /\ Endless(q)  BY <3>5, <3>6, <3>7, <3>9, <4>3
        <5> QED BY <3>1, <5>1
      <4> QED BY <4>1, <4>2, <4>3
    <3>10. ASSUME NEW i \in LmKeys, Endless(i)' PROVE \E u \in Workers : GivesEnd(u)' /\ KeyAt(calls'[u].i) = i
      <4>1. CASE i = q /\ first  BY <3>5, <4>1
      <4>2. CASE ~(i = q /\ first)
        <5>1. Endless(i)
          <6>1. CASE i = q  BY <3>3, <3>10, <4>2, <6>1
          <6>2. CASE i # q  BY <3>2, <3>10, <6>2
          <6> QED BY <6>1, <6>2
        <5>2. PICK u \in Workers : GivesEnd(u) /\ KeyAt(calls[u].i) = i  BY <2>12, <5>1 DEF Expiring
        <5>3. u # w  BY <3>5, <5>2
        <5> QED BY <3>6, <5>2, <5>3
      <4> QED BY <4>1, <4>2
    <3> HIDE DEF LmIInv
    <3> QED BY <3>8, <3>9, <3>10 DEF Expiring
  <2>13. ASSUME Clean, NEW i \in LmKeys \ {"tpm"} PROVE KeyHolds(i)'
    <3>1. InRedis(i)  BY <1>1, <2>13 DEF KeyHolds
    <3>2. CASE i # k
      <4>1. redisKeys'[i] = redisKeys[i] /\ limHist'.admitted[i] = limHist.admitted[i]  BY <2>7, <2>8, <3>2
      <4>2. InRedis(i)'  BY <1>1, <3>1, <4>1 DEF InRedis, Admitted
      <4> QED BY <1>1, <4>2 DEF KeyHolds
    <3>3. CASE i = k
      <4> DEFINE l == LimitOf[i]
                 b == IF c.until = None THEN Before(l, now, Window) ELSE Before(l, c.until - Window, Window)
      <4>1. l \in Nat /\ Admitted(i) \in Nat /\ n = run + 1 /\ Window \in Nat \ {0} /\ now \in Nat
        BY <1>5, <1>7, <2>13, <3>3, LmKeysAre DEF LmTyped, Admitted, n
      <4>2. Admitted(i)' = IF n <= l THEN Admitted(i) + 1 ELSE Admitted(i)
        BY <2>7, <3>3 DEF Admitted, pass
      <4>3. b \in Nat
        <5>1. CASE c.until = None  BY <4>1, <5>1, BeforeNat
        <5>2. CASE c.until # None
          <6>1. c.until \in Nat /\ c.until >= Window  BY <1>4, <2>3, <2>8, <2>11, <5>2 DEF Pointers, RedisCounters
          <6>2. c.until - Window \in Nat  BY <4>1, <6>1
          <6> QED BY <4>1, <5>2, <6>2, BeforeNat
        <5> QED BY <5>1, <5>2
      <4>4. Admitted(i) <= b + Within(run, l)
        <5>1. CASE run = 0 /\ redisKeys[k] = None
          <6>1. b = Before(l, now, Window)  BY <2>1, <2>2, <5>1
          <6>2. Admitted(i) <= Before(l, now, Window)  BY <3>1, <3>3, <5>1 DEF InRedis
          <6>3. Within(0, l) = 0  BY <4>1, WithinLess
          <6> HIDE DEF b
          <6> QED BY <4>1, <4>3, <5>1, <6>1, <6>2, <6>3
        <5>2. CASE run = 0 /\ redisKeys[k] # None /\ redisKeys[k].until \in Nat
                   /\ redisKeys[k].until - Window \in Nat /\ redisKeys[k].until <= now
          <6> DEFINE s == redisKeys[k].until - Window
                     m == redisKeys[k].count
          <6>1. b = Before(l, now, Window)  BY <2>1, <2>2, <5>2
          <6>2. Admitted(i) <= Before(l, s, Window) + Within(m, l)  BY <3>1, <3>3, <5>2, LmAssumed DEF InRedis
          <6>3. m \in Nat  BY <1>4, <5>2 DEF LmTyped, RedisCounters
          <6>4. Within(m, l) \in Nat /\ Within(m, l) <= l /\ Within(0, l) = 0  BY <4>1, <6>3, WithinLess
          <6>5. s \in Nat /\ s <= now /\ s + Window <= now  BY <4>1, <5>2
          <6> HIDE DEF s, m, l, b
          <6>6. Before(l, s, Window) \in Nat /\ Before(l, s, Window) + l <= Before(l, now, Window)  BY <4>1, <6>5, BeforeGrows
          <6> QED BY <4>1, <4>3, <5>2, <6>1, <6>2, <6>4, <6>6
        <5>3. CASE run # 0 /\ redisKeys[k] # None /\ run = redisKeys[k].count
          <6>1. c.until = redisKeys[k].until  BY <2>1, <2>2, <5>3
          <6> QED BY <3>1, <3>3, <5>3, <6>1 DEF InRedis
        <5> QED BY <1>6, <5>1, <5>2, <5>3
      <4> HIDE DEF l, b
      <4>5. (IF run + 1 <= l THEN Admitted(i) + 1 ELSE Admitted(i)) <= b + Within(run + 1, l)
        BY <1>6, <4>1, <4>3, <4>4, Admits
      <4>6. Admitted(i)' <= b + Within(n, l)  BY <4>1, <4>2, <4>5
      <4>7. InRedis(i)'  BY <1>1, <2>2, <2>3, <2>8, <3>3, <4>6 DEF InRedis, l, b
      <4> QED BY <1>1, <4>7 DEF KeyHolds
    <3> QED BY <3>2, <3>3
  <2>14. ASSUME Clean PROVE TokensHold'
    <3> SUFFICES ASSUME now < Window PROVE TokensHold'  BY <1>1 DEF TokensHold
    <3> DEFINE x == Tokens * Cardinality(Past)
               y == (Tokens * Cardinality(Past))'
               z == Tokens * Cardinality(Workers)
               m == CounterOf(limits["tpm"], redisKeys["tpm"])
    <3>1. limHist.tokens <= m /\ limHist.tokens + x <= LimitOf["tpm"] - 1 + z  BY <2>14 DEF TokensHold
    <3>2. x \in Nat /\ y \in Nat /\ z \in Nat /\ limHist.tokens \in Nat /\ Tokens \in Nat /\ y <= x  BY <2>6 DEF LmTyped
    <3>3. CASE k = "tpm"
      <4>1. Beyond(calls[w])  BY <1>1, <1>4, <3>3 DEF Beyond
      <4>2. y = x - Tokens  BY <2>6, <4>1
      <4>3. limHist'.tokens = limHist.tokens + Tokens  BY <2>7, <3>3
      <4>4. n = run + Tokens  BY <1>5, <3>3 DEF n
      <4>5. m = run
        <5>1. ~(redisKeys[k].until \in Nat /\ redisKeys[k].until - Window \in Nat /\ redisKeys[k].until <= now)  BY <1>7
        <5>2. (run = 0 /\ redisKeys[k] = None) \/ (redisKeys[k] # None /\ run = redisKeys[k].count)  BY <1>6, <5>1
        <5> QED BY <1>1, <3>3, <5>2 DEF CounterOf
      <4>6. CounterOf(limits["tpm"], redisKeys["tpm"])' = n  BY <1>1, <2>2, <2>3, <2>8, <3>3 DEF CounterOf
      <4> HIDE DEF x, y, z, m
      <4>7. limHist'.tokens <= n  BY <1>6, <3>1, <3>2, <4>3, <4>4, <4>5
      <4>8. limHist'.tokens + y <= LimitOf["tpm"] - 1 + z  BY <3>1, <3>2, <4>2, <4>3
      <4> QED BY <4>6, <4>7, <4>8 DEF TokensHold, y, z
    <3>4. CASE k # "tpm"
      <4>1. limHist'.tokens = limHist.tokens  BY <2>7, <3>4
      <4>2. redisKeys'["tpm"] = redisKeys["tpm"]  BY <2>8, <3>4, LmKeysAre
      <4>3. CounterOf(limits["tpm"], redisKeys["tpm"])' = m  BY <1>1, <4>2 DEF CounterOf
      <4> HIDE DEF x, y, z, m
      <4>4. limHist'.tokens + y <= LimitOf["tpm"] - 1 + z  BY <3>1, <3>2, <4>1
      <4> QED BY <3>1, <4>1, <4>3, <4>4 DEF TokensHold, y, z
    <3> QED BY <3>3, <3>4
  <2>15. Clean' => Clean  BY <2>7 DEF Clean
  <2> QED BY <2>10, <2>11, <2>12, <2>13, <2>14, <2>15
<1> HIDE DEF k, run, t, n, first, pass, c
<1> QED BY <1>2, <1>8, <1>9

LEMMA LmExpires == ASSUME LmIInv, NEW w \in Workers, LM!Expire(w) PROVE LmIInv'
<1> USE LmAssumed DEF LmIInv
<1> DEFINE k == LM!Key(w)
           pass == LM!Amount(w) <= LimitOf[k]
<1>1. /\ calls[w].pc = "expire" /\ LM!RateLimitMiddleware(w, pass) /\ UNCHANGED <<now, budget, inRedis, limits, objects>>
      /\ \/ redisKeys' = [redisKeys EXCEPT ![k].until = now + Window] /\ limHist' = limHist
         \/ limHist' = [limHist EXCEPT !.lost = TRUE] /\ redisKeys' = redisKeys
  BY DEF LM!Expire, LM!At
<1> HIDE DEF pass
<1>2. calls[w] \in LmCalls  BY <1>1, LmIdle DEF LmTyped
<1>3. k \in LmKeys /\ k = KeyAt(calls[w].i)  BY <1>2, KeyIn DEF LmCalls, LM!Key, KeyAt
<1> HIDE DEF k
<1>4. PICK j : /\ j \in LmCalls \cup {LM!Idle} /\ calls' = [calls EXCEPT ![w] = j] /\ ~Beyond(j) /\ j.pc \notin {"count", "expire"}
  <2>1. calls[w].pc \in {"check", "count", "expire"}  BY <1>1
  <2> QED BY <1>1, <2>1, VerdictMoves
<1>5. /\ calls' \in [Workers -> LmCalls \cup {LM!Idle}]
      /\ calls'[w] = j /\ \A u \in Workers \ {w} : calls'[u] = calls[u]
      /\ Tokens * Cardinality(Past) \in Nat /\ (Tokens * Cardinality(Past))' \in Nat /\ Tokens * Cardinality(Workers) \in Nat
      /\ (Tokens * Cardinality(Past))' <= Tokens * Cardinality(Past)
  BY <1>4, LmMoves
<1>6. CASE limHist' = [limHist EXCEPT !.lost = TRUE] /\ redisKeys' = redisKeys
  <2>1. limHist' \in [admitted : [LmKeys -> Nat], tokens : Nat, orphan : BOOLEAN, lost : BOOLEAN, failed : BOOLEAN] /\ limHist'.lost
    BY <1>6 DEF LmTyped
  <2>2. LmTyped'  BY <1>1, <1>5, <1>6, <2>1 DEF LmTyped
  <2>3. Pointers'  BY <1>1, <1>4, <1>5, <1>6 DEF Pointers
  <2>4. ~Clean'  BY <2>1 DEF Clean
  <2> QED BY <2>2, <2>3, <2>4
<1>7. CASE redisKeys' = [redisKeys EXCEPT ![k].until = now + Window] /\ limHist' = limHist
  <2> DEFINE r == redisKeys[k]
             c == [r EXCEPT !.until = now + Window]
  <2>1. r \in RedisCounters /\ r # None /\ inRedis  BY <1>1, <1>3 DEF LmTyped, Pointers
  <2>2. now \in Nat /\ now + Window \in Nat /\ now + Window >= Window /\ (now + Window) - Window = now  BY DEF LmTyped
  <2>3. c \in RedisCounters /\ c # None /\ c.count = r.count /\ c.until = now + Window /\ c.until # None
    <3>1. c = [count |-> r.count, until |-> now + Window] /\ r.count \in Nat \ {0}  BY <2>1 DEF RedisCounters
    <3> QED BY <2>2, <3>1, LmNone DEF RedisCounters
  <2>4. redisKeys' = [redisKeys EXCEPT ![k] = c]  BY <1>7
  <2> HIDE DEF c
  <2>5. redisKeys' \in [LmKeys -> RedisCounters \cup {None}] /\ redisKeys'[k] = c /\ \A i \in LmKeys \ {k} : redisKeys'[i] = redisKeys[i]
    BY <1>3, <2>3, <2>4 DEF LmTyped
  <2>6. LmTyped'  BY <1>1, <1>5, <1>7, <2>5 DEF LmTyped
  <2>7. Pointers'
    <3>1. \A u \in Workers : calls'[u].pc # "count"  BY <1>4, <1>5, <2>1 DEF Pointers
    <3>2. \A u \in Workers : calls'[u].pc = "expire" => redisKeys'[KeyAt(calls'[u].i)] # None
      <4> SUFFICES ASSUME NEW u \in Workers, calls'[u].pc = "expire" PROVE redisKeys'[KeyAt(calls'[u].i)] # None  OBVIOUS
      <4>1. u # w  BY <1>4, <1>5
      <4>2. calls'[u] = calls[u] /\ calls[u] \in LmCalls  BY <1>5, <4>1, LmIdle DEF LmTyped
      <4>3. KeyAt(calls[u].i) \in LmKeys /\ redisKeys[KeyAt(calls[u].i)] # None  BY <4>2, KeyIn DEF LmCalls, Pointers
      <4> QED BY <2>3, <2>5, <4>2, <4>3
    <3>3. \A i \in LmKeys : redisKeys'[i] # None /\ redisKeys'[i].until # None =>
            redisKeys'[i].until >= Window /\ redisKeys'[i].until - Window <= now
      BY <2>2, <2>3, <2>5 DEF Pointers
    <3> QED BY <1>1, <2>1, <3>1, <3>2, <3>3 DEF Pointers
  <2>8. ASSUME Clean PROVE Expiring'
    <3>0. PICK q \in LmKeys : q = k  BY <1>3
    <3>1. ~Endless(q)'
      <4>1. redisKeys'[q] = c  BY <2>5, <3>0
      <4> QED BY <2>3, <4>1 DEF Endless
    <3>2. ASSUME NEW i \in LmKeys, i # q PROVE Endless(i)' <=> Endless(i)
      <4>1. redisKeys'[i] = redisKeys[i]  BY <2>5, <3>0, <3>2
      <4> QED BY <4>1 DEF Endless
    <3>3. GivesEnd(w) /\ ~GivesEnd(w)' /\ KeyAt(calls[w].i) = q  BY <1>1, <1>3, <1>4, <1>5, <3>0 DEF GivesEnd
    <3>4. \A u \in Workers \ {w} : (GivesEnd(u)' <=> GivesEnd(u)) /\ KeyAt(calls'[u].i) = KeyAt(calls[u].i)  BY <1>5 DEF GivesEnd
    <3>5. ASSUME NEW u \in Workers, GivesEnd(u)' PROVE Endless(KeyAt(calls[u].i))'
      <4>1. u # w /\ GivesEnd(u) /\ KeyAt(calls'[u].i) = KeyAt(calls[u].i)  BY <3>3, <3>4, <3>5
      <4>2. calls[u] \in LmCalls  BY <4>1, LmIdle DEF LmTyped, GivesEnd
      <4>3. PICK i \in LmKeys : i = KeyAt(calls[u].i)  BY <4>2, KeyIn DEF LmCalls
      <4>4. Endless(i) /\ i # q  BY <2>8, <3>3, <4>1, <4>3 DEF Expiring
      <4>5. Endless(i)'  BY <3>2, <4>4
      <4> QED BY <4>1, <4>3, <4>5 DEF Endless
    <3>6. \A u, v \in Workers : GivesEnd(u)' /\ GivesEnd(v)' /\ KeyAt(calls'[u].i) = KeyAt(calls'[v].i) => u = v
      BY <2>8, <3>3, <3>4 DEF Expiring
    <3>7. ASSUME NEW i \in LmKeys, Endless(i)' PROVE \E u \in Workers : GivesEnd(u)' /\ KeyAt(calls'[u].i) = i
      <4>1. i # q  BY <3>1, <3>7
      <4>4. Endless(i)  BY <3>2, <3>7, <4>1
      <4>2. PICK u \in Workers : GivesEnd(u) /\ KeyAt(calls[u].i) = i  BY <2>8, <4>4 DEF Expiring
      <4>3. u # w  BY <3>3, <4>1, <4>2
      <4> QED BY <3>4, <4>2, <4>3
    <3> HIDE DEF LmIInv
    <3> QED BY <3>5, <3>6, <3>7 DEF Expiring
  <2>9. ASSUME Clean, NEW i \in LmKeys \ {"tpm"} PROVE KeyHolds(i)'
    <3>1. InRedis(i)  BY <2>1, <2>9 DEF KeyHolds
    <3>2. CASE i # k
      <4>1. redisKeys'[i] = redisKeys[i]  BY <2>5, <3>2
      <4>2. InRedis(i)'  BY <1>1, <1>7, <3>1, <4>1 DEF InRedis, Admitted
      <4> QED BY <1>1, <2>1, <4>2 DEF KeyHolds
    <3>3. CASE i = k
      <4>1. Endless(k)  BY <1>1, <1>3, <2>9 DEF Expiring, GivesEnd
      <4>2. Admitted(i) <= Before(LimitOf[i], now, Window) + Within(r.count, LimitOf[i])  BY <3>1, <3>3, <4>1 DEF InRedis, Endless
      <4>3. redisKeys'[i] # None /\ redisKeys'[i].until # None /\ redisKeys'[i].until - Window = now /\ redisKeys'[i].count = r.count
        BY <2>2, <2>3, <2>5, <3>3
      <4>4. InRedis(i)'  BY <1>7, <4>2, <4>3 DEF InRedis, Admitted
      <4> QED BY <1>1, <2>1, <4>4 DEF KeyHolds
    <3> QED BY <3>2, <3>3
  <2>10. ASSUME Clean PROVE TokensHold'
    <3> SUFFICES ASSUME now < Window PROVE TokensHold'  BY <1>1 DEF TokensHold
    <3> DEFINE x == Tokens * Cardinality(Past)
               y == (Tokens * Cardinality(Past))'
               z == Tokens * Cardinality(Workers)
               m == CounterOf(limits["tpm"], redisKeys["tpm"])
    <3>1. limHist.tokens <= m /\ limHist.tokens + x <= LimitOf["tpm"] - 1 + z  BY <2>10 DEF TokensHold
    <3>2. x \in Nat /\ y \in Nat /\ z \in Nat /\ limHist.tokens \in Nat /\ y <= x  BY <1>5 DEF LmTyped
    <3>3. CounterOf(limits["tpm"], redisKeys["tpm"])' = m
      <4>1. CASE k = "tpm"  BY <1>1, <2>1, <2>3, <2>5, <4>1 DEF CounterOf
      <4>2. CASE k # "tpm"  BY <1>1, <2>5, <4>2, LmKeysAre DEF CounterOf
      <4> QED BY <4>1, <4>2
    <3> HIDE DEF x, y, z, m
    <3>4. limHist.tokens + y <= LimitOf["tpm"] - 1 + z  BY <3>1, <3>2
    <3> QED BY <1>7, <3>1, <3>3, <3>4 DEF TokensHold, y, z
  <2>11. Clean' => Clean  BY <1>7 DEF Clean
  <2> QED BY <2>6, <2>7, <2>8, <2>9, <2>10, <2>11
<1> QED BY <1>1, <1>6, <1>7

LEMMA LmTicks == ASSUME LmIInv, LM!Tick PROVE LmIInv'
<1> USE LmAssumed DEF LmIInv
<1>1. now < Clock["LM"] /\ now' = now + 1 /\ UNCHANGED <<budget, inRedis, limits, objects, redisKeys, calls, limHist>>
  BY DEF LM!Tick, LM!stores
<1>2. now \in Nat /\ now' \in Nat /\ now' \in 0..Clock["LM"] /\ now <= now'  BY <1>1 DEF LmTyped
<1>3. LmTyped'  BY <1>1, <1>2 DEF LmTyped
<1>4. Pointers'
  <2>1. ASSUME NEW o \in Objects, objects[o] # None PROVE objects[o].reset >= Window /\ objects[o].reset - Window <= now'
    <3>1. objects[o].reset \in Nat /\ objects[o].reset >= Window /\ objects[o].reset - Window <= now
      BY <2>1 DEF LmTyped, Counters, Pointers
    <3> QED BY <1>2, <3>1
  <2>2. ASSUME NEW k \in LmKeys, redisKeys[k] # None, redisKeys[k].until # None
        PROVE  redisKeys[k].until >= Window /\ redisKeys[k].until - Window <= now'
    <3>1. redisKeys[k].until \in Nat /\ redisKeys[k].until >= Window /\ redisKeys[k].until - Window <= now
      BY <2>2 DEF LmTyped, RedisCounters, Pointers
    <3> QED BY <1>2, <3>1
  <2> QED BY <1>1, <2>1, <2>2 DEF Pointers
<1>5. Expiring => Expiring'  BY <1>1 DEF Expiring, Endless, GivesEnd
<1>6. ASSUME NEW k \in LmKeys \ {"tpm"}, KeyHolds(k) PROVE KeyHolds(k)'
  <2> DEFINE l == LimitOf[k]
  <2>1. l \in Nat /\ Admitted(k) \in Nat /\ Admitted(k)' = Admitted(k)  BY <1>1, LmKeysAre DEF LmTyped, Admitted
  <2>2. ASSUME NEW p \in Nat \ {0} PROVE Before(l, now, p) \in Nat /\ Before(l, now', p) \in Nat /\ Before(l, now, p) <= Before(l, now', p)
    BY <1>2, <2>1, BeforeGrows
  <2>3. CASE inRedis
    <3>1. InRedis(k)  BY <1>6, <2>3 DEF KeyHolds
    <3>2. Before(l, now, Window) \in Nat /\ Before(l, now', Window) \in Nat /\ Before(l, now, Window) <= Before(l, now', Window)
      BY <2>2
    <3>3. CASE redisKeys[k] = None
      <4>1. Admitted(k) <= Before(l, now, Window)  BY <3>1, <3>3 DEF InRedis
      <4>2. Admitted(k) <= Before(l, now', Window)  BY <2>1, <3>2, <4>1
      <4>3. InRedis(k)'  BY <1>1, <2>1, <3>3, <4>2 DEF InRedis
      <4> QED BY <1>1, <2>3, <4>3 DEF KeyHolds
    <3>4. CASE redisKeys[k] # None /\ redisKeys[k].until = None
      <4> DEFINE q == Within(redisKeys[k].count, l)
      <4>1. Admitted(k) <= Before(l, now, Window) + q  BY <3>1, <3>4 DEF InRedis
      <4>2. q \in Nat
        <5>1. redisKeys[k].count \in Nat  BY <3>4 DEF LmTyped, RedisCounters
        <5> QED BY <2>1, <5>1, WithinLess
      <4> HIDE DEF q
      <4>3. Admitted(k) <= Before(l, now', Window) + q  BY <2>1, <3>2, <4>1, <4>2
      <4>4. InRedis(k)'  BY <1>1, <2>1, <3>4, <4>3 DEF InRedis, q
      <4> QED BY <1>1, <2>3, <4>4 DEF KeyHolds
    <3>5. CASE redisKeys[k] # None /\ redisKeys[k].until # None
      <4>1. InRedis(k)'  BY <1>1, <2>1, <3>1, <3>5 DEF InRedis
      <4> QED BY <1>1, <2>3, <4>1 DEF KeyHolds
    <3> QED BY <3>3, <3>4, <3>5
  <2>4. CASE ~inRedis
    <3>1. InMemory(k)  BY <1>6, <2>4 DEF KeyHolds
    <3>2. CASE limits[k] = None
      <4>1. Admitted(k) <= Before(l, now, Window + 1)  BY <3>1, <3>2 DEF InMemory
      <4>2. Window + 1 \in Nat \ {0}  OBVIOUS
      <4>3. Before(l, now, Window + 1) \in Nat /\ Before(l, now', Window + 1) \in Nat
            /\ Before(l, now, Window + 1) <= Before(l, now', Window + 1)
        BY <2>2, <4>2
      <4>4. Admitted(k) <= Before(l, now', Window + 1)  BY <2>1, <4>1, <4>3
      <4>5. InMemory(k)'  BY <1>1, <2>1, <3>2, <4>4 DEF InMemory
      <4> QED BY <1>1, <2>4, <4>5 DEF KeyHolds
    <3>3. CASE limits[k] # None
      <4>1. InMemory(k)'  BY <1>1, <2>1, <3>1, <3>3 DEF InMemory
      <4> QED BY <1>1, <2>4, <4>1 DEF KeyHolds
    <3> QED BY <3>2, <3>3
  <2> QED BY <2>3, <2>4
<1>7. TokensHold => TokensHold'
  <2>1. now' < Window => now < Window  BY <1>2
  <2>2. Past' = Past /\ CounterOf(limits["tpm"], redisKeys["tpm"])' = CounterOf(limits["tpm"], redisKeys["tpm"])
    BY <1>1 DEF Past, CounterOf
  <2> QED BY <1>1, <2>1, <2>2 DEF TokensHold
<1>8. Clean' <=> Clean  BY <1>1 DEF Clean
<1> QED BY <1>3, <1>4, <1>5, <1>6, <1>7, <1>8

LEMMA LmRestarts == ASSUME LmIInv, LM!Restart PROVE LmIInv'
<1> USE LmAssumed DEF LmIInv
<1>1. /\ budget > 0 /\ budget' = budget - 1 /\ calls' = [u \in Workers |-> LM!Idle] /\ limits' = [k \in LmKeys |-> None]
      /\ objects' = [o \in Objects |-> None] /\ limHist' = [limHist EXCEPT !.lost = TRUE] /\ UNCHANGED <<now, inRedis, redisKeys>>
  BY LmKeysAre DEF LM!Restart
<1>2. limHist' \in [admitted : [LmKeys -> Nat], tokens : Nat, orphan : BOOLEAN, lost : BOOLEAN, failed : BOOLEAN] /\ limHist'.lost
  BY <1>1 DEF LmTyped
<1>3. budget' \in 0..Starts["LM"]  BY <1>1 DEF LmTyped
<1>4. LmTyped'  BY <1>1, <1>2, <1>3 DEF LmTyped
<1>5. Pointers'  BY <1>1, LmIdle DEF Pointers
<1>6. ~Clean'  BY <1>2 DEF Clean
<1> QED BY <1>4, <1>5, <1>6

LEMMA LmStep == ASSUME LmIInv, LM!Next PROVE LmIInv'
BY LmArrives, LmLoads, LmCounts, LmRedis, LmExpires, LmPeeks, LmRecords, LmSweeps, LmTicks, LmRestarts, LmKeysAre DEF LM!Next

LEMMA LmStill == ASSUME LmIInv, UNCHANGED <<now, budget, lmVars>> PROVE LmIInv'
<1>1. UNCHANGED <<now, budget, inRedis, limits, objects, redisKeys, calls, limHist>>  BY DEF lmVars
<1>2. LmTyped' <=> LmTyped  BY <1>1 DEF LmTyped
<1>3. Pointers' <=> Pointers  BY <1>1 DEF Pointers
<1>4. Expiring' <=> Expiring  BY <1>1 DEF Expiring, Endless, GivesEnd
<1>5. \A k \in LmKeys : KeyHolds(k)' <=> KeyHolds(k)  BY <1>1 DEF KeyHolds, InRedis, InMemory, Admitted
<1>6. TokensHold' <=> TokensHold  BY <1>1 DEF TokensHold, CounterOf, Past
<1> QED BY <1>1, <1>2, <1>3, <1>4, <1>5, <1>6 DEF LmIInv, Clean

\* LimitsHold: no counter lets more calls through than its limit for each of its windows, tokens
\* exceed the group's limit by no more than the calls on their way, and a key of Redis without
\* an end is about to get one, for any chain of counters, limits, windows and number of calls.
THEOREM LimitsAreHeld == ServerSpec => []LimitsHold
<1> DEFINE I == part = "LM" => LmIInv
<1>1. ServerInit => I  BY LmInit DEF ServerInit, AdministrationInit
<1>2. I /\ [ServerNext]_serverVars => I'
  <2> SUFFICES ASSUME I, [ServerNext]_serverVars PROVE I'  OBVIOUS
  <2>1. CASE part = "LM" /\ LM!Next /\ part' = part  BY <2>1, LmStep
  <2>2. CASE part' = part /\ part # "LM"  BY <2>2
  <2>3. CASE UNCHANGED serverVars  BY <2>3, LmStill DEF serverVars, administration
  <2> QED BY <2>1, <2>2, <2>3 DEF ServerNext, AdministrationNext, GatewayNext
<1>3. I => LimitsHold  BY LmImplies DEF LimitsHold
<1> QED BY <1>1, <1>2, <1>3, PTL DEF ServerSpec
=============================================================================
