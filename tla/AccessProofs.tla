---------------------------- MODULE AccessProofs ----------------------------
(***************************************************************************)
(* Proofs for the components that let users in, each for any number of     *)
(* users, requests at work, identifiers and restarts, and any lifetimes    *)
(* and limits: real-name verification, passkeys, the second factor with    *)
(* its tickets and web tokens, sign-in through a provider, Codex keys.     *)
(***************************************************************************)
EXTENDS Access, TLAPS, SequenceTheorems, FiniteSetTheorems

---------------------------------------------------------------------------
(* Realname: the inductive invariant. *)

\* A row's status follows the provider's verdict on its case, and so does the status a request
\* is about to save, which is never one that was only read.
RowsFollow ==
  \A i \in DOMAIN records :
    /\ records[i] \in {"passed", "expired"} => verdicts[i] = "T"
    /\ records[i] = "failed" => verdicts[i] = "F"
JobFollows(j) ==
  j.pc \in {"ask", "save", "user"} =>
    /\ j.row \in DOMAIN records
    /\ j.status \in {"passed", "expired"} => verdicts[j.row] = "T"
    /\ j.status = "failed" => verdicts[j.row] = "F"
    /\ j.pc # "ask" => j.status # "expired"
    /\ j.pc = "user" => j.status \in {"passed", "failed"}

\* One request at a time, and nothing lost.
InTurn == ~nameHist.overlap /\ ~nameHist.broken
OneAtWork == InTurn => \A v, w \in Workers : inquiries[v] # RN!Idle /\ inquiries[w] # RN!Idle => v = w

\* Where requests take turns: a status stands on a row; none says passed while the user is
\* pending, but between the two writes of a request; what a request holds is what its row says.
Stands == verified \in {"passed", "failed"} => \E i \in DOMAIN records : records[i] = verified
NonePassed == verified = "pending" => \A i \in DOMAIN records : records[i] # "passed"
Between(j) ==
  /\ j.pc \notin {"user", "expire"} => NonePassed
  /\ j.pc = "expire" => verified = "pending"
  /\ j.pc \in {"ask", "user"} => records[j.row] = j.status
  /\ j.pc = "save" => (j.status = "pending" => records[j.row] = "pending")
InStep == InTurn => Stands /\ (RN!Quiet => NonePassed) /\ \A w \in Workers : inquiries[w] # RN!Idle => Between(inquiries[w])

NameGenuine == verified = "passed" => \E i \in DOMAIN verdicts : verdicts[i] = "T"

NameTyped == RN!TypeOK /\ NameGenuine /\ RowsFollow /\ \A w \in Workers : JobFollows(inquiries[w])
Turns == OneAtWork /\ InStep
NameIInv == NameTyped /\ Turns

---------------------------------------------------------------------------
(* Realname: what the helpers do. *)

Inquiries == {RN!Idle, [pc |-> "open"], [pc |-> "expire"]} \cup [pc : {"ask", "save", "user"}, row : Nat, status : RN!Statuses]
NameHists == [overlap : BOOLEAN, broken : BOOLEAN]

\* The table and the provider's cases go side by side.
LEMMA Tables ==
  ASSUME RN!TypeOK
  PROVE  /\ records \in Seq(RN!Statuses) /\ verdicts \in Seq(RN!Verdicts) /\ Len(records) \in Nat
         /\ Len(verdicts) = Len(records)
         /\ DOMAIN records = 1..Len(records) /\ DOMAIN verdicts = 1..Len(records)
<1>1. records \in Seq(RN!Statuses) /\ verdicts \in Seq(RN!Verdicts) /\ Len(records) = Len(verdicts)  BY DEF RN!TypeOK
<1> QED BY <1>1

LEMMA RowAdded ==
  ASSUME records \in Seq(RN!Statuses), records' = Append(records, "pending")
  PROVE  /\ records' \in Seq(RN!Statuses) /\ Len(records') = Len(records) + 1
         /\ \A i \in 1..Len(records) : records'[i] = records[i]
         /\ records'[Len(records) + 1] = "pending"
<1>1. "pending" \in RN!Statuses  BY DEF RN!Statuses
<1> QED BY <1>1

LEMMA CaseAdded ==
  ASSUME verdicts \in Seq(RN!Verdicts), verdicts' = Append(verdicts, "none")
  PROVE  /\ verdicts' \in Seq(RN!Verdicts) /\ Len(verdicts') = Len(verdicts) + 1
         /\ \A i \in 1..Len(verdicts) : verdicts'[i] = verdicts[i]
<1>1. "none" \in RN!Verdicts  BY DEF RN!Verdicts
<1> QED BY <1>1

LEMMA Replaced ==
  ASSUME NEW S, NEW s \in Seq(S), NEW e \in S, NEW k \in 1..Len(s), NEW t, t = [s EXCEPT ![k] = e]
  PROVE  /\ t \in Seq(S) /\ Len(t) = Len(s) /\ DOMAIN t = 1..Len(s) /\ t[k] = e
         /\ \A i \in 1..Len(s) : i # k => t[i] = s[i]
OBVIOUS

\* Begin notes an overlap unless everyone was idle.
LEMMA BeginHist ==
  ASSUME NEW w \in Workers, NEW j, nameHist \in NameHists, RN!Begin(w, j)
  PROVE  nameHist' \in NameHists /\ (InTurn' => InTurn /\ RN!Quiet)
<1>1. nameHist' = [nameHist EXCEPT !.overlap = nameHist.overlap \/ ~RN!Quiet]  BY DEF RN!Begin
<1>2. nameHist.broken \in BOOLEAN /\ nameHist'.broken = nameHist.broken /\ nameHist'.overlap = (nameHist.overlap \/ ~RN!Quiet)
  BY <1>1, Zenon DEF NameHists
<1>3. nameHist' \in NameHists  BY <1>1, Zenon DEF NameHists
<1> QED BY <1>2, <1>3, Zenon DEF InTurn

\* After a lost statement nothing is claimed any more.
LEMMA BrokenHist ==
  ASSUME nameHist \in NameHists, RN!Broken
  PROVE  nameHist' \in NameHists /\ ~InTurn'
<1>1. nameHist' = [nameHist EXCEPT !.broken = TRUE]  BY DEF RN!Broken
<1>2. nameHist'.broken = TRUE  BY <1>1, Zenon DEF NameHists
<1>3. nameHist' \in NameHists  BY <1>1, Zenon DEF NameHists
<1> QED BY <1>2, <1>3, Zenon DEF InTurn

\* When everybody is idle, only the two agreements are left to show.
LEMMA AllIdle ==
  ASSUME InTurn' => (\A v \in Workers : inquiries'[v] = RN!Idle) /\ Stands' /\ NonePassed'
  PROVE  Turns'
BY DEF Turns, OneAtWork, InStep

\* When one request is at work, they may be in between.
LEMMA OneBusy ==
  ASSUME NEW w \in Workers,
         InTurn' => (\A v \in Workers \ {w} : inquiries'[v] = RN!Idle) /\ inquiries'[w] # RN!Idle /\ Stands' /\ Between(inquiries[w])'
  PROVE  Turns'
BY DEF Turns, OneAtWork, InStep, RN!Quiet

\* Whoever is at work in turn is alone.
LEMMA Alone ==
  ASSUME Turns, InTurn, NEW w \in Workers, inquiries[w] # RN!Idle
  PROVE  (\A v \in Workers \ {w} : inquiries[v] = RN!Idle) /\ Stands /\ Between(inquiries[w])
BY DEF Turns, OneAtWork, InStep

---------------------------------------------------------------------------
(* Realname: the initial state and the actions. *)

LEMMA NameInit == RN!Init => NameIInv
<1> SUFFICES ASSUME RN!Init PROVE NameIInv  OBVIOUS
<1>1. nameHist \in NameHists  BY Zenon DEF RN!Init, NameHists
<1>2. inquiries \in [Workers -> Inquiries] /\ (\A w \in Workers : inquiries[w] = RN!Idle)  BY DEF RN!Init, Inquiries
<1>3. RN!TypeOK  BY <1>1, <1>2 DEF RN!Init, RN!TypeOK, Inquiries, NameHists, RN!Verdicts, RN!Statuses
<1>4. NameTyped  BY <1>2, <1>3 DEF RN!Init, NameTyped, NameGenuine, RowsFollow, JobFollows, RN!Idle
<1>5. Turns  BY <1>2 DEF RN!Init, Turns, OneAtWork, InStep, Stands, NonePassed
<1> QED BY <1>4, <1>5 DEF NameIInv

LEMMA StepInitRealnameVerify ==
  ASSUME NameIInv, NEW w \in Workers, RN!InitRealnameVerify(w)
  PROVE  NameIInv'
<1> DEFINE j == [pc |-> "open"]
<1>0. RN!Begin(w, j) /\ UNCHANGED <<verdicts, records, verified>>  BY DEF RN!InitRealnameVerify
<1>1. nameHist' \in NameHists /\ (InTurn' => InTurn /\ RN!Quiet)  BY <1>0, BeginHist DEF NameIInv, NameTyped, RN!TypeOK, NameHists
<1>2. inquiries' = [inquiries EXCEPT ![w] = j] /\ starts' = starts + 1  BY <1>0 DEF RN!Begin, RN!Set
<1>3. RN!TypeOK'  BY <1>0, <1>1, <1>2 DEF NameIInv, NameTyped, RN!TypeOK, NameHists
<1>4. NameTyped'  BY <1>0, <1>2, <1>3 DEF NameIInv, NameTyped, RN!TypeOK, NameGenuine, RowsFollow, JobFollows
<1>5. Turns'
  <2>1. InTurn' => (\A v \in Workers \ {w} : inquiries'[v] = RN!Idle) /\ inquiries'[w] = j /\ j # RN!Idle /\ Stands /\ NonePassed
    BY <1>1, <1>2 DEF NameIInv, NameTyped, RN!TypeOK, Turns, InStep, RN!Quiet, RN!Idle
  <2>2. InTurn' => Stands' /\ Between(inquiries[w])'
    BY <2>1, <1>0 DEF Stands, NonePassed, Between
  <2> QED BY <2>1, <2>2, OneBusy
<1> QED BY <1>4, <1>5 DEF NameIInv

LEMMA StepInitFaceVerify ==
  ASSUME NameIInv, NEW w \in Workers, RN!InitFaceVerify(w)
  PROVE  NameIInv'
<1>0. inquiries[w].pc = "open" /\ inquiries' = [inquiries EXCEPT ![w] = RN!Idle] /\ UNCHANGED <<starts, verified, nameHist>>
  BY DEF RN!InitFaceVerify, RN!At, RN!Set
<1>1. inquiries[w] # RN!Idle /\ (InTurn' => InTurn)  BY <1>0 DEF RN!Idle, InTurn
<1>2. InTurn' => (\A v \in Workers : inquiries'[v] = RN!Idle) /\ Stands /\ NonePassed
  BY <1>0, <1>1, Alone DEF NameIInv, NameTyped, RN!TypeOK, Between
<1>3. CASE UNCHANGED <<verdicts, records>>
  <2>1. RN!TypeOK'  BY <1>0, <1>3 DEF NameIInv, NameTyped, RN!TypeOK
  <2>2. NameTyped'  BY <1>0, <1>3, <2>1 DEF NameIInv, NameTyped, RN!TypeOK, NameGenuine, RowsFollow, JobFollows, RN!Idle
  <2>3. Turns'  BY <1>0, <1>2, <1>3, AllIdle DEF Stands, NonePassed
  <2> QED BY <2>2, <2>3 DEF NameIInv
<1>4. CASE verdicts' = Append(verdicts, "none") /\ records' = Append(records, "pending")
  <2>1. /\ verdicts' \in Seq(RN!Verdicts) /\ records' \in Seq(RN!Statuses) /\ Len(records') = Len(verdicts')
        /\ DOMAIN records' = 1..(Len(records) + 1) /\ DOMAIN verdicts' = 1..(Len(records) + 1)
        /\ \A i \in 1..Len(records) : records'[i] = records[i] /\ verdicts'[i] = verdicts[i]
        /\ records'[Len(records) + 1] = "pending"
        /\ DOMAIN records = 1..Len(records) /\ DOMAIN verdicts = 1..Len(records) /\ Len(records) \in Nat
    <3>2. RN!TypeOK  BY DEF NameIInv, NameTyped
    <3>3. records \in Seq(RN!Statuses) /\ verdicts \in Seq(RN!Verdicts) /\ Len(verdicts) = Len(records)  BY <3>2, Tables
    <3>4. /\ verdicts' \in Seq(RN!Verdicts) /\ Len(verdicts') = Len(verdicts) + 1
          /\ \A i \in 1..Len(verdicts) : verdicts'[i] = verdicts[i]
      BY <1>4, <3>3, CaseAdded
    <3>5. /\ records' \in Seq(RN!Statuses) /\ Len(records') = Len(records) + 1
          /\ \A i \in 1..Len(records) : records'[i] = records[i]
          /\ records'[Len(records) + 1] = "pending"
      BY <1>4, <3>3, RowAdded
    <3>6. Len(records) \in Nat /\ DOMAIN records = 1..Len(records) /\ DOMAIN verdicts = 1..Len(records)  BY <3>2, Tables
    <3>7. DOMAIN records' = 1..Len(records') /\ DOMAIN verdicts' = 1..Len(verdicts')  BY <3>4, <3>5
    <3> QED BY <3>3, <3>4, <3>5, <3>6, <3>7
  <2>2. RN!TypeOK'  BY <1>0, <2>1 DEF NameIInv, NameTyped, RN!TypeOK
  <2>3. NameGenuine' /\ RowsFollow'  BY <1>0, <2>1 DEF NameIInv, NameTyped, NameGenuine, RowsFollow
  <2>4. \A v \in Workers : JobFollows(inquiries[v])'
    <3> SUFFICES ASSUME NEW v \in Workers PROVE JobFollows(inquiries[v])'  OBVIOUS
    <3>1. CASE v = w  BY <3>1, <1>0 DEF NameIInv, NameTyped, RN!TypeOK, JobFollows, RN!Idle
    <3>2. CASE v # w
      <4>1. inquiries'[v] = inquiries[v] /\ JobFollows(inquiries[v])  BY <3>2, <1>0 DEF NameIInv, NameTyped, RN!TypeOK
      <4> QED BY <4>1, <2>1 DEF JobFollows
    <3> QED BY <3>1, <3>2
  <2>5. InTurn' => Stands' /\ NonePassed'  BY <1>0, <1>2, <2>1 DEF Stands, NonePassed
  <2> QED BY <1>2, <2>2, <2>3, <2>4, <2>5, AllIdle DEF NameIInv, NameTyped
<1> QED BY <1>3, <1>4 DEF RN!InitFaceVerify

LEMMA StepDecide ==
  ASSUME NameIInv, RN!Decide
  PROVE  NameIInv'
<1>0. UNCHANGED <<starts, records, verified, inquiries, nameHist>>  BY DEF RN!Decide
<1>1. PICK k \in DOMAIN verdicts, v \in {"T", "F"} : verdicts[k] = "none" /\ verdicts' = [verdicts EXCEPT ![k] = v]
  BY DEF RN!Decide
<1>2. /\ verdicts' \in Seq(RN!Verdicts) /\ Len(verdicts') = Len(verdicts) /\ DOMAIN verdicts' = DOMAIN verdicts
      /\ DOMAIN verdicts = DOMAIN records
      /\ \A i \in DOMAIN verdicts : verdicts[i] # "none" => verdicts'[i] = verdicts[i]
  <2>1. v \in RN!Verdicts  BY DEF RN!Verdicts
  <2>2. RN!TypeOK  BY DEF NameIInv, NameTyped
  <2>3. k \in 1..Len(verdicts)  BY <2>2, Tables
  <2>4. verdicts \in Seq(RN!Verdicts) /\ verdicts' = [verdicts EXCEPT ![k] = v]  BY <1>1, <2>2, Tables
  <2>5. /\ verdicts' \in Seq(RN!Verdicts) /\ Len(verdicts') = Len(verdicts) /\ DOMAIN verdicts' = 1..Len(verdicts)
        /\ \A i \in 1..Len(verdicts) : i # k => verdicts'[i] = verdicts[i]
    BY <2>1, <2>3, <2>4, Replaced
  <2> QED BY <1>1, <2>2, <2>5, Tables
<1>3. RN!TypeOK'  BY <1>0, <1>2 DEF NameIInv, NameTyped, RN!TypeOK
<1>4. NameGenuine' /\ RowsFollow'  BY <1>0, <1>2 DEF NameIInv, NameTyped, NameGenuine, RowsFollow
<1>5. \A u \in Workers : JobFollows(inquiries[u])'
  <2> SUFFICES ASSUME NEW u \in Workers PROVE JobFollows(inquiries[u])'  OBVIOUS
  <2>1. JobFollows(inquiries[u]) /\ inquiries'[u] = inquiries[u]  BY <1>0 DEF NameIInv, NameTyped
  <2> QED BY <1>0, <1>2, <2>1 DEF JobFollows
<1>6. Turns'
  BY <1>0 DEF NameIInv, Turns, OneAtWork, InStep, InTurn, Stands, NonePassed, Between, RN!Quiet
<1> QED BY <1>3, <1>4, <1>5, <1>6 DEF NameIInv, NameTyped

LEMMA StepQueryRealnameResult ==
  ASSUME NameIInv, NEW w \in Workers, RN!QueryRealnameResult(w)
  PROVE  NameIInv'
<1>0. UNCHANGED <<verdicts, records, verified>>  BY DEF RN!QueryRealnameResult
<1>p. PICK i \in DOMAIN records : RN!Begin(w, [pc |-> "ask", row |-> i, status |-> records[i]])  BY DEF RN!QueryRealnameResult
<1>1. nameHist' \in NameHists /\ (InTurn' => InTurn /\ RN!Quiet)  BY <1>p, BeginHist DEF NameIInv, NameTyped, RN!TypeOK, NameHists
<1>2. inquiries' = [inquiries EXCEPT ![w] = [pc |-> "ask", row |-> i, status |-> records[i]]] /\ starts' = starts + 1
  BY <1>p DEF RN!Begin, RN!Set
<1>3. i \in Nat /\ records[i] \in RN!Statuses
  <2>1. RN!TypeOK  BY DEF NameIInv, NameTyped
  <2>2. records \in Seq(RN!Statuses) /\ Len(records) \in Nat /\ i \in 1..Len(records)  BY <2>1, Tables
  <2> QED BY <2>2
<1>4. PICK j \in Inquiries : j # RN!Idle /\ j.pc = "ask" /\ j.row = i /\ j.status = records[i] /\ inquiries' = [inquiries EXCEPT ![w] = j]
  <2> DEFINE k == [pc |-> "ask", row |-> i, status |-> records[i]]
  <2>1. k \in Inquiries /\ k # RN!Idle /\ k.pc = "ask" /\ k.row = i /\ k.status = records[i]  BY <1>3 DEF Inquiries, RN!Idle
  <2>2. inquiries' = [inquiries EXCEPT ![w] = k]  BY <1>2
  <2> HIDE DEF k
  <2> QED BY <2>1, <2>2
<1>5. inquiries'[w] = j /\ \A v \in Workers \ {w} : inquiries'[v] = inquiries[v]  BY <1>4 DEF NameIInv, NameTyped, RN!TypeOK
<1>6. RN!TypeOK'  BY <1>0, <1>1, <1>2, <1>4 DEF NameIInv, NameTyped, RN!TypeOK, NameHists, Inquiries
<1>7. NameGenuine' /\ RowsFollow'  BY <1>0 DEF NameIInv, NameTyped, NameGenuine, RowsFollow
<1>8. \A v \in Workers : JobFollows(inquiries[v])'
  <2>1. JobFollows(inquiries[w])'  BY <1>0, <1>4, <1>5 DEF NameIInv, NameTyped, RowsFollow, JobFollows
  <2> QED BY <1>0, <1>5, <2>1 DEF NameIInv, NameTyped, JobFollows
<1>9. Turns'
  <2>1. InTurn' => (\A v \in Workers \ {w} : inquiries'[v] = RN!Idle) /\ Stands /\ NonePassed
    BY <1>1, <1>5 DEF NameIInv, Turns, InStep, RN!Quiet
  <2>2. InTurn' => Stands' /\ Between(inquiries[w])'
    BY <2>1, <1>0, <1>4, <1>5 DEF Stands, NonePassed, Between
  <2> QED BY <2>1, <2>2, <1>4, <1>5, OneBusy
<1> QED BY <1>6, <1>7, <1>8, <1>9 DEF NameIInv, NameTyped

LEMMA StepDescribeFaceVerify ==
  ASSUME NameIInv, NEW w \in Workers, RN!DescribeFaceVerify(w)
  PROVE  NameIInv'
<1>0. inquiries[w].pc = "ask" /\ UNCHANGED <<starts, verdicts, records, verified, nameHist>>
  BY DEF RN!DescribeFaceVerify, RN!At
<1>1. /\ inquiries[w] # RN!Idle /\ inquiries[w] \in [pc : {"ask", "save", "user"}, row : Nat, status : RN!Statuses]
      /\ (InTurn' => InTurn) /\ JobFollows(inquiries[w])
  BY <1>0 DEF NameIInv, NameTyped, RN!TypeOK, RN!Idle, InTurn
<1>2. InTurn' => (\A v \in Workers \ {w} : inquiries[v] = RN!Idle) /\ Stands /\ NonePassed /\ records[inquiries[w].row] = inquiries[w].status
  BY <1>0, <1>1, Alone DEF NameIInv, Between
<1>3. CASE inquiries' = [inquiries EXCEPT ![w] = RN!Idle]
  <2>1. RN!TypeOK'  BY <1>0, <1>3 DEF NameIInv, NameTyped, RN!TypeOK
  <2>2. NameTyped'  BY <1>0, <1>3, <2>1 DEF NameIInv, NameTyped, RN!TypeOK, NameGenuine, RowsFollow, JobFollows, RN!Idle
  <2>3. InTurn' => (\A v \in Workers : inquiries'[v] = RN!Idle)  BY <1>2, <1>3 DEF NameIInv, NameTyped, RN!TypeOK
  <2>4. InTurn' => Stands' /\ NonePassed'  BY <1>0, <1>2 DEF Stands, NonePassed
  <2> QED BY <2>2, <2>3, <2>4, AllIdle DEF NameIInv
<1>4. CASE inquiries' = [inquiries EXCEPT ![w] = [pc |-> "save", row |-> inquiries[w].row, status |-> RN!Judged(inquiries[w].status, verdicts[inquiries[w].row])]]
  <2> DEFINE T == [pc : {"ask", "save", "user"}, row : Nat, status : RN!Statuses]
  <2>1. PICK j \in T : j.pc = "save" /\ j.row = inquiries[w].row /\ inquiries' = [inquiries EXCEPT ![w] = j]
                       /\ j.status = RN!Judged(inquiries[w].status, verdicts[inquiries[w].row])
    <3> DEFINE k == [pc |-> "save", row |-> inquiries[w].row, status |-> RN!Judged(inquiries[w].status, verdicts[inquiries[w].row])]
    <3>1. k \in T /\ k.pc = "save" /\ k.row = inquiries[w].row /\ k.status = RN!Judged(inquiries[w].status, verdicts[inquiries[w].row])
      BY <1>1 DEF RN!Judged, RN!Statuses
    <3>2. inquiries' = [inquiries EXCEPT ![w] = k]  BY <1>4
    <3> HIDE DEF k
    <3> QED BY <3>1, <3>2
  <2>2. j \in Inquiries /\ j # RN!Idle  BY <2>1 DEF Inquiries, RN!Idle
  <2>3. RN!TypeOK'  BY <1>0, <2>1, <2>2 DEF NameIInv, NameTyped, RN!TypeOK, Inquiries
  <2>4. NameGenuine' /\ RowsFollow'  BY <1>0 DEF NameIInv, NameTyped, NameGenuine, RowsFollow
  <2>5. inquiries'[w] = j /\ \A v \in Workers \ {w} : inquiries'[v] = inquiries[v]
    BY <2>1 DEF NameIInv, NameTyped, RN!TypeOK
  <2>6. JobFollows(inquiries[w])'
    BY <1>0, <1>1, <2>1, <2>5 DEF JobFollows, RN!Judged
  <2>7. \A v \in Workers : JobFollows(inquiries[v])'
    BY <1>0, <2>5, <2>6 DEF NameIInv, NameTyped, JobFollows
  <2>8. InTurn' => Stands' /\ Between(inquiries[w])'
    BY <1>0, <1>1, <1>2, <2>1, <2>5 DEF Stands, NonePassed, Between, RN!Judged
  <2> QED BY <1>2, <2>2, <2>3, <2>4, <2>5, <2>7, <2>8, OneBusy DEF NameIInv, NameTyped
<1> QED BY <1>3, <1>4 DEF RN!DescribeFaceVerify, RN!Set

LEMMA StepSaveRecord ==
  ASSUME NameIInv, NEW w \in Workers, RN!SaveRecord(w)
  PROVE  NameIInv'
<1> DEFINE k == inquiries[w].row
           s == inquiries[w].status
<1>0. inquiries[w].pc = "save" /\ UNCHANGED <<starts, verdicts, verified>>  BY DEF RN!SaveRecord, RN!At
<1>1. /\ inquiries[w] # RN!Idle /\ inquiries[w] \in [pc : {"ask", "save", "user"}, row : Nat, status : RN!Statuses]
      /\ JobFollows(inquiries[w])
  BY <1>0 DEF NameIInv, NameTyped, RN!TypeOK, RN!Idle
<1>2. k \in DOMAIN records /\ s \in {"pending", "passed", "failed"} /\ (s = "passed" => verdicts[k] = "T") /\ (s = "failed" => verdicts[k] = "F")
  BY <1>0, <1>1 DEF JobFollows, RN!Statuses
<1>3. PICK j \in Inquiries : /\ inquiries' = [inquiries EXCEPT ![w] = j]
                             /\ s \in {"passed", "failed"} => j.pc = "user" /\ j.row = k /\ j.status = s
                             /\ s = "pending" => j = RN!Idle
  <2>1. CASE s = "pending"  BY <2>1, <1>2 DEF RN!SaveRecord, RN!Set, Inquiries
  <2>2. CASE s \in {"passed", "failed"}
    <3> DEFINE q == [pc |-> "user", row |-> k, status |-> s]
    <3>1. q \in Inquiries /\ q.pc = "user" /\ q.row = k /\ q.status = s  BY <1>1 DEF Inquiries
    <3>2. inquiries' = [inquiries EXCEPT ![w] = q]  BY <2>2 DEF RN!SaveRecord, RN!Set
    <3> HIDE DEF q
    <3> QED BY <2>2, <3>1, <3>2
  <2> QED BY <2>1, <2>2, <1>2
<1>4. inquiries'[w] = j /\ \A v \in Workers \ {w} : inquiries'[v] = inquiries[v]  BY <1>3 DEF NameIInv, NameTyped, RN!TypeOK
<1>5. RN!TypeOK /\ nameHist \in NameHists  BY DEF NameIInv, NameTyped, RN!TypeOK, NameHists
<1>6. /\ records' \in Seq(RN!Statuses) /\ Len(records') = Len(records) /\ DOMAIN records' = DOMAIN records
      /\ \A i \in DOMAIN records : records'[i] = records[i] \/ (i = k /\ records'[i] = s)
      /\ nameHist' \in NameHists
      /\ InTurn' => InTurn /\ records'[k] = s /\ \A i \in DOMAIN records : i # k => records'[i] = records[i]
  <2>1. CASE RN!Broken /\ UNCHANGED records
    <3>1. records \in Seq(RN!Statuses)  BY <1>5, Tables
    <3>2. nameHist' \in NameHists /\ ~InTurn'  BY <2>1, <1>5, BrokenHist
    <3>3. records' = records  BY <2>1
    <3>4. \A i \in DOMAIN records : records'[i] = records[i]  BY <3>3
    <3>5. records' \in Seq(RN!Statuses) /\ Len(records') = Len(records) /\ DOMAIN records' = DOMAIN records  BY <3>1, <3>3
    <3> QED BY <3>2, <3>4, <3>5
  <2>2. CASE records' = [records EXCEPT ![k] = s] /\ UNCHANGED nameHist
    <3>1. records \in Seq(RN!Statuses) /\ k \in 1..Len(records) /\ s \in RN!Statuses /\ DOMAIN records = 1..Len(records)
      BY <1>2, <1>5, Tables DEF RN!Statuses
    <3>2. /\ records' \in Seq(RN!Statuses) /\ Len(records') = Len(records) /\ DOMAIN records' = 1..Len(records) /\ records'[k] = s
          /\ \A i \in 1..Len(records) : i # k => records'[i] = records[i]
      BY <2>2, <3>1, Replaced
    <3>3. nameHist' \in NameHists /\ (InTurn' => InTurn)  BY <2>2, <1>5 DEF InTurn
    <3>4. \A i \in DOMAIN records : i # k => records'[i] = records[i]  BY <3>1, <3>2
    <3>5. \A i \in DOMAIN records : records'[i] = records[i] \/ (i = k /\ records'[i] = s)
      <4> SUFFICES ASSUME NEW i \in DOMAIN records PROVE records'[i] = records[i] \/ (i = k /\ records'[i] = s)  OBVIOUS
      <4>1. CASE i = k  BY <4>1, <3>2
      <4>2. CASE i # k  BY <4>2, <3>4
      <4> QED BY <4>1, <4>2
    <3> QED BY <3>1, <3>2, <3>3, <3>4, <3>5, Zenon
  <2> QED BY <2>1, <2>2 DEF RN!SaveRecord
<1>7. RN!TypeOK'  BY <1>0, <1>3, <1>5, <1>6 DEF RN!TypeOK, Inquiries, NameHists
<1>8. NameGenuine' /\ RowsFollow'  BY <1>0, <1>2, <1>6 DEF NameIInv, NameTyped, NameGenuine, RowsFollow
<1>9. \A v \in Workers : JobFollows(inquiries[v])'
  <2>1. JobFollows(inquiries[w])'  BY <1>0, <1>2, <1>3, <1>4, <1>6 DEF JobFollows, RN!Idle
  <2> QED BY <1>0, <1>4, <1>6, <2>1 DEF NameIInv, NameTyped, JobFollows
<1>10. ASSUME InTurn' PROVE Turns'
  <2>1. (\A v \in Workers \ {w} : inquiries'[v] = RN!Idle) /\ Stands /\ Between(inquiries[w])
    BY <1>1, <1>4, <1>6, <1>10, Alone DEF NameIInv
  <2>2. records'[k] = s /\ (\A i \in DOMAIN records : i # k => records'[i] = records[i]) /\ NonePassed
    BY <1>0, <1>6, <1>10, <2>1 DEF Between
  <2>3. CASE s = "pending"
    <3>1. records[k] = "pending"  BY <1>0, <2>1, <2>3 DEF Between
    <3>2. Stands' /\ NonePassed'  BY <1>0, <1>6, <2>1, <2>2, <2>3, <3>1 DEF Stands, NonePassed
    <3> QED BY <1>3, <1>4, <2>1, <2>3, <3>2, AllIdle
  <2>4. CASE s \in {"passed", "failed"}
    <3>1. j # RN!Idle /\ Between(inquiries[w])'  BY <1>3, <1>4, <2>2, <2>4 DEF Between, RN!Idle
    <3>2. Stands'
      \* A row that stood for the status is not turned over by another verdict on its case.
      BY <1>0, <1>2, <1>6, <2>1, <2>2, <2>4 DEF Stands, NameIInv, NameTyped, RowsFollow
    <3> QED BY <1>4, <2>1, <3>1, <3>2, OneBusy
  <2> QED BY <1>2, <2>3, <2>4
<1>11. Turns'  BY <1>10, AllIdle
<1> QED BY <1>7, <1>8, <1>9, <1>11 DEF NameIInv, NameTyped

LEMMA StepSyncUser ==
  ASSUME NameIInv, NEW w \in Workers, RN!SyncUser(w)
  PROVE  NameIInv'
<1> DEFINE k == inquiries[w].row
           s == inquiries[w].status
<1>0. inquiries[w].pc = "user" /\ inquiries' = [inquiries EXCEPT ![w] = RN!Idle] /\ UNCHANGED <<starts, verdicts, records>>
  BY DEF RN!SyncUser, RN!At, RN!Set
<1>1. inquiries[w] # RN!Idle /\ JobFollows(inquiries[w])  BY <1>0 DEF NameIInv, NameTyped, RN!Idle
<1>2. k \in DOMAIN records /\ s \in {"passed", "failed"} /\ (s = "passed" => verdicts[k] = "T")
  BY <1>0, <1>1 DEF JobFollows
<1>3. RN!TypeOK /\ nameHist \in NameHists /\ DOMAIN records = DOMAIN verdicts  BY Tables DEF NameIInv, NameTyped, RN!TypeOK, NameHists
<1>4. /\ verified' = verified \/ verified' = s
      /\ nameHist' \in NameHists
      /\ InTurn' => InTurn /\ verified' = s
  <2>1. CASE RN!Broken /\ UNCHANGED verified
    <3>1. nameHist' \in NameHists /\ ~InTurn'  BY <2>1, <1>3, BrokenHist
    <3> QED BY <2>1, <3>1
  <2>2. CASE verified' = s /\ UNCHANGED nameHist  BY <2>2, <1>3 DEF InTurn
  <2> QED BY <2>1, <2>2 DEF RN!SyncUser
<1>5. RN!TypeOK'  BY <1>0, <1>2, <1>3, <1>4 DEF RN!TypeOK, NameHists
<1>6. NameGenuine' /\ RowsFollow'  BY <1>0, <1>2, <1>3, <1>4 DEF NameIInv, NameTyped, NameGenuine, RowsFollow
<1>7. \A v \in Workers : JobFollows(inquiries[v])'
  BY <1>0, <1>3 DEF NameIInv, NameTyped, RN!TypeOK, JobFollows, RN!Idle
<1>8. ASSUME InTurn' PROVE (\A v \in Workers : inquiries'[v] = RN!Idle) /\ Stands' /\ NonePassed'
  <2>1. (\A v \in Workers \ {w} : inquiries[v] = RN!Idle) /\ Between(inquiries[w])  BY <1>1, <1>4, <1>8, Alone DEF NameIInv
  <2>2. verified' = s /\ records[k] = s  BY <1>0, <1>4, <1>8, <2>1 DEF Between
  <2>3. Stands' /\ NonePassed'  BY <1>0, <1>2, <2>2 DEF Stands, NonePassed
  <2> QED BY <1>0, <1>3, <2>1, <2>3 DEF RN!TypeOK
<1>9. Turns'  BY <1>8, AllIdle
<1> QED BY <1>5, <1>6, <1>7, <1>9 DEF NameIInv, NameTyped

LEMMA StepAdminResetRealname ==
  ASSUME NameIInv, NEW w \in Workers, RN!AdminResetRealname(w)
  PROVE  NameIInv'
<1>0. RN!Begin(w, [pc |-> "expire"]) /\ verified' = "pending" /\ UNCHANGED <<verdicts, records>>  BY DEF RN!AdminResetRealname
<1>1. nameHist' \in NameHists /\ (InTurn' => InTurn /\ RN!Quiet)  BY <1>0, BeginHist DEF NameIInv, NameTyped, RN!TypeOK, NameHists
<1>2. inquiries' = [inquiries EXCEPT ![w] = [pc |-> "expire"]] /\ starts' = starts + 1  BY <1>0 DEF RN!Begin, RN!Set
<1>3. inquiries'[w] = [pc |-> "expire"] /\ \A v \in Workers \ {w} : inquiries'[v] = inquiries[v]
  BY <1>2 DEF NameIInv, NameTyped, RN!TypeOK
<1>4. RN!TypeOK'  BY <1>0, <1>1, <1>2 DEF NameIInv, NameTyped, RN!TypeOK, NameHists
<1>5. NameGenuine' /\ RowsFollow'  BY <1>0 DEF NameIInv, NameTyped, NameGenuine, RowsFollow
<1>6. \A v \in Workers : JobFollows(inquiries[v])'  BY <1>0, <1>3 DEF NameIInv, NameTyped, JobFollows
<1>7. Turns'
  <2>1. InTurn' => \A v \in Workers \ {w} : inquiries'[v] = RN!Idle  BY <1>1, <1>3 DEF RN!Quiet
  <2>2. inquiries'[w] # RN!Idle /\ Stands' /\ Between(inquiries[w])'  BY <1>0, <1>3 DEF Stands, Between, RN!Idle
  <2> QED BY <2>1, <2>2, OneBusy
<1> QED BY <1>4, <1>5, <1>6, <1>7 DEF NameIInv, NameTyped

LEMMA StepExpireRecords ==
  ASSUME NameIInv, NEW w \in Workers, RN!ExpireRecords(w)
  PROVE  NameIInv'
<1>0. inquiries[w].pc = "expire" /\ inquiries' = [inquiries EXCEPT ![w] = RN!Idle] /\ UNCHANGED <<starts, verdicts, verified>>
  BY DEF RN!ExpireRecords, RN!At, RN!Set
<1>1. inquiries[w] # RN!Idle  BY <1>0 DEF RN!Idle
<1>2. RN!TypeOK /\ nameHist \in NameHists  BY DEF NameIInv, NameTyped, RN!TypeOK, NameHists
<1>3. records \in Seq(RN!Statuses) /\ Len(records) \in Nat /\ DOMAIN records = 1..Len(records)  BY <1>2, Tables
<1>4. /\ records' \in Seq(RN!Statuses) /\ Len(records') = Len(records) /\ DOMAIN records' = DOMAIN records
      /\ \A i \in DOMAIN records : records'[i] = records[i] \/ (records[i] = "passed" /\ records'[i] = "expired")
      /\ nameHist' \in NameHists
      /\ InTurn' => InTurn /\ \A i \in DOMAIN records : records'[i] # "passed"
  <2>1. CASE RN!Broken /\ UNCHANGED records
    <3>1. nameHist' \in NameHists /\ ~InTurn'  BY <2>1, <1>2, BrokenHist
    <3> QED BY <2>1, <1>3, <3>1
  <2>2. CASE records' = RN!Expired(records) /\ UNCHANGED nameHist
    <3>1. records' = [i \in 1..Len(records) |-> IF records[i] = "passed" THEN "expired" ELSE records[i]]
      BY <1>3, <2>2 DEF RN!Expired
    <3>2. \A i \in 1..Len(records) : records[i] \in RN!Statuses  BY <1>3
    <3>3. \A i \in 1..Len(records) : records'[i] = IF records[i] = "passed" THEN "expired" ELSE records[i]  BY <3>1
    <3>4. records' \in [1..Len(records) -> RN!Statuses]  BY <3>1, <3>2 DEF RN!Statuses
    <3>5. records' \in Seq(RN!Statuses) /\ Len(records') = Len(records) /\ DOMAIN records' = 1..Len(records)  BY <1>3, <3>4
    <3>6. nameHist' \in NameHists /\ (InTurn' => InTurn)  BY <2>2, <1>2 DEF InTurn
    <3> QED BY <1>3, <3>3, <3>5, <3>6
  <2> QED BY <2>1, <2>2 DEF RN!ExpireRecords
<1>5. RN!TypeOK'  BY <1>0, <1>2, <1>4 DEF RN!TypeOK, NameHists
<1>6. NameGenuine' /\ RowsFollow'  BY <1>0, <1>4 DEF NameIInv, NameTyped, NameGenuine, RowsFollow
<1>7. \A v \in Workers : JobFollows(inquiries[v])'
  BY <1>0, <1>2, <1>4 DEF NameIInv, NameTyped, RN!TypeOK, JobFollows, RN!Idle
<1>8. ASSUME InTurn' PROVE (\A v \in Workers : inquiries'[v] = RN!Idle) /\ Stands' /\ NonePassed'
  <2>1. (\A v \in Workers \ {w} : inquiries[v] = RN!Idle) /\ Between(inquiries[w])  BY <1>1, <1>4, <1>8, Alone DEF NameIInv
  <2>2. verified = "pending"  BY <1>0, <2>1 DEF Between
  <2>3. Stands' /\ NonePassed'  BY <1>0, <1>4, <1>8, <2>2 DEF Stands, NonePassed
  <2> QED BY <1>0, <1>2, <2>1, <2>3 DEF RN!TypeOK
<1>9. Turns'  BY <1>8, AllIdle
<1> QED BY <1>5, <1>6, <1>7, <1>9 DEF NameIInv, NameTyped

LEMMA StepNameRestart ==
  ASSUME NameIInv, RN!Restart
  PROVE  NameIInv'
<1>0. inquiries' = [w \in Workers |-> RN!Idle] /\ RN!Broken /\ UNCHANGED <<starts, verdicts, records, verified>>  BY DEF RN!Restart
<1>1. RN!TypeOK /\ nameHist \in NameHists  BY DEF NameIInv, NameTyped, RN!TypeOK, NameHists
<1>2. nameHist' \in NameHists /\ ~InTurn'  BY <1>0, <1>1, BrokenHist
<1>3. RN!TypeOK'  BY <1>0, <1>1, <1>2 DEF RN!TypeOK, NameHists
<1>4. NameTyped'  BY <1>0, <1>3 DEF NameIInv, NameTyped, NameGenuine, RowsFollow, JobFollows, RN!Idle
<1>5. Turns'  BY <1>2, AllIdle
<1> QED BY <1>4, <1>5 DEF NameIInv

LEMMA NameStutters ==
  ASSUME NameIInv, UNCHANGED RN!vars
  PROVE  NameIInv'
<1>1. NameTyped'  BY DEF RN!vars, NameIInv, NameTyped, RN!TypeOK, NameGenuine, RowsFollow, JobFollows
<1>2. Turns'  BY DEF RN!vars, NameIInv, Turns, OneAtWork, InStep, InTurn, Stands, NonePassed, Between, RN!Quiet
<1> QED BY <1>1, <1>2 DEF NameIInv

LEMMA NameStep ==
  ASSUME NameIInv, RN!Next
  PROVE  NameIInv'
<1>1. ASSUME NEW w \in Workers,
             \/ RN!InitRealnameVerify(w) \/ RN!InitFaceVerify(w) \/ RN!QueryRealnameResult(w) \/ RN!DescribeFaceVerify(w)
             \/ RN!SaveRecord(w) \/ RN!SyncUser(w) \/ RN!AdminResetRealname(w) \/ RN!ExpireRecords(w)
      PROVE  NameIInv'
  BY <1>1, StepInitRealnameVerify, StepInitFaceVerify, StepQueryRealnameResult, StepDescribeFaceVerify,
     StepSaveRecord, StepSyncUser, StepAdminResetRealname, StepExpireRecords
<1>2. CASE RN!Decide  BY <1>2, StepDecide
<1>3. CASE RN!Restart  BY <1>3, StepNameRestart
<1> QED BY <1>1, <1>2, <1>3 DEF RN!Next

LEMMA NameImplies == NameIInv => RN!RealnameInv
<1> SUFFICES ASSUME NameIInv PROVE RN!RealnameInv  OBVIOUS
<1>1. RN!TypeOK /\ RN!VerifiedByProvider  BY DEF NameIInv, NameTyped, NameGenuine, RowsFollow, RN!VerifiedByProvider
<1>2. RN!StatusMatchesRows  BY DEF NameIInv, Turns, InStep, InTurn, Stands, NonePassed, RN!StatusMatchesRows
<1> QED BY <1>1, <1>2 DEF RN!RealnameInv

\* For any number of requests at work and of cases: neither the user's status nor a row says
\* that he passed unless the provider let him (controller/realname.go:139-157), and status and
\* rows agree while requests take turns and no write is lost (controller/realname.go:286-292).
THEOREM RealnameInvariant == Spec => []RealnameInv
<1> DEFINE I == part = "RN" => NameIInv
<1>1. Init => I
  BY NameInit DEF Init
<1>2. I /\ [Next]_vars => I'
  <2> SUFFICES ASSUME I, [Next]_vars, part' = "RN" PROVE NameIInv'
    OBVIOUS
  <2>1. CASE UNCHANGED vars
    BY <2>1, NameStutters DEF vars, rnVars, shared, RN!vars
  <2>2. CASE Next
    BY <2>2, NameStep DEF Next
  <2> QED
    BY <2>1, <2>2
<1>3. I => RealnameInv
  BY NameImplies DEF RealnameInv
<1> QED
  BY <1>1, <1>2, <1>3, PTL DEF Spec

---------------------------------------------------------------------------
(* Passkeys: the inductive invariant. *)

\* What a ceremony's step says of its fields.
PkShape(x) ==
  /\ x.step = "idle" => x.cred = None
  /\ x.step # "idle" => x.session \in Ids /\ x.cred \in Ids
  /\ x.step \in {"del", "read"} /\ x.kind # "login" => x.user \in Users
  /\ x.step = "upsert" => x.user \in Users
  /\ x.step = "read" => x.kind # "register"
  /\ x.step = "del" => redis
PkShapes == \A w \in Workers : PkShape(ceremonies[w])

\* Without Redis a session that has served is gone.
PkMemory == ~redis => \A s \in Ids : pkHist.uses[s] <= 1 /\ (pkHist.uses[s] = 1 => sessions[s] = PK!NoSession)

\* A credential that is being registered is nobody else's.
Registers(x) == x.step # "idle" /\ x.kind = "register"
PkFresh ==
  \A w \in Workers : Registers(ceremonies[w]) =>
    /\ device[ceremonies[w].cred] = 0
    /\ \A u \in Users : passkeys[u].cred # ceremonies[w].cred
    /\ \A v \in Workers \ {w} : ceremonies[v].cred # ceremonies[w].cred

\* A ceremony that writes a credential back does so for the one user who has it, if any, and
\* finds what it has read unless somebody raced with it.
Rewrites(x) == x.step = "upsert" /\ x.kind # "register"
PkOwn ==
  \A w \in Workers : Rewrites(ceremonies[w]) =>
    /\ \A u \in Users : passkeys[u].cred = ceremonies[w].cred => u = ceremonies[w].user
    /\ \A v \in Workers : Rewrites(ceremonies[v]) /\ ceremonies[v].cred = ceremonies[w].cred
                            => ceremonies[v].user = ceremonies[w].user
PkHeld ==
  \A w \in Workers : Rewrites(ceremonies[w]) /\ ceremonies[w].user \notin pkHist.raced =>
    /\ passkeys[ceremonies[w].user].cred = ceremonies[w].cred
    /\ ceremonies[w].count >= passkeys[ceremonies[w].user].count

PkUnique == \A u, v \in Users : passkeys[u].cred = passkeys[v].cred /\ passkeys[u].cred # None => u = v

PkWork == PkShapes /\ PkFresh /\ PkOwn /\ PkHeld
PkIInv == PK!TypeOK /\ PkMemory /\ PkUnique /\ PK!PasskeyAsMeant /\ PkWork

---------------------------------------------------------------------------
(* Passkeys: what the helpers do. *)

LEMMA PkConstants ==
  /\ PK!NoSession \in PK!Session /\ PK!NoRow \in PK!Row /\ PK!Idle \in PK!Ceremony
  /\ PK!Idle.step = "idle" /\ PK!Idle.cred = None /\ PK!NoRow.cred = None
<1>1. PK!NoSession \in PK!Session
  BY DEF PK!NoSession, PK!Session, PK!Kinds
<1>2. PK!NoRow \in PK!Row
  BY DEF PK!NoRow, PK!Row
<1>3. PK!Idle \in PK!Ceremony
  BY <1>1 DEF PK!Idle, PK!Ceremony, PK!Steps, PK!Kinds
<1> QED
  BY <1>1, <1>2, <1>3 DEF PK!Idle, PK!NoRow

\* A worker goes on to y while the rows stay as they are.
LEMMA PkMoves ==
  ASSUME PkIInv, NEW w \in Workers, NEW y \in PK!Ceremony,
         ceremonies' = [ceremonies EXCEPT ![w] = y], UNCHANGED <<redis, passkeys>>, pkHist'.raced = pkHist.raced,
         PkShape(y),
         \A v \in Workers \ {w} : Registers(ceremonies[v]) =>
           device'[ceremonies[v].cred] = 0 /\ ceremonies[v].cred # y.cred,
         Registers(y) => /\ device'[y.cred] = 0 /\ \A u \in Users : passkeys[u].cred # y.cred
                         /\ \A v \in Workers \ {w} : ceremonies[v].cred # y.cred,
         Rewrites(y) => passkeys[y.user].cred = y.cred /\ y.count >= passkeys[y.user].count
  PROVE  PkWork'
<1>1. ceremonies'[w] = y /\ \A v \in Workers \ {w} : ceremonies'[v] = ceremonies[v]
  BY DEF PkIInv, PK!TypeOK
<1>2. PkShapes'
  BY <1>1 DEF PkIInv, PkWork, PkShapes, PkShape
<1>3. PkFresh'
  BY <1>1 DEF PkIInv, PkWork, PkFresh
<1>4. ASSUME Rewrites(y) PROVE \A u \in Users : passkeys[u].cred = y.cred => u = y.user
  <2>1. y.user \in Users /\ y.cred \in Ids /\ y.cred # None
    BY <1>4, AccessAssumption DEF Rewrites, PkShape
  <2> QED
    BY <1>4, <2>1 DEF PkIInv, PkUnique
<1>5. ASSUME NEW v \in Workers \ {w}, Rewrites(ceremonies[v]), Rewrites(y), ceremonies[v].cred = y.cred
      PROVE  ceremonies[v].user = y.user
  <2>1. y.user \in Users
    BY <1>5 DEF Rewrites, PkShape
  <2> QED
    BY <1>5, <2>1 DEF PkIInv, PkWork, PkOwn
<1>6. PkOwn'
  BY <1>1, <1>4, <1>5 DEF PkIInv, PkWork, PkOwn
<1>7. PkHeld'
  BY <1>1 DEF PkIInv, PkWork, PkHeld
<1> QED
  BY <1>2, <1>3, <1>6, <1>7 DEF PkWork

\* No worker does anything else.
LEMMA PkRests ==
  ASSUME PkIInv, UNCHANGED <<redis, passkeys, ceremonies, device, pkHist>>
  PROVE  PkUnique' /\ PK!PasskeyAsMeant' /\ PkWork'
BY DEF PkIInv, PkUnique, PK!PasskeyAsMeant, PkWork, PkShapes, PkShape, PkFresh, PkOwn, PkHeld

\* A session that serves is gone, and noted.
LEMMA PkServes ==
  ASSUME PkIInv, NEW s \in Ids, sessions' = [sessions EXCEPT ![s] = PK!NoSession], pkHist' = PK!Used(s),
         redis' = redis, passkeys' = passkeys, ~redis => pkHist.uses[s] = 0
  PROVE  /\ sessions' \in [Ids -> PK!Session] /\ pkHist' \in PK!PkHist /\ pkHist'.raced = pkHist.raced
         /\ PkMemory' /\ PkUnique' /\ PK!PasskeyAsMeant'
<1>1. sessions' \in [Ids -> PK!Session]
  BY PkConstants DEF PkIInv, PK!TypeOK
<1>2. /\ pkHist \in PK!PkHist /\ pkHist.uses \in [Ids -> Nat] /\ pkHist.meant \in [Users -> PK!Row] /\ pkHist.raced \in SUBSET Users
  BY DEF PkIInv, PK!TypeOK, PK!PkHist
<1>3. /\ pkHist'.uses = [pkHist.uses EXCEPT ![s] = @ + 1] /\ pkHist'.meant = pkHist.meant /\ pkHist'.raced = pkHist.raced
      /\ pkHist' = [pkHist EXCEPT !.uses = [pkHist.uses EXCEPT ![s] = @ + 1]]
  BY <1>2 DEF PK!Used, PK!PkHist
<1>4. pkHist' \in PK!PkHist
  <2>1. [pkHist.uses EXCEPT ![s] = @ + 1] \in [Ids -> Nat]
    BY <1>2
  <2> QED
    BY <1>2, <1>3, <2>1 DEF PK!PkHist
<1>5. PkMemory'
  <2> SUFFICES ASSUME ~redis, NEW t \in Ids PROVE pkHist'.uses[t] <= 1 /\ (pkHist'.uses[t] = 1 => sessions'[t] = PK!NoSession)
    BY DEF PkMemory
  <2>1. CASE t = s
    BY <1>2, <1>3, <2>1 DEF PkIInv, PK!TypeOK
  <2>2. CASE t # s
    BY <1>2, <1>3, <2>2 DEF PkIInv, PK!TypeOK, PkMemory
  <2> QED
    BY <2>1, <2>2
<1>6. PkUnique' /\ PK!PasskeyAsMeant'
  BY <1>3 DEF PkIInv, PkUnique, PK!PasskeyAsMeant
<1> QED
  BY <1>1, <1>3, <1>4, <1>5, <1>6

\* What a ceremony is once its session has been taken away.
LEMMA PkPopped ==
  ASSUME NEW x \in PK!Ceremony, x.step = "del", x.session \in Ids, x.cred \in Ids, x.kind # "login" => x.user \in Users
  PROVE  /\ PK!Popped(x) \in PK!Ceremony /\ PkShape(PK!Popped(x)) /\ ~Rewrites(PK!Popped(x))
         /\ PK!Popped(x).cred \in {None, x.cred}
         /\ Registers(PK!Popped(x)) => Registers(x) /\ PK!Popped(x).cred = x.cred
<1>1. CASE x.kind = "register" /\ x.data.user # x.user
  BY <1>1, PkConstants DEF PK!Popped, PkShape, Rewrites, Registers
<1>2. CASE ~(x.kind = "register" /\ x.data.user # x.user)
  <2> DEFINE y == [x EXCEPT !.step = IF x.kind = "register" THEN "upsert" ELSE "read"]
  <2>1. /\ y \in PK!Ceremony /\ y.cred = x.cred /\ y.kind = x.kind /\ y.session = x.session /\ y.user = x.user
        /\ y.step = IF x.kind = "register" THEN "upsert" ELSE "read"
    BY DEF PK!Ceremony, PK!Steps
  <2>2. PK!Popped(x) = y
    BY <1>2 DEF PK!Popped
  <2> HIDE DEF y
  <2> QED
    BY <2>1, <2>2 DEF PkShape, Rewrites, Registers
<1> QED
  BY <1>1, <1>2

---------------------------------------------------------------------------
(* Passkeys: the initial state and the actions. *)

LEMMA PkInit == PK!Init => PkIInv
<1> SUFFICES ASSUME PK!Init PROVE PkIInv
  OBVIOUS
<1>1. pkHist = [uses |-> [s \in Ids |-> 0], meant |-> [u \in Users |-> PK!NoRow], raced |-> {}]
  BY DEF PK!Init
<1>2. pkHist \in PK!PkHist /\ pkHist.uses = [s \in Ids |-> 0] /\ pkHist.meant = [u \in Users |-> PK!NoRow]
  BY <1>1, PkConstants DEF PK!PkHist
<1>3. PK!TypeOK
  BY <1>2, PkConstants DEF PK!Init, PK!TypeOK
<1>4. \A w \in Workers : ceremonies[w] = PK!Idle
  BY DEF PK!Init
<1>5. PkWork
  BY <1>4, PkConstants DEF PkWork, PkShapes, PkShape, PkFresh, PkOwn, PkHeld, Registers, Rewrites
<1>6. PkMemory
  BY <1>2 DEF PkMemory
<1>7. PkUnique /\ PK!PasskeyAsMeant
  BY <1>2, PkConstants DEF PK!Init, PkUnique, PK!PasskeyAsMeant
<1> QED
  BY <1>3, <1>5, <1>6, <1>7 DEF PkIInv

LEMMA PkBegins ==
  ASSUME PkIInv, PK!PasskeyLoginBegin \/ \E u \in Users : PK!PasskeyRegisterBegin(u) \/ PK!PasskeyVerifyBegin(u)
  PROVE  PkIInv'
<1>1. PK!Begun /\ \E k \in PK!Kinds, u \in Users \cup {None}, c \in Ids \cup {None} : PK!saveSession(k, u, c)
  BY DEF PK!PasskeyLoginBegin, PK!PasskeyRegisterBegin, PK!PasskeyVerifyBegin, PkIInv, PK!TypeOK, PK!Row, PK!Kinds
<1>2. PICK k \in PK!Kinds, u \in Users \cup {None}, c \in Ids \cup {None}, s \in Ids :
        /\ s \in PK!FreshSessions
        /\ sessions' = [sessions EXCEPT ![s] = [kind |-> k, user |-> u, cred |-> c, expires |-> now + SessionTTL]]
  BY <1>1 DEF PK!saveSession, PK!FreshSessions
<1>3. UNCHANGED <<now, redis, passkeys, active, ceremonies, device, pkHist>> /\ starts' = starts + 1
  BY <1>1 DEF PK!Begun, PK!Request
<1>4. [kind |-> k, user |-> u, cred |-> c, expires |-> now + SessionTTL] \in PK!Session
  <2>1. now + SessionTTL \in Int
    BY AccessAssumption DEF PkIInv, PK!TypeOK
  <2> QED
    BY <2>1 DEF PK!Session
<1>5. PK!TypeOK'
  BY <1>2, <1>3, <1>4 DEF PkIInv, PK!TypeOK
<1>6. PkMemory'
  BY <1>2, <1>3 DEF PkIInv, PkMemory, PK!TypeOK, PK!FreshSessions
<1> QED
  BY <1>3, <1>5, <1>6, PkRests DEF PkIInv

LEMMA PkFinishes ==
  ASSUME PkIInv, NEW w \in Workers, NEW kind \in PK!Kinds, NEW u \in Users \cup {None}, NEW s \in Ids, NEW c \in Ids,
         kind # "login" => u \in Users,
         kind = "register" => c \in PK!FreshCreds,
         kind # "register" => PK!Known(c),
         PK!Finish(w, kind, u, s, c)
  PROVE  PkIInv'
<1>0. /\ UNCHANGED <<now, redis, passkeys, active>> /\ starts' = starts + 1 /\ PK!Live(s, kind)
      /\ device' = [device EXCEPT ![c] = IF kind = "register" THEN @ ELSE @ + 1]
  BY DEF PK!Finish, PK!Request
<1>1. PK!TypeOK /\ device' \in [Ids -> Nat] /\ device'[c] \in Nat /\ sessions[s] \in PK!Session
  BY <1>0 DEF PkIInv, PK!TypeOK
<1>2. PICK x \in PK!Ceremony :
        /\ x.step = "del" /\ x.kind = kind /\ x.user = u /\ x.session = s /\ x.cred = c
        /\ (PK!PopInMemory(w, x) \/ PK!PopGet(w, x))
  <2> DEFINE y == [step |-> "del", kind |-> kind, user |-> u, session |-> s,
                   data |-> sessions[s], cred |-> c, count |-> device'[c]]
  <2>1. y \in PK!Ceremony /\ y.step = "del" /\ y.kind = kind /\ y.user = u /\ y.session = s /\ y.cred = c
    BY <1>1 DEF PK!Ceremony, PK!Steps
  <2>2. PK!PopInMemory(w, y) \/ PK!PopGet(w, y)
    BY DEF PK!Finish
  <2> HIDE DEF y
  <2> QED
    BY <2>1, <2>2
<1>3. \A v \in Workers \ {w} : Registers(ceremonies[v]) => device'[ceremonies[v].cred] = 0 /\ ceremonies[v].cred # c
  <2> SUFFICES ASSUME NEW v \in Workers \ {w}, Registers(ceremonies[v])
               PROVE  device'[ceremonies[v].cred] = 0 /\ ceremonies[v].cred # c
    OBVIOUS
  <2>1. /\ device[ceremonies[v].cred] = 0 /\ ceremonies[v].cred \in Ids
        /\ \A q \in Users : passkeys[q].cred # ceremonies[v].cred
    BY DEF PkIInv, PkWork, PkFresh, PkShapes, PkShape, Registers
  <2>2. ceremonies[v].cred # c
    <3>1. CASE kind = "register"
      BY <3>1 DEF PK!FreshCreds
    <3>2. CASE kind # "register"
      <4>1. ASSUME ceremonies[v].cred = c PROVE FALSE
        <5>1. PK!Owner(c) = {} /\ device[c] = 0
          BY <2>1, <4>1 DEF PK!Owner
        <5> QED
          BY <3>2, <5>1 DEF PK!Known
      <4> QED
        BY <4>1
    <3> QED
      BY <3>1, <3>2
  <2> QED
    BY <1>0, <1>1, <2>1, <2>2 DEF PK!TypeOK
<1>4. ASSUME kind = "register"
      PROVE  /\ device'[c] = 0 /\ \A q \in Users : passkeys[q].cred # c
             /\ \A v \in Workers \ {w} : ceremonies[v].cred # c
  BY <1>0, <1>1, <1>4 DEF PK!FreshCreds, PK!Owner, PK!TypeOK
<1>5. CASE PK!PopGet(w, x)
  <2>1. redis /\ ceremonies' = [ceremonies EXCEPT ![w] = x] /\ UNCHANGED <<sessions, pkHist>>
    BY <1>5 DEF PK!PopGet
  <2>2. PkShape(x) /\ ~Rewrites(x) /\ (Registers(x) => kind = "register")
    BY <1>2, <2>1 DEF PkShape, Rewrites, Registers
  <2>3. PkWork'
    BY <1>0, <1>2, <1>3, <1>4, <2>1, <2>2, PkMoves
  <2>4. PK!TypeOK'
    BY <1>0, <1>1, <1>2, <2>1 DEF PK!TypeOK
  <2>5. PkMemory' /\ PkUnique' /\ PK!PasskeyAsMeant'
    BY <1>0, <2>1 DEF PkIInv, PkMemory, PkUnique, PK!PasskeyAsMeant
  <2> QED
    BY <2>3, <2>4, <2>5 DEF PkIInv
<1>6. CASE PK!PopInMemory(w, x)
  <2>1. /\ ~redis /\ sessions' = [sessions EXCEPT ![s] = PK!NoSession] /\ pkHist' = PK!Used(s)
        /\ ceremonies' = [ceremonies EXCEPT ![w] = PK!Popped(x)]
    BY <1>2, <1>6 DEF PK!PopInMemory
  <2>2. pkHist.uses[s] = 0
    <3>1. sessions[s] # PK!NoSession
      BY <1>0 DEF PK!Live, PK!NoSession, PK!Kinds
    <3>2. pkHist.uses[s] \in Nat
      BY <1>1 DEF PK!TypeOK, PK!PkHist
    <3> QED
      BY <2>1, <3>1, <3>2 DEF PkIInv, PkMemory
  <2>3. /\ sessions' \in [Ids -> PK!Session] /\ pkHist' \in PK!PkHist /\ pkHist'.raced = pkHist.raced
        /\ PkMemory' /\ PkUnique' /\ PK!PasskeyAsMeant'
    BY <1>0, <2>1, <2>2, PkServes
  <2>4. PICK y \in PK!Ceremony :
          /\ y = PK!Popped(x) /\ PkShape(y) /\ ~Rewrites(y) /\ y.cred \in {None, c}
          /\ (Registers(y) => kind = "register" /\ y.cred = c)
    <3>1. kind # "login" => u \in Users
      OBVIOUS
    <3> QED
      BY <1>2, <3>1, PkPopped DEF Registers
  <2>5. \A v \in Workers \ {w} : Registers(ceremonies[v]) => device'[ceremonies[v].cred] = 0 /\ ceremonies[v].cred # y.cred
    BY <1>3, <2>4, AccessAssumption DEF PkIInv, PkWork, PkShapes, PkShape, Registers
  <2>6. PkWork'
    <3>1. ceremonies' = [ceremonies EXCEPT ![w] = y]
      BY <2>1, <2>4
    <3>2. Registers(y) => /\ device'[y.cred] = 0 /\ \A q \in Users : passkeys[q].cred # y.cred
                          /\ \A v \in Workers \ {w} : ceremonies[v].cred # y.cred
      BY <1>4, <2>4
    <3>3. UNCHANGED <<redis, passkeys>> /\ pkHist'.raced = pkHist.raced /\ PkShape(y) /\ ~Rewrites(y)
      BY <1>0, <2>3, <2>4
    <3> QED
      BY <2>5, <3>1, <3>2, <3>3, PkMoves
  <2>7. PK!TypeOK'
    BY <1>0, <1>1, <2>1, <2>3, <2>4 DEF PK!TypeOK
  <2> QED
    BY <2>3, <2>6, <2>7 DEF PkIInv
<1> QED
  BY <1>2, <1>5, <1>6

LEMMA PkPopDel ==
  ASSUME PkIInv, NEW w \in Workers, PK!PopDel(w)
  PROVE  PkIInv'
<1> DEFINE x == ceremonies[w]
<1>1. /\ x.step = "del" /\ sessions' = [sessions EXCEPT ![x.session] = PK!NoSession] /\ pkHist' = PK!Used(x.session)
      /\ ceremonies' = [ceremonies EXCEPT ![w] = PK!Popped(x)]
      /\ UNCHANGED <<now, redis, passkeys, active, device, starts>>
  BY DEF PK!PopDel, PK!At
<1>2. x \in PK!Ceremony /\ PkShape(x) /\ PK!TypeOK
  BY DEF PkIInv, PkWork, PkShapes, PK!TypeOK
<1>3. x.session \in Ids /\ x.cred \in Ids /\ (x.kind # "login" => x.user \in Users) /\ redis
  BY <1>1, <1>2 DEF PkShape
<1>4. /\ sessions' \in [Ids -> PK!Session] /\ pkHist' \in PK!PkHist /\ pkHist'.raced = pkHist.raced
      /\ PkMemory' /\ PkUnique' /\ PK!PasskeyAsMeant'
  BY <1>1, <1>3, PkServes
<1>5. PICK y \in PK!Ceremony :
        /\ y = PK!Popped(x) /\ PkShape(y) /\ ~Rewrites(y) /\ y.cred \in {None, x.cred}
        /\ (Registers(y) => Registers(x) /\ y.cred = x.cred)
  BY <1>1, <1>2, <1>3, PkPopped
<1>6. \A v \in Workers \ {w} : Registers(ceremonies[v]) => device'[ceremonies[v].cred] = 0 /\ ceremonies[v].cred # y.cred
  BY <1>1, <1>5, AccessAssumption DEF PkIInv, PkWork, PkFresh, PkShapes, PkShape, Registers
<1>7. Registers(y) => /\ device'[y.cred] = 0 /\ \A u \in Users : passkeys[u].cred # y.cred
                      /\ \A v \in Workers \ {w} : ceremonies[v].cred # y.cred
  BY <1>1, <1>5 DEF PkIInv, PkWork, PkFresh
<1>8. PkWork'
  BY <1>1, <1>4, <1>5, <1>6, <1>7, PkMoves
<1>9. PK!TypeOK'
  BY <1>1, <1>2, <1>4, <1>5 DEF PK!TypeOK
<1> QED
  BY <1>4, <1>8, <1>9 DEF PkIInv

\* The row is read, or the ceremony ends.
LEMMA PkReads ==
  ASSUME PkIInv, NEW w \in Workers, PK!GetPasskeyByCredentialID(w) \/ PK!GetPasskeyByUserID(w)
  PROVE  PkIInv'
<1> DEFINE x == ceremonies[w]
<1>1. x.step = "read" /\ UNCHANGED <<now, redis, sessions, passkeys, active, device, pkHist, starts>>
  BY DEF PK!GetPasskeyByCredentialID, PK!GetPasskeyByUserID, PK!At
<1>2. x \in PK!Ceremony /\ PkShape(x) /\ PK!TypeOK /\ x.count \in Nat /\ x.kind # "register"
  BY <1>1 DEF PkIInv, PkWork, PkShapes, PkShape, PK!TypeOK, PK!Ceremony
<1>3. PK!Drop(w) \/ \E u \in Users : passkeys[u].cred = x.cred /\ PK!Reads(w, u)
  BY <1>2 DEF PK!GetPasskeyByCredentialID, PK!GetPasskeyByUserID, PK!Owner, PK!At, PkShape
<1>4. \A v \in Workers \ {w} : Registers(ceremonies[v]) =>
         device'[ceremonies[v].cred] = 0 /\ ceremonies[v].cred # x.cred /\ ceremonies[v].cred # None
  BY <1>1, AccessAssumption DEF PkIInv, PkWork, PkFresh, PkShapes, PkShape, Registers
<1> DEFINE Goes(y) ==
        /\ ceremonies' = [ceremonies EXCEPT ![w] = y] /\ PkShape(y) /\ y.cred \in {None, x.cred} /\ ~Registers(y)
        /\ (Rewrites(y) => passkeys[y.user].cred = y.cred /\ y.count >= passkeys[y.user].count)
<1>5. PICK y \in PK!Ceremony : Goes(y)
  <2>1. CASE PK!Drop(w)
    BY <2>1, PkConstants DEF PK!Drop, PkShape, Registers, Rewrites
  <2>2. ASSUME NEW u \in Users, passkeys[u].cred = x.cred, PK!Reads(w, u) PROVE \E y \in PK!Ceremony : Goes(y)
    <3> DEFINE n == PK!Counted(x, passkeys[u])
               k == [x EXCEPT !.step = "upsert", !.user = u, !.count = n]
    <3>1. n \in Nat /\ n >= passkeys[u].count
      BY <1>2 DEF PK!Counted, PK!TypeOK, PK!Row
    <3>2. /\ k \in PK!Ceremony /\ k.step = "upsert" /\ k.user = u /\ k.count = n
          /\ k.cred = x.cred /\ k.kind = x.kind /\ k.session = x.session
      BY <1>2, <3>1 DEF PK!Ceremony, PK!Steps
    <3>3. ceremonies' = [ceremonies EXCEPT ![w] = k]
      BY <2>2, <1>2 DEF PK!Reads, PK!TypeOK
    <3> HIDE DEF k
    <3>4. Goes(k)
      BY <1>1, <1>2, <2>2, <3>1, <3>2, <3>3 DEF PkShape, Registers, Rewrites
    <3> QED
      BY <3>2, <3>4
  <2> QED
    BY <1>3, <2>1, <2>2
<1>6. PkWork'
  <2>1. UNCHANGED <<redis, passkeys>> /\ pkHist'.raced = pkHist.raced
    BY <1>1
  <2>2. \A v \in Workers \ {w} : Registers(ceremonies[v]) => device'[ceremonies[v].cred] = 0 /\ ceremonies[v].cred # y.cred
    BY <1>4, <1>5
  <2>3. ceremonies' = [ceremonies EXCEPT ![w] = y] /\ PkShape(y) /\ ~Registers(y)
    BY <1>5
  <2>4. Rewrites(y) => passkeys[y.user].cred = y.cred /\ y.count >= passkeys[y.user].count
    BY <1>5
  <2> HIDE DEF Goes, x
  <2> QED
    BY <2>1, <2>2, <2>3, <2>4, PkMoves
<1>7. PK!TypeOK'
  BY <1>1, <1>2, <1>5 DEF PK!TypeOK
<1>8. PkMemory' /\ PkUnique' /\ PK!PasskeyAsMeant'
  BY <1>1 DEF PkIInv, PkMemory, PkUnique, PK!PasskeyAsMeant
<1> QED
  BY <1>6, <1>7, <1>8 DEF PkIInv


\* The row is written, for the user alone or with others at it, who are then noted.
LEMMA PkUpsert ==
  ASSUME PkIInv, NEW w \in Workers, PK!UpsertPasskeyCredential(w)
  PROVE  PkIInv'
<1> DEFINE x == ceremonies[w]
           u == x.user
           row == [cred |-> x.cred, count |-> x.count]
           mine == IF x.kind = "register" THEN row
                   ELSE [cred |-> pkHist.meant[u].cred, count |-> PK!Counted(x, pkHist.meant[u])]
<1>1. /\ x.step = "upsert" /\ passkeys' = [passkeys EXCEPT ![u] = row] /\ ceremonies' = [ceremonies EXCEPT ![w] = PK!Idle]
      /\ UNCHANGED <<now, redis, sessions, active, device, starts>>
  BY DEF PK!UpsertPasskeyCredential, PK!At, PK!Drop
<1>2. PK!TypeOK /\ x \in PK!Ceremony /\ x.count \in Nat /\ x.cred \in Ids /\ u \in Users /\ x.cred # None
  BY <1>1, AccessAssumption DEF PkIInv, PkWork, PkShapes, PkShape, PK!TypeOK, PK!Ceremony
<1>3. row \in PK!Row /\ row.cred = x.cred /\ row.count = x.count
  BY <1>2 DEF PK!Row
<1>4. mine \in PK!Row /\ (x.kind # "register" => /\ mine.cred = pkHist.meant[u].cred
                                                 /\ mine.count = IF x.count > pkHist.meant[u].count THEN x.count ELSE pkHist.meant[u].count)
  <2>1. pkHist.meant[u] \in PK!Row
    BY <1>2 DEF PK!TypeOK, PK!PkHist
  <2> QED
    BY <1>2, <1>3, <2>1 DEF PK!Row, PK!Counted
<1>5. /\ pkHist' \in PK!PkHist /\ pkHist'.uses = pkHist.uses /\ pkHist'.meant = [pkHist.meant EXCEPT ![u] = mine]
      /\ pkHist'.raced = IF PK!Writing(u) \ {w} = {} THEN pkHist.raced ELSE pkHist.raced \cup {u}
  <2>1. pkHist' = PK!Touch(u, [pkHist EXCEPT !.meant[u] = mine], PK!Writing(u) \ {w})
    BY DEF PK!UpsertPasskeyCredential
  <2>2. pkHist \in PK!PkHist
    BY <1>2 DEF PK!TypeOK
  <2> HIDE DEF mine
  <2> QED
    BY <1>2, <1>4, <2>1, <2>2 DEF PK!Touch, PK!PkHist
<1> HIDE DEF mine, row
<1>6. /\ passkeys'[u] = row /\ \A v \in Users \ {u} : passkeys'[v] = passkeys[v]
      /\ ceremonies'[w] = PK!Idle /\ \A v \in Workers \ {w} : ceremonies'[v] = ceremonies[v]
  BY <1>1, <1>2 DEF PK!TypeOK
<1>7. PK!TypeOK' /\ PkMemory'
  <2>1. PK!TypeOK'
    BY <1>1, <1>2, <1>3, <1>5, PkConstants DEF PK!TypeOK
  <2>2. PkMemory'
    BY <1>1, <1>5 DEF PkIInv, PkMemory
  <2> QED
    BY <2>1, <2>2
\* Nobody else has the credential.
<1>8. \A v \in Users \ {u} : passkeys[v].cred # x.cred
  <2>1. CASE x.kind = "register"
    BY <1>1, <2>1 DEF PkIInv, PkWork, PkFresh, Registers
  <2>2. CASE x.kind # "register"
    BY <1>1, <2>2 DEF PkIInv, PkWork, PkOwn, Rewrites
  <2> QED
    BY <2>1, <2>2
<1>9. PkUnique'
  BY <1>3, <1>6, <1>8 DEF PkIInv, PkUnique
<1>10. PK!PasskeyAsMeant'
  <2> SUFFICES ASSUME NEW q \in Users, q \notin pkHist'.raced PROVE passkeys'[q] = pkHist'.meant[q]
    BY DEF PK!PasskeyAsMeant
  <2>1. q \notin pkHist.raced /\ passkeys[q] = pkHist.meant[q] /\ pkHist.meant \in [Users -> PK!Row]
    BY <1>2, <1>5 DEF PkIInv, PK!PasskeyAsMeant, PK!TypeOK, PK!PkHist
  <2>2. CASE q # u
    BY <1>2, <1>5, <1>6, <2>1, <2>2
  <2>3. CASE q = u /\ x.kind = "register"
    BY <1>2, <1>5, <1>6, <2>1, <2>3 DEF mine
  <2>4. CASE q = u /\ x.kind # "register"
    <3>1. passkeys[u].cred = x.cred /\ x.count >= passkeys[u].count
      BY <1>1, <2>1, <2>4 DEF PkIInv, PkWork, PkHeld, Rewrites
    <3>2. mine.cred = x.cred /\ mine.count = x.count
      <4>1. pkHist.meant[u].count \in Nat /\ pkHist.meant[u] = passkeys[u]
        BY <1>2, <2>1, <2>4 DEF PK!Row
      <4> QED
        BY <1>2, <1>4, <2>4, <3>1, <4>1
    <3>3. mine = row
      BY <1>3, <1>4, <3>2 DEF PK!Row
    <3> QED
      BY <1>2, <1>5, <1>6, <2>1, <2>4, <3>3
  <2> QED
    BY <2>2, <2>3, <2>4
<1>11. PkShapes'
  BY <1>1, <1>6, PkConstants DEF PkIInv, PkWork, PkShapes, PkShape
<1>12. PkFresh'
  <2> SUFFICES ASSUME NEW v \in Workers, Registers(ceremonies'[v])
               PROVE  /\ device'[ceremonies'[v].cred] = 0
                      /\ \A q \in Users : passkeys'[q].cred # ceremonies'[v].cred
                      /\ \A z \in Workers \ {v} : ceremonies'[z].cred # ceremonies'[v].cred
    BY DEF PkFresh
  <2>1. v # w /\ ceremonies'[v] = ceremonies[v]
    BY <1>6, PkConstants DEF Registers
  <2>2. /\ device[ceremonies[v].cred] = 0 /\ ceremonies[v].cred # None
        /\ \A q \in Users : passkeys[q].cred # ceremonies[v].cred
        /\ \A z \in Workers \ {v} : ceremonies[z].cred # ceremonies[v].cred
    BY <2>1, AccessAssumption DEF PkIInv, PkWork, PkFresh, PkShapes, PkShape, Registers
  <2> QED
    BY <1>1, <1>3, <1>6, <2>1, <2>2, PkConstants
<1>13. PkOwn'
  <2> SUFFICES ASSUME NEW v \in Workers, Rewrites(ceremonies'[v])
               PROVE  /\ \A q \in Users : passkeys'[q].cred = ceremonies'[v].cred => q = ceremonies'[v].user
                      /\ \A z \in Workers : Rewrites(ceremonies'[z]) /\ ceremonies'[z].cred = ceremonies'[v].cred
                                               => ceremonies'[z].user = ceremonies'[v].user
    BY DEF PkOwn
  <2>1. v # w /\ ceremonies'[v] = ceremonies[v]
    BY <1>6, PkConstants DEF Rewrites
  <2>2. \A z \in Workers : Rewrites(ceremonies'[z]) => ceremonies'[z] = ceremonies[z]
    BY <1>6, PkConstants DEF Rewrites
  <2>3. x.cred = ceremonies[v].cred => u = ceremonies[v].user
    <3>1. CASE x.kind = "register"
      BY <1>1, <2>1, <3>1 DEF PkIInv, PkWork, PkFresh, Registers
    <3>2. CASE x.kind # "register"
      BY <1>1, <2>1, <3>2 DEF PkIInv, PkWork, PkOwn, Rewrites
    <3> QED
      BY <3>1, <3>2
  <2> QED
    BY <1>3, <1>6, <2>1, <2>2, <2>3 DEF PkIInv, PkWork, PkOwn
\* Whoever else was writing the user's row has been raced with.
<1>14. PkHeld'
  <2> SUFFICES ASSUME NEW v \in Workers, Rewrites(ceremonies'[v]), ceremonies'[v].user \notin pkHist'.raced
               PROVE  /\ passkeys'[ceremonies'[v].user].cred = ceremonies'[v].cred
                      /\ ceremonies'[v].count >= passkeys'[ceremonies'[v].user].count
    BY DEF PkHeld
  <2>1. v # w /\ ceremonies'[v] = ceremonies[v] /\ ceremonies[v].user \in Users
    BY <1>6, PkConstants DEF Rewrites, PkIInv, PkWork, PkShapes, PkShape
  <2>2. ceremonies[v].user # u
    <3>1. ceremonies[v].user = u => v \in PK!Writing(u) \ {w}
      BY <2>1 DEF PK!Writing, PK!At, Rewrites
    <3> QED
      BY <1>5, <2>1, <3>1
  <2> QED
    BY <1>5, <1>6, <2>1, <2>2 DEF PkIInv, PkWork, PkHeld
<1> QED
  BY <1>7, <1>9, <1>10, <1>11, <1>12, <1>13, <1>14 DEF PkIInv, PkWork

\* The row is removed.
LEMMA PkDeletes ==
  ASSUME PkIInv, NEW u \in Users, PK!PasskeyDelete(u) \/ PK!AdminResetPasskey(u)
  PROVE  PkIInv'
<1>1. PK!DeletePasskeyByUserID(u) /\ starts' = starts + 1
  BY DEF PK!PasskeyDelete, PK!AdminResetPasskey, PK!Request
<1>2. passkeys' = [passkeys EXCEPT ![u] = PK!NoRow] /\ UNCHANGED <<now, redis, sessions, active, ceremonies, device>>
  BY <1>1 DEF PK!DeletePasskeyByUserID
<1>3. PK!TypeOK
  BY DEF PkIInv
<1>4. /\ pkHist' \in PK!PkHist /\ pkHist'.uses = pkHist.uses /\ pkHist'.meant = [pkHist.meant EXCEPT ![u] = PK!NoRow]
      /\ pkHist'.raced = IF PK!Writing(u) = {} THEN pkHist.raced ELSE pkHist.raced \cup {u}
  <2>1. pkHist' = PK!Touch(u, [pkHist EXCEPT !.meant[u] = PK!NoRow], PK!Writing(u))
    BY <1>1 DEF PK!DeletePasskeyByUserID
  <2>2. pkHist \in PK!PkHist
    BY <1>3 DEF PK!TypeOK
  <2> QED
    BY <2>1, <2>2, PkConstants DEF PK!Touch, PK!PkHist
<1>5. passkeys'[u] = PK!NoRow /\ \A v \in Users \ {u} : passkeys'[v] = passkeys[v]
  BY <1>2, <1>3 DEF PK!TypeOK
<1>6. PK!TypeOK'
  BY <1>1, <1>2, <1>3, <1>4, PkConstants DEF PK!TypeOK
<1>7. PkMemory'
  BY <1>2, <1>4 DEF PkIInv, PkMemory
<1>8. PkUnique'
  BY <1>5, PkConstants DEF PkIInv, PkUnique
<1>9. PK!PasskeyAsMeant'
  <2> SUFFICES ASSUME NEW q \in Users, q \notin pkHist'.raced PROVE passkeys'[q] = pkHist'.meant[q]
    BY DEF PK!PasskeyAsMeant
  <2>1. passkeys[q] = pkHist.meant[q] /\ pkHist.meant \in [Users -> PK!Row]
    BY <1>3, <1>4 DEF PkIInv, PK!PasskeyAsMeant, PK!TypeOK, PK!PkHist
  <2> QED
    BY <1>4, <1>5, <2>1
<1>10. \A w \in Workers : ceremonies[w].step # "idle" => ceremonies[w].cred # None
  BY AccessAssumption DEF PkIInv, PkWork, PkShapes, PkShape
<1>11. PkShapes' /\ PkFresh' /\ PkOwn'
  <2>1. PkShapes'
    BY <1>2 DEF PkIInv, PkWork, PkShapes, PkShape
  <2>2. PkFresh'
    BY <1>2, <1>5, <1>10, PkConstants DEF PkIInv, PkWork, PkFresh, Registers
  <2>3. PkOwn'
    BY <1>2, <1>5, <1>10, PkConstants DEF PkIInv, PkWork, PkOwn, Rewrites
  <2> QED
    BY <2>1, <2>2, <2>3
<1>12. PkHeld'
  <2> SUFFICES ASSUME NEW v \in Workers, Rewrites(ceremonies[v]), ceremonies[v].user \notin pkHist'.raced
               PROVE  /\ passkeys'[ceremonies[v].user].cred = ceremonies[v].cred
                      /\ ceremonies[v].count >= passkeys'[ceremonies[v].user].count
    BY <1>2 DEF PkHeld
  <2>1. ceremonies[v].user \in Users
    BY DEF Rewrites, PkIInv, PkWork, PkShapes, PkShape
  <2>2. ceremonies[v].user # u
    <3>1. ceremonies[v].user = u => v \in PK!Writing(u)
      BY DEF PK!Writing, PK!At, Rewrites
    <3> QED
      BY <1>4, <3>1
  <2> QED
    BY <1>4, <1>5, <2>1, <2>2 DEF PkIInv, PkWork, PkHeld
<1> QED
  BY <1>6, <1>7, <1>8, <1>9, <1>11, <1>12 DEF PkIInv, PkWork

\* Accounts change status, the clock ticks, the server restarts.
LEMMA PkAround ==
  ASSUME PkIInv, PK!Restart \/ PK!Tick \/ \E u \in Users : PK!ToggleStatus(u)
  PROVE  PkIInv'
<1>1. CASE PK!Tick \/ \E u \in Users : PK!ToggleStatus(u)
  <2>1. UNCHANGED <<redis, sessions, passkeys, ceremonies, device, pkHist>> /\ PK!TypeOK'
    BY <1>1 DEF PkIInv, PK!TypeOK, PK!Tick, PK!ToggleStatus, PK!Request
  <2>2. PkMemory'
    BY <2>1 DEF PkIInv, PkMemory
  <2> QED
    BY <2>1, <2>2, PkRests DEF PkIInv
<1>2. CASE PK!Restart
  <2>1. /\ UNCHANGED <<now, redis, passkeys, active, device, pkHist>> /\ starts' = starts + 1
        /\ sessions' = IF redis THEN sessions ELSE [s \in Ids |-> PK!NoSession]
        /\ ceremonies' = [w \in Workers |-> PK!Idle]
    BY <1>2 DEF PK!Restart, PK!Request
  <2>2. PK!TypeOK'
    BY <2>1, PkConstants DEF PkIInv, PK!TypeOK
  <2>3. PkMemory' /\ PkUnique' /\ PK!PasskeyAsMeant'
    BY <2>1 DEF PkIInv, PkMemory, PkUnique, PK!PasskeyAsMeant
  <2>4. \A w \in Workers : ceremonies'[w] = PK!Idle
    BY <2>1
  <2>5. PkWork'
    BY <2>4, PkConstants DEF PkWork, PkShapes, PkShape, PkFresh, PkOwn, PkHeld, Registers, Rewrites
  <2> QED
    BY <2>2, <2>3, <2>5 DEF PkIInv
<1> QED
  BY <1>1, <1>2

LEMMA PkStep == PkIInv /\ [PK!Next]_(PK!vars) => PkIInv'
<1> SUFFICES ASSUME PkIInv, [PK!Next]_(PK!vars) PROVE PkIInv'
  OBVIOUS
<1>1. CASE UNCHANGED PK!vars
  BY <1>1, PkRests DEF PK!vars, PkIInv, PK!TypeOK, PkMemory
<1>2. CASE PK!PasskeyLoginBegin \/ \E u \in Users : PK!PasskeyRegisterBegin(u) \/ PK!PasskeyVerifyBegin(u)
  BY <1>2, PkBegins
<1>3. CASE PK!Restart \/ PK!Tick \/ \E u \in Users : PK!ToggleStatus(u)
  BY <1>3, PkAround
<1>4. CASE \E u \in Users : PK!PasskeyDelete(u) \/ PK!AdminResetPasskey(u)
  BY <1>4, PkDeletes
<1>5. ASSUME NEW u \in Users, NEW w \in Workers, NEW s \in Ids, PK!PasskeyRegisterFinish(w, u, s) PROVE PkIInv'
  <2>1. PICK c \in Ids : c \in PK!FreshCreds /\ PK!Finish(w, "register", u, s, c)
    BY <1>5 DEF PK!PasskeyRegisterFinish, PK!FreshCreds
  <2> QED
    BY <2>1, PkFinishes DEF PK!Kinds
<1>6. ASSUME NEW u \in Users, NEW w \in Workers, NEW s \in Ids, NEW c \in Ids, PK!PasskeyVerifyFinish(w, u, s, c) PROVE PkIInv'
  <2>1. PK!Known(c) /\ PK!Finish(w, "verify", u, s, c)
    BY <1>6 DEF PK!PasskeyVerifyFinish
  <2>2. "verify" \in PK!Kinds /\ u \in Users \cup {None} /\ "verify" # "register"
    BY DEF PK!Kinds
  <2> QED
    BY <2>1, <2>2, PkFinishes
<1>7. ASSUME NEW w \in Workers, NEW s \in Ids, NEW c \in Ids, PK!PasskeyLoginFinish(w, s, c) PROVE PkIInv'
  <2>1. PK!Known(c) /\ PK!Finish(w, "login", None, s, c)
    BY <1>7 DEF PK!PasskeyLoginFinish
  <2>2. "login" \in PK!Kinds /\ None \in Users \cup {None} /\ "login" # "register"
    BY DEF PK!Kinds
  <2> QED
    BY <2>1, <2>2, PkFinishes
<1>8. ASSUME NEW w \in Workers,
             PK!PopDel(w) \/ PK!GetPasskeyByCredentialID(w) \/ PK!GetPasskeyByUserID(w) \/ PK!UpsertPasskeyCredential(w)
      PROVE  PkIInv'
  BY <1>8, PkPopDel, PkReads, PkUpsert
<1> QED
  BY <1>1, <1>2, <1>3, <1>4, <1>5, <1>6, <1>7, <1>8 DEF PK!Next

LEMMA PkImplies == PkIInv => PK!PasskeyInv
<1> SUFFICES ASSUME PkIInv PROVE PK!PasskeyInv
  OBVIOUS
<1>1. ASSUME NEW s \in Ids, pkHist.uses[s] > 1 PROVE redis
  <2>1. pkHist.uses[s] \in Nat /\ redis \in BOOLEAN
    BY DEF PkIInv, PK!TypeOK, PK!PkHist
  <2> QED
    BY <1>1, <2>1 DEF PkIInv, PkMemory
<1> QED
  BY <1>1 DEF PkIInv, PkUnique, PK!PasskeyInv, PK!SessionsServeOnce

\* For any number of users, requests, sessions and restarts: a session serves one Finish request
\* unless Redis let several read it before one removed it (service/passkey/session.go:52-83), no
\* credential is in two users' rows, and a user has the passkey registered last, with the highest
\* counter accepted, or none after a removal, unless the row was written while another ceremony
\* was between its read and its write (model/passkey.go:152-165).
THEOREM PasskeyInvariant == Spec => []PasskeyInv
<1> DEFINE I == part = "PK" => PkIInv
<1>1. Init => I
  BY PkInit DEF Init
<1>2. I /\ [Next]_vars => I'
  <2> SUFFICES ASSUME I, [Next]_vars, part' = "PK" PROVE PkIInv'
    OBVIOUS
  <2>1. CASE UNCHANGED vars
    BY <2>1, PkStep DEF vars, pkVars, shared, PK!vars
  <2>2. CASE Next
    BY <2>2, PkStep DEF Next
  <2> QED
    BY <2>1, <2>2
<1>3. I => PasskeyInv
  BY PkImplies DEF PasskeyInv
<1> QED
  BY <1>1, <1>2, <1>3, PTL DEF Spec

---------------------------------------------------------------------------
(* Second factor: the inductive invariant. *)

\* What a login's step says of its fields.
TfShape(l) ==
  /\ l.step # "idle" => l.user \in Holders /\ l.ticket \in Ids
  /\ l.step = "del" => redis
  /\ l.step = "spend" => l.answer \in Ids /\ l.answer \in l.copy.hashed
  /\ l.step = "fail" => l.copy.lockedAt = 0
TfLogins == \A w \in Workers : TfShape(logins[w])

\* Without Redis a ticket that has been judged is gone.
TfTickets == ~redis => \A t \in Ids : hist.judged[t] <= 1 /\ (hist.judged[t] = 1 => tickets[t] = TF!Unissued)

\* While no login wrote from a changed row, each code stored is one user's and shown, and no code
\* that is shown has been accepted.
CodesOf(a) == a.hashed \cup a.plain
TfOwn == \A u \in Holders : acct[u].hashed \cap acct[u].plain = {} /\ CodesOf(acct[u]) \subseteq hist.shown
TfApart == \A u, v \in Holders : u # v => CodesOf(acct[u]) \cap CodesOf(acct[v]) = {}
TfSpent == \A c \in Ids : hist.spent[c] <= 1 /\ (c \in hist.shown => hist.spent[c] = 0)
TfCodes == hist.raced = {} => TfOwn /\ TfApart /\ TfSpent

\* While the blacklist has been asked and kept, it holds every token that logged out.
TfOut == ~hist.lost => hist.out \subseteq blacklist /\ hist.returned = {}

TfIInv == TF!TypeOK /\ now >= 1 /\ TfLogins /\ TfTickets /\ TfCodes /\ TF!LockCounts /\ TfOut

---------------------------------------------------------------------------
(* Second factor: what changes and what stays. *)

LEMMA TfConstants ==
  /\ TF!NewAcct \in TF!Acct /\ TF!Unissued \in TF!Ticket /\ TF!Unissued \in TF!Jwt /\ TF!Idle \in TF!Login
  /\ TF!NewAcct.hashed = {} /\ TF!NewAcct.plain = {} /\ TF!NewAcct.fails = 0 /\ TF!NewAcct.lockedAt = 0
  /\ TF!Idle.step = "idle" /\ TF!Unissued.user = None
<1>1. TF!NewAcct \in TF!Acct
  BY DEF TF!NewAcct, TF!Acct
<1>2. TF!Unissued \in TF!Ticket /\ TF!Unissued \in TF!Jwt
  BY DEF TF!Unissued, TF!Ticket, TF!Jwt
<1>3. TF!Idle \in TF!Login
  BY <1>1 DEF TF!Idle, TF!Login, TF!Answers
<1> QED
  BY <1>1, <1>2, <1>3 DEF TF!NewAcct, TF!Idle, TF!Unissued

LEMMA TfTypes ==
  ASSUME TF!TypeOK
  PROVE  /\ \A u \in Holders : /\ acct[u] \in TF!Acct /\ acct[u].hashed \in SUBSET Ids /\ acct[u].plain \in SUBSET Ids
                               /\ acct[u].fails \in Nat /\ acct[u].lockedAt \in Int
         /\ hist \in TF!Hist /\ hist.judged \in [Ids -> Nat] /\ hist.spent \in [Ids -> Nat] /\ hist.shown \in SUBSET Ids
         /\ hist.wrong \in [Holders -> Nat] /\ hist.raced \in SUBSET Holders
         /\ hist.out \in SUBSET Ids /\ hist.returned \in SUBSET Ids /\ hist.lost \in BOOLEAN
         /\ \A w \in Workers : /\ logins[w] \in TF!Login /\ logins[w].copy \in TF!Acct /\ logins[w].copy.hashed \in SUBSET Ids
                               /\ logins[w].copy.plain \in SUBSET Ids
                               /\ logins[w].copy.fails \in Nat /\ logins[w].copy.lockedAt \in Int
<1>1. acct \in [Holders -> TF!Acct] /\ hist \in TF!Hist /\ logins \in [Workers -> TF!Login]
  BY DEF TF!TypeOK
<1>2. \A a \in TF!Acct : a.hashed \in SUBSET Ids /\ a.plain \in SUBSET Ids /\ a.fails \in Nat /\ a.lockedAt \in Int
  BY DEF TF!Acct
<1>3. \A l \in TF!Login : l.copy \in TF!Acct
  BY DEF TF!Login
<1>4. /\ hist.judged \in [Ids -> Nat] /\ hist.spent \in [Ids -> Nat] /\ hist.shown \in SUBSET Ids
      /\ hist.wrong \in [Holders -> Nat] /\ hist.raced \in SUBSET Holders
      /\ hist.out \in SUBSET Ids /\ hist.returned \in SUBSET Ids /\ hist.lost \in BOOLEAN
  BY <1>1 DEF TF!Hist
<1> QED
  BY <1>1, <1>2, <1>3, <1>4

\* Nothing about the codes changes, but perhaps that somebody raced.
LEMMA TfCodesStay ==
  ASSUME TfCodes, hist.raced \subseteq hist'.raced, hist'.shown = hist.shown, hist'.spent = hist.spent,
         \A u \in Holders : acct'[u].hashed = acct[u].hashed /\ acct'[u].plain = acct[u].plain
  PROVE  TfCodes'
<1> SUFFICES ASSUME hist'.raced = {} PROVE TfOwn' /\ TfApart' /\ TfSpent'
  BY DEF TfCodes
<1>1. TfOwn /\ TfApart /\ TfSpent
  BY DEF TfCodes
<1> QED
  BY <1>1 DEF TfOwn, TfApart, TfSpent, CodesOf

\* Nothing about wrong answers changes, but perhaps that somebody raced.
LEMMA TfLockStays ==
  ASSUME TF!LockCounts, hist.raced \subseteq hist'.raced, hist'.wrong = hist.wrong,
         \A u \in Holders : acct'[u].fails = acct[u].fails /\ acct'[u].lockedAt = acct[u].lockedAt
  PROVE  TF!LockCounts'
BY DEF TF!LockCounts

\* One user's count starts again.
LEMMA TfLockClears ==
  ASSUME TF!LockCounts, TF!TypeOK, NEW u \in Holders, hist.raced \subseteq hist'.raced, hist'.wrong = [hist.wrong EXCEPT ![u] = 0],
         acct'[u].fails = 0,
         \A v \in Holders \ {u} : acct'[v].fails = acct[v].fails /\ acct'[v].lockedAt = acct[v].lockedAt
  PROVE  TF!LockCounts'
<1>1. hist.wrong \in [Holders -> Nat] /\ MaxFails \in Nat \ {0}
  BY TfTypes, AccessAssumption
<1>2. hist'.wrong[u] = 0 /\ \A v \in Holders \ {u} : hist'.wrong[v] = hist.wrong[v]
  BY <1>1
<1> QED
  BY <1>1, <1>2 DEF TF!LockCounts

\* A user's codes are replaced by new ones, or withdrawn.
LEMMA TfCodesRenewed ==
  ASSUME TfCodes, TF!TypeOK, NEW u \in Holders, NEW S \in SUBSET Ids,
         hist'.raced = hist.raced, hist'.spent = hist.spent, hist'.shown = TF!Withdraw(u) \cup S,
         S \cap hist.shown = {}, \A c \in S : hist.spent[c] = 0,
         \A v \in Holders \ {u} : acct'[v] = acct[v],
         acct'[u].hashed \cap acct'[u].plain = {}, CodesOf(acct'[u]) = S
  PROVE  TfCodes'
<1> SUFFICES ASSUME hist.raced = {} PROVE TfOwn' /\ TfApart' /\ TfSpent'
  BY DEF TfCodes
<1>1. TfOwn /\ TfApart /\ TfSpent
  BY DEF TfCodes
<1>2. hist'.shown = (hist.shown \ CodesOf(acct[u])) \cup S
  BY DEF TF!Withdraw, CodesOf
<1>3. \A v \in Holders \ {u} : CodesOf(acct'[v]) = CodesOf(acct[v]) /\ CodesOf(acct[v]) \cap CodesOf(acct[u]) = {}
  BY <1>1 DEF TfApart, CodesOf
<1>4. \A v \in Holders : CodesOf(acct[v]) \subseteq hist.shown
  BY <1>1 DEF TfOwn
<1>5. TfOwn'
  <2> SUFFICES ASSUME NEW v \in Holders
               PROVE  acct'[v].hashed \cap acct'[v].plain = {} /\ CodesOf(acct'[v]) \subseteq hist'.shown
    BY DEF TfOwn, CodesOf
  <2>1. CASE v = u
    BY <1>2, <2>1
  <2>2. CASE v # u
    BY <1>1, <1>2, <1>3, <1>4, <2>2 DEF TfOwn
  <2> QED
    BY <2>1, <2>2
<1>6. TfApart'
  <2> SUFFICES ASSUME NEW v \in Holders, NEW q \in Holders, v # q
               PROVE  CodesOf(acct'[v]) \cap CodesOf(acct'[q]) = {}
    BY DEF TfApart, CodesOf
  <2>1. CASE v # u /\ q # u
    BY <1>1, <1>3, <2>1 DEF TfApart
  <2>2. CASE v = u
    BY <1>3, <1>4, <2>2
  <2>3. CASE q = u
    BY <1>3, <1>4, <2>3
  <2> QED
    BY <2>1, <2>2, <2>3
<1>7. TfSpent'
  BY <1>1, <1>2 DEF TfSpent
<1> QED
  BY <1>5, <1>6, <1>7

LEMMA TfInit == TF!Init => TfIInv
<1> SUFFICES ASSUME TF!Init PROVE TfIInv
  OBVIOUS
<1>1. PICK u \in Holders, S \in SUBSET Ids :
        /\ acct = [v \in Holders |-> IF v = u /\ S # {} THEN TF!Enrolled(S) ELSE TF!NewAcct]
        /\ hist = [judged |-> [t \in Ids |-> 0], spent |-> [c \in Ids |-> 0], shown |-> S,
                   wrong |-> [v \in Holders |-> 0], raced |-> {}, out |-> {}, returned |-> {}, lost |-> FALSE]
  BY DEF TF!Init, TF!CodeSets
<1>2. hist \in TF!Hist
  BY <1>1 DEF TF!Hist
<1>3. /\ hist.judged = [t \in Ids |-> 0] /\ hist.spent = [c \in Ids |-> 0] /\ hist.shown = S
      /\ hist.wrong = [v \in Holders |-> 0] /\ hist.raced = {} /\ hist.out = {} /\ hist.returned = {}
  BY <1>1
<1>4. TF!Enrolled(S) \in TF!Acct /\ TF!Enrolled(S).hashed = S /\ TF!Enrolled(S).plain = {} /\ TF!Enrolled(S).fails = 0
  BY TfConstants DEF TF!Enrolled, TF!Acct
<1>5. \A v \in Holders : acct[v] = IF v = u /\ S # {} THEN TF!Enrolled(S) ELSE TF!NewAcct
  BY <1>1
<1>6. acct \in [Holders -> TF!Acct]
  BY <1>1, <1>4, TfConstants
<1>7. /\ now = 1 /\ redis \in BOOLEAN /\ starts = 0 /\ tickets = [t \in Ids |-> TF!Unissued] /\ jwts = [j \in Ids |-> TF!Unissued]
      /\ blacklist = {} /\ logins = [w \in Workers |-> TF!Idle]
  BY DEF TF!Init
<1>8. TF!TypeOK /\ now >= 1
  BY <1>2, <1>6, <1>7, TfConstants DEF TF!TypeOK
<1>9. TfLogins
  BY <1>7, TfConstants DEF TfLogins, TfShape
<1>10. TfTickets /\ TfOut
  BY <1>3, <1>7 DEF TfTickets, TfOut
<1>11. TfCodes
  <2>1. \A v \in Holders : CodesOf(acct[v]) = IF v = u THEN S ELSE {}
    BY <1>4, <1>5, TfConstants DEF CodesOf
  <2>2. \A v \in Holders : acct[v].plain = {}
    BY <1>4, <1>5, TfConstants
  <2> QED
    BY <1>3, <2>1, <2>2 DEF TfCodes, TfOwn, TfApart, TfSpent
<1>12. TF!LockCounts
  <2>1. \A v \in Holders : acct[v].fails = 0
    BY <1>4, <1>5, TfConstants
  <2> QED
    BY <1>3, <2>1, AccessAssumption DEF TF!LockCounts
<1> QED
  BY <1>8, <1>9, <1>10, <1>11, <1>12 DEF TfIInv

---------------------------------------------------------------------------
(* Second factor: managing the factor. *)

LEMMA TfUserLogin ==
  ASSUME TfIInv, NEW u \in Holders, TF!UserLogin(u)
  PROVE  TfIInv'
<1>1. UNCHANGED <<now, redis, acct, blacklist, logins, hist>> /\ starts' = starts + 1
  BY DEF TF!UserLogin, TF!Request
<1>2. \/ jwts' = jwts /\ \E t \in TF!FreshTickets : tickets' = [tickets EXCEPT ![t] = [user |-> u, expires |-> now + TicketTTL]]
      \/ tickets' = tickets /\ \E j \in TF!FreshJwts : jwts' = [jwts EXCEPT ![j] = [user |-> u, expires |-> now + JwtTTL]]
  BY DEF TF!UserLogin, TF!IssuePreAuthTicket, TF!GenerateToken
<1>3. TF!TypeOK
  BY DEF TfIInv
<1>4. [user |-> u, expires |-> now + TicketTTL] \in TF!Ticket /\ [user |-> u, expires |-> now + JwtTTL] \in TF!Jwt
  <2>1. now + TicketTTL \in Int /\ now + JwtTTL \in Int
    BY <1>3, AccessAssumption DEF TF!TypeOK
  <2> QED
    BY <2>1 DEF TF!Ticket, TF!Jwt
<1>5. TF!TypeOK' /\ now' >= 1
  BY <1>1, <1>2, <1>3, <1>4 DEF TF!TypeOK, TfIInv
<1>6. TfTickets'
  <2> SUFFICES ASSUME ~redis, NEW t \in Ids PROVE hist.judged[t] <= 1 /\ (hist.judged[t] = 1 => tickets'[t] = TF!Unissued)
    BY <1>1 DEF TfTickets
  <2>1. hist.judged[t] <= 1 /\ (hist.judged[t] = 1 => tickets[t] = TF!Unissued)
    BY DEF TfIInv, TfTickets
  <2>2. hist.judged[t] = 1 => tickets'[t] = tickets[t]
    BY <1>2, <1>3 DEF TF!FreshTickets, TF!TypeOK
  <2> QED
    BY <2>1, <2>2
<1>7. TfLogins' /\ TfCodes' /\ TF!LockCounts' /\ TfOut'
  BY <1>1 DEF TfIInv, TfLogins, TfShape, TfCodes, TfOwn, TfApart, TfSpent, CodesOf, TF!LockCounts, TfOut
<1> QED
  BY <1>5, <1>6, <1>7 DEF TfIInv

\* TOTPSetup and RegenerateBackupCodes
LEMMA TfNewCodes ==
  ASSUME TfIInv, NEW u \in Holders, TF!TOTPSetup(u) \/ TF!RegenerateBackupCodes(u)
  PROVE  TfIInv'
<1>1. UNCHANGED <<now, redis, tickets, jwts, blacklist, logins>> /\ starts' = starts + 1
  BY DEF TF!TOTPSetup, TF!RegenerateBackupCodes, TF!Request
<1>2. PICK S \in TF!NewCodes :
        /\ hist' = [hist EXCEPT !.shown = TF!Withdraw(u) \cup S]
        /\ \/ acct' = [acct EXCEPT ![u].secret = TRUE, ![u].hashed = S, ![u].plain = {}]
           \/ acct' = [acct EXCEPT ![u].hashed = {}, ![u].plain = S]
  BY DEF TF!TOTPSetup, TF!RegenerateBackupCodes
<1>3. TF!TypeOK
  BY DEF TfIInv
<1>4. S \in SUBSET Ids /\ S \cap hist.shown = {} /\ \A c \in S : hist.spent[c] = 0
  <2>1. S \in SUBSET Ids /\ S \cap (hist.shown \cup {c \in Ids : hist.spent[c] > 0}) = {}
    BY <1>2 DEF TF!NewCodes, TF!CodeSets
  <2>2. \A c \in Ids : hist.spent[c] \in Nat
    BY <1>3, TfTypes
  <2> QED
    BY <2>1, <2>2
<1>5. acct \in [Holders -> TF!Acct] /\ acct[u] \in TF!Acct
  BY <1>3 DEF TF!TypeOK
<1>6. /\ acct' \in [Holders -> TF!Acct] /\ \A v \in Holders \ {u} : acct'[v] = acct[v]
      /\ acct'[u].fails = acct[u].fails /\ acct'[u].lockedAt = acct[u].lockedAt
      /\ acct'[u].hashed \cap acct'[u].plain = {} /\ acct'[u].hashed \cup acct'[u].plain = S
  <2>1. CASE acct' = [acct EXCEPT ![u].secret = TRUE, ![u].hashed = S, ![u].plain = {}]
    BY <1>4, <1>5, <2>1 DEF TF!Acct
  <2>2. CASE acct' = [acct EXCEPT ![u].hashed = {}, ![u].plain = S]
    BY <1>4, <1>5, <2>2 DEF TF!Acct
  <2> QED
    BY <1>2, <2>1, <2>2
<1>7. TF!Withdraw(u) \subseteq Ids
  BY <1>3, TfTypes DEF TF!Withdraw
<1>8. /\ hist' \in TF!Hist /\ hist'.shown = TF!Withdraw(u) \cup S
      /\ hist'.judged = hist.judged /\ hist'.spent = hist.spent /\ hist'.wrong = hist.wrong /\ hist'.raced = hist.raced
      /\ hist'.out = hist.out /\ hist'.returned = hist.returned /\ hist'.lost = hist.lost
  <2>1. hist \in TF!Hist
    BY <1>3 DEF TF!TypeOK
  <2> QED
    BY <1>2, <1>4, <1>7, <2>1 DEF TF!Hist
<1>9. TF!TypeOK' /\ now' >= 1
  BY <1>1, <1>3, <1>6, <1>8 DEF TfIInv, TF!TypeOK
<1>10. TfLogins' /\ TfTickets'
  BY <1>1, <1>8 DEF TfIInv, TfLogins, TfShape, TfTickets
<1>11. TfOut'
  BY <1>1, <1>8, Zenon DEF TfIInv, TfOut
<1>12. TfCodes'
  <2>1. CodesOf(acct'[u]) = S
    BY <1>6 DEF CodesOf
  <2> QED
    BY <1>3, <1>4, <1>6, <1>8, <2>1, TfCodesRenewed DEF TfIInv
<1>13. TF!LockCounts'
  BY <1>6, <1>8, TfLockStays DEF TfIInv
<1> QED
  BY <1>9, <1>10, <1>11, <1>12, <1>13 DEF TfIInv

LEMMA TfEnables ==
  ASSUME TfIInv, NEW u \in Holders, TF!TOTPEnable(u)
  PROVE  TfIInv'
<1>1. /\ UNCHANGED <<now, redis, tickets, jwts, blacklist, logins, hist>> /\ starts' = starts + 1
      /\ acct' = [acct EXCEPT ![u].enabled = TRUE]
  BY DEF TF!TOTPEnable, TF!Request
<1>2. acct \in [Holders -> TF!Acct] /\ acct[u] \in TF!Acct /\ TF!TypeOK
  BY DEF TfIInv, TF!TypeOK
<1>3. /\ acct' \in [Holders -> TF!Acct]
      /\ \A v \in Holders : /\ acct'[v].hashed = acct[v].hashed /\ acct'[v].plain = acct[v].plain
                             /\ acct'[v].fails = acct[v].fails /\ acct'[v].lockedAt = acct[v].lockedAt
  BY <1>1, <1>2 DEF TF!Acct
<1>4. TF!TypeOK' /\ now' >= 1
  BY <1>1, <1>2, <1>3 DEF TfIInv, TF!TypeOK
<1>5. TfLogins' /\ TfTickets' /\ TfOut'
  BY <1>1 DEF TfIInv, TfLogins, TfShape, TfTickets, TfOut
<1>6. TfCodes' /\ TF!LockCounts'
  BY <1>1, <1>3, TfCodesStay, TfLockStays DEF TfIInv
<1> QED
  BY <1>4, <1>5, <1>6 DEF TfIInv

LEMMA TfDisables ==
  ASSUME TfIInv, NEW u \in Holders, TF!TOTPDisable(u) \/ TF!AdminDisable2FA(u)
  PROVE  TfIInv'
<1>1. /\ UNCHANGED <<now, redis, tickets, jwts, blacklist, logins>> /\ starts' = starts + 1
      /\ acct' = [acct EXCEPT ![u] = TF!NewAcct]
      /\ hist' = [hist EXCEPT !.shown = TF!Withdraw(u), !.wrong[u] = 0]
  BY DEF TF!TOTPDisable, TF!AdminDisable2FA, TF!Disable, TF!Request
<1>2. TF!TypeOK /\ acct \in [Holders -> TF!Acct] /\ hist \in TF!Hist
  BY DEF TfIInv, TF!TypeOK
<1>3. acct' \in [Holders -> TF!Acct] /\ acct'[u] = TF!NewAcct /\ \A v \in Holders \ {u} : acct'[v] = acct[v]
  BY <1>1, <1>2, TfConstants
<1>4. TF!Withdraw(u) \in SUBSET Ids
  BY <1>2, TfTypes DEF TF!Withdraw
<1>5. /\ hist' \in TF!Hist /\ hist'.shown = TF!Withdraw(u)
      /\ hist'.judged = hist.judged /\ hist'.spent = hist.spent
      /\ hist'.wrong = [hist.wrong EXCEPT ![u] = 0] /\ hist'.raced = hist.raced
      /\ hist'.out = hist.out /\ hist'.returned = hist.returned /\ hist'.lost = hist.lost
  BY <1>1, <1>2, <1>4 DEF TF!Hist
<1>6. TF!TypeOK' /\ now' >= 1
  BY <1>1, <1>2, <1>3, <1>5 DEF TfIInv, TF!TypeOK
<1>7. TfLogins' /\ TfTickets'
  BY <1>1, <1>5 DEF TfIInv, TfLogins, TfShape, TfTickets
<1>8. TfOut'
  BY <1>1, <1>5, Zenon DEF TfIInv, TfOut
<1>9. TfCodes'
  <2>1. CodesOf(acct'[u]) = {} /\ acct'[u].hashed \cap acct'[u].plain = {}
    BY <1>3, TfConstants DEF CodesOf
  <2>2. hist'.shown = TF!Withdraw(u) \cup {}
    BY <1>5
  <2> QED
    BY <1>2, <1>3, <1>5, <2>1, <2>2, TfCodesRenewed DEF TfIInv
<1>10. TF!LockCounts'
  <2>1. acct'[u].fails = 0
    BY <1>3, TfConstants
  <2> QED
    BY <1>2, <1>3, <1>5, <2>1, TfLockClears DEF TfIInv
<1> QED
  BY <1>6, <1>7, <1>8, <1>9, <1>10 DEF TfIInv

---------------------------------------------------------------------------
(* Second factor: signing in. *)

\* A worker goes on to y.
LEMMA TfMoves ==
  ASSUME TfIInv, NEW w \in Workers, NEW y, logins' = [logins EXCEPT ![w] = y], redis' = redis, TfShape(y)
  PROVE  TfLogins'
<1>1. \A v \in Workers : logins'[v] = IF v = w THEN y ELSE logins[v]
  BY DEF TfIInv, TF!TypeOK
<1> QED
  BY <1>1 DEF TfIInv, TfLogins, TfShape

\* A ticket is judged, and gone.
LEMMA TfJudges ==
  ASSUME TfIInv, NEW t \in Ids, tickets' = [tickets EXCEPT ![t] = TF!Unissued], redis' = redis, acct' = acct, blacklist' = blacklist,
         hist' = TF!Judged(t, hist), ~redis => tickets[t] # TF!Unissued
  PROVE  hist' \in TF!Hist /\ TfTickets' /\ TfCodes' /\ TF!LockCounts' /\ TfOut'
<1>1. TF!TypeOK /\ hist \in TF!Hist
  BY DEF TfIInv, TF!TypeOK
<1>2. /\ hist' \in TF!Hist /\ hist'.judged = [hist.judged EXCEPT ![t] = @ + 1]
      /\ hist'.shown = hist.shown /\ hist'.spent = hist.spent /\ hist'.wrong = hist.wrong /\ hist'.raced = hist.raced
      /\ hist'.out = hist.out /\ hist'.returned = hist.returned /\ hist'.lost = hist.lost
  BY <1>1 DEF TF!Judged, TF!Hist
<1>3. TfTickets'
  <2> SUFFICES ASSUME ~redis, NEW s \in Ids PROVE hist'.judged[s] <= 1 /\ (hist'.judged[s] = 1 => tickets'[s] = TF!Unissued)
    BY DEF TfTickets
  <2>1. hist.judged \in [Ids -> Nat] /\ tickets \in [Ids -> TF!Ticket]
    BY <1>1, TfTypes DEF TF!TypeOK
  <2>2. \A z \in Ids : hist.judged[z] <= 1 /\ (hist.judged[z] = 1 => tickets[z] = TF!Unissued)
    BY DEF TfIInv, TfTickets
  <2>3. CASE s = t
    BY <1>2, <2>1, <2>2, <2>3
  <2>4. CASE s # t
    BY <1>2, <2>1, <2>2, <2>4
  <2> QED
    BY <2>3, <2>4
<1>4. TfCodes' /\ TF!LockCounts'
  BY <1>2, TfCodesStay, TfLockStays DEF TfIInv
<1>5. TfOut'
  BY <1>2, Zenon DEF TfIInv, TfOut
<1> QED
  BY <1>2, <1>3, <1>4, <1>5

\* A ticket is gone and nothing else happens but to a login.
LEMMA TfTakes ==
  ASSUME TfIInv, NEW t \in Ids, tickets' \in {tickets, [tickets EXCEPT ![t] = TF!Unissued]},
         UNCHANGED <<redis, acct, blacklist, hist>>
  PROVE  TfTickets' /\ TfCodes' /\ TF!LockCounts' /\ TfOut'
<1>1. TfTickets'
  BY DEF TfIInv, TfTickets, TF!TypeOK
<1>2. TfCodes' /\ TF!LockCounts'
  BY TfCodesStay, TfLockStays DEF TfIInv
<1>3. TfOut'
  BY DEF TfIInv, TfOut
<1> QED
  BY <1>1, <1>2, <1>3

LEMMA TfConsumes ==
  ASSUME TfIInv, NEW w \in Workers, NEW u \in Holders, NEW t \in Ids, NEW a \in TF!Answers, TF!ConsumePreAuthTicket(w, u, t, a)
  PROVE  TfIInv'
<1> DEFINE y(step, found) == [step |-> step, user |-> u, ticket |-> t, answer |-> a, found |-> found, copy |-> TF!NewAcct]
<1>1. UNCHANGED <<now, redis, acct, jwts, blacklist>> /\ starts' = starts + 1 /\ tickets[t] # TF!Unissued
  BY DEF TF!ConsumePreAuthTicket, TF!Request
<1>2. TF!TypeOK /\ now >= 1
  BY DEF TfIInv
<1>3. \A step \in {"del", "read"}, found \in Holders \cup {None} :
        y(step, found) \in TF!Login /\ y(step, found).step = step /\ y(step, found).user = u /\ y(step, found).ticket = t
  BY TfConstants DEF TF!Login
<1>4. tickets[t].user \in Holders \cup {None} /\ TF!Unissued \in TF!Ticket
  BY <1>2, TfConstants DEF TF!TypeOK, TF!Ticket
<1>5. CASE TF!ConsumeGet(w, u, t, a)
  <2>1. redis /\ logins' = [logins EXCEPT ![w] = y("del", tickets[t].user)] /\ UNCHANGED <<tickets, hist>>
    BY <1>5 DEF TF!ConsumeGet, TF!Begin
  <2>2. PICK k \in TF!Login : k = y("del", tickets[t].user) /\ k.step = "del" /\ k.user = u /\ k.ticket = t
    BY <1>3, <1>4
  <2>3. TfLogins'
    BY <1>1, <2>1, <2>2, TfMoves DEF TfShape
  <2>4. TF!TypeOK' /\ now' >= 1
    BY <1>1, <1>2, <2>1, <2>2 DEF TF!TypeOK
  <2>5. TfTickets' /\ TfCodes' /\ TF!LockCounts' /\ TfOut'
    BY <1>1, <2>1, TfTakes
  <2> QED
    BY <2>3, <2>4, <2>5 DEF TfIInv
<1>6. CASE TF!ConsumeInMemory(w, u, t, a)
  <2>1. tickets' = [tickets EXCEPT ![t] = TF!Unissued]
    BY <1>6 DEF TF!ConsumeInMemory
  <2>2. tickets' \in [Ids -> TF!Ticket]
    BY <1>2, <1>4, <2>1 DEF TF!TypeOK
  <2>3. CASE UNCHANGED <<logins, hist>>
    <3>1. TF!TypeOK' /\ now' >= 1
      BY <1>1, <1>2, <2>2, <2>3 DEF TF!TypeOK
    <3>2. TfTickets' /\ TfCodes' /\ TF!LockCounts' /\ TfOut'
      BY <1>1, <2>1, <2>3, TfTakes
    <3>3. TfLogins'
      BY <1>1, <2>3 DEF TfIInv, TfLogins, TfShape
    <3> QED
      BY <3>1, <3>2, <3>3 DEF TfIInv
  <2>4. CASE logins' = [logins EXCEPT ![w] = y("read", u)] /\ hist' = TF!Judged(t, hist)
    <3>1. PICK k \in TF!Login : k = y("read", u) /\ k.step = "read" /\ k.user = u /\ k.ticket = t
      BY <1>3
    <3>2. TfLogins'
      BY <1>1, <2>4, <3>1, TfMoves DEF TfShape
    <3>3. hist' \in TF!Hist /\ TfTickets' /\ TfCodes' /\ TF!LockCounts' /\ TfOut'
      BY <1>1, <2>1, <2>4, TfJudges
    <3>4. TF!TypeOK' /\ now' >= 1
      BY <1>1, <1>2, <2>2, <2>4, <3>1, <3>3 DEF TF!TypeOK
    <3> QED
      BY <3>2, <3>3, <3>4 DEF TfIInv
  <2> QED
    BY <1>6, <2>3, <2>4 DEF TF!ConsumeInMemory, TF!Begin
<1> QED
  BY <1>5, <1>6 DEF TF!ConsumePreAuthTicket

LEMMA TfConsumeDel ==
  ASSUME TfIInv, NEW w \in Workers, TF!ConsumeDel(w)
  PROVE  TfIInv'
<1> DEFINE l == logins[w]
<1>1. /\ l.step = "del" /\ UNCHANGED <<now, redis, acct, jwts, blacklist, starts>>
      /\ tickets' = [tickets EXCEPT ![l.ticket] = TF!Unissued]
  BY DEF TF!ConsumeDel, TF!At
<1>2. TF!TypeOK /\ now >= 1 /\ l \in TF!Login /\ TfShape(l)
  BY DEF TfIInv, TF!TypeOK, TfLogins
<1>3. l.user \in Holders /\ l.ticket \in Ids /\ redis
  BY <1>1, <1>2 DEF TfShape
<1>4. tickets' \in [Ids -> TF!Ticket]
  BY <1>1, <1>2, TfConstants DEF TF!TypeOK
<1>5. CASE logins' = [logins EXCEPT ![w].step = "read"] /\ hist' = TF!Judged(l.ticket, hist)
  <2> DEFINE k == [l EXCEPT !.step = "read"]
  <2>1. k \in TF!Login /\ k.step = "read" /\ k.user = l.user /\ k.ticket = l.ticket
    BY <1>2 DEF TF!Login
  <2>2. logins' = [logins EXCEPT ![w] = k]
    BY <1>2, <1>5 DEF TF!TypeOK
  <2> HIDE DEF k
  <2>3. TfLogins'
    BY <1>1, <1>3, <2>1, <2>2, TfMoves DEF TfShape
  <2>4. hist' \in TF!Hist /\ TfTickets' /\ TfCodes' /\ TF!LockCounts' /\ TfOut'
    BY <1>1, <1>3, <1>5, TfJudges
  <2>5. TF!TypeOK' /\ now' >= 1
    BY <1>1, <1>2, <1>4, <2>1, <2>2, <2>4 DEF TF!TypeOK
  <2> QED
    BY <2>3, <2>4, <2>5 DEF TfIInv
<1>6. CASE logins' = [logins EXCEPT ![w] = TF!Idle] /\ UNCHANGED hist
  <2>1. TfLogins'
    BY <1>1, <1>6, TfMoves, TfConstants DEF TfShape
  <2>2. TfTickets' /\ TfCodes' /\ TF!LockCounts' /\ TfOut'
    BY <1>1, <1>3, <1>6, TfTakes
  <2>3. TF!TypeOK' /\ now' >= 1
    BY <1>1, <1>2, <1>4, <1>6, TfConstants DEF TF!TypeOK
  <2> QED
    BY <2>1, <2>2, <2>3 DEF TfIInv
<1> QED
  BY <1>5, <1>6 DEF TF!ConsumeDel, TF!Go, TF!Stop

LEMMA TfReads ==
  ASSUME TfIInv, NEW w \in Workers, TF!ReadUser(w)
  PROVE  TfIInv'
<1> DEFINE l == logins[w]
           k == [l EXCEPT !.step = "checkLock", !.copy = acct[l.user]]
<1>1. /\ l.step = "read" /\ UNCHANGED <<now, redis, acct, tickets, jwts, blacklist, hist, starts>>
      /\ logins' = [logins EXCEPT ![w].step = "checkLock", ![w].copy = acct[l.user]]
  BY DEF TF!ReadUser, TF!At, TF!stores
<1>2. TF!TypeOK /\ now >= 1 /\ l \in TF!Login /\ TfShape(l)
  BY DEF TfIInv, TF!TypeOK, TfLogins
<1>3. l.user \in Holders /\ l.ticket \in Ids /\ acct[l.user] \in TF!Acct
  BY <1>1, <1>2, TfTypes DEF TfShape
<1>4. k \in TF!Login /\ k.step = "checkLock" /\ k.user = l.user /\ k.ticket = l.ticket
  BY <1>2, <1>3 DEF TF!Login
<1>5. logins' = [logins EXCEPT ![w] = k]
  BY <1>1, <1>2 DEF TF!TypeOK
<1> HIDE DEF k
<1>6. TfLogins'
  BY <1>1, <1>3, <1>4, <1>5, TfMoves DEF TfShape
<1>7. TF!TypeOK' /\ now' >= 1
  BY <1>1, <1>2, <1>4, <1>5 DEF TF!TypeOK
<1>8. TfTickets' /\ TfCodes' /\ TF!LockCounts' /\ TfOut'
  BY <1>1, <1>3, TfTakes
<1> QED
  BY <1>6, <1>7, <1>8 DEF TfIInv

\* A count goes up or back to zero.
LEMMA TfCounts ==
  ASSUME NEW S, NEW g \in [S -> Nat], NEW x \in S
  PROVE  [g EXCEPT ![x] = @ + 1] \in [S -> Nat] /\ [g EXCEPT ![x] = 0] \in [S -> Nat]
OBVIOUS

LEMMA TfRaces ==
  ASSUME TF!TypeOK, NEW u \in Holders, NEW l
  PROVE  /\ TF!Raced(u, l) \in SUBSET Holders /\ hist.raced \subseteq TF!Raced(u, l)
         /\ u \notin TF!Raced(u, l) => acct[u] = l.copy
<1>1. hist.raced \in SUBSET Holders
  BY TfTypes
<1>2. CASE acct[u] = l.copy
  BY <1>1, <1>2 DEF TF!Raced
<1>3. CASE acct[u] # l.copy
  BY <1>1, <1>3 DEF TF!Raced
<1> QED
  BY <1>2, <1>3

\* Count and lock are cleared.
LEMMA TfClears ==
  ASSUME TfIInv, NEW u \in Holders, NEW l, acct' = [acct EXCEPT ![u].fails = 0, ![u].lockedAt = 0], hist' = TF!Cleared(u, l),
         UNCHANGED <<redis, tickets, blacklist>>
  PROVE  acct' \in [Holders -> TF!Acct] /\ hist' \in TF!Hist /\ TfTickets' /\ TfCodes' /\ TF!LockCounts' /\ TfOut'
<1>1. TF!TypeOK /\ acct \in [Holders -> TF!Acct] /\ acct[u] \in TF!Acct /\ hist \in TF!Hist
  BY DEF TfIInv, TF!TypeOK
<1>2. /\ acct' \in [Holders -> TF!Acct] /\ acct'[u].fails = 0
      /\ \A v \in Holders : acct'[v].hashed = acct[v].hashed /\ acct'[v].plain = acct[v].plain
      /\ \A v \in Holders \ {u} : acct'[v].fails = acct[v].fails /\ acct'[v].lockedAt = acct[v].lockedAt
  <2>0. PICK m \in Nat, s \in Int : m = 0 /\ s = 0
    OBVIOUS
  <2> DEFINE b == [acct[u] EXCEPT !.fails = m, !.lockedAt = s]
  <2>1. b \in TF!Acct /\ b.fails = m /\ b.lockedAt = s /\ b.hashed = acct[u].hashed /\ b.plain = acct[u].plain
    BY <1>1 DEF TF!Acct
  <2>2. acct' = [acct EXCEPT ![u] = b]
    BY <1>1, <2>0
  <2> HIDE DEF b
  <2> QED
    BY <1>1, <2>0, <2>1, <2>2
<1>3. PICK R \in SUBSET Holders : R = TF!Raced(u, l) /\ hist.raced \subseteq R
  BY <1>1, TfRaces
<1>4. /\ hist' \in TF!Hist /\ hist'.shown = hist.shown /\ hist'.judged = hist.judged /\ hist'.spent = hist.spent
      /\ hist'.wrong = [hist.wrong EXCEPT ![u] = 0] /\ hist'.raced = R
      /\ hist'.out = hist.out /\ hist'.returned = hist.returned /\ hist'.lost = hist.lost
  <2>1. PICK f \in [Holders -> Nat] : f = [hist.wrong EXCEPT ![u] = 0]
    BY <1>1, TfTypes, TfCounts
  <2>2. hist' = [hist EXCEPT !.wrong = f, !.raced = R]
    BY <1>3, <2>1 DEF TF!Cleared
  <2> QED
    BY <1>1, <2>1, <2>2 DEF TF!Hist
<1>5. TfTickets'
  BY <1>4 DEF TfIInv, TfTickets
<1>6. TfOut'
  BY <1>4, Zenon DEF TfIInv, TfOut
<1>7. TfCodes' /\ TF!LockCounts'
  BY <1>1, <1>2, <1>3, <1>4, TfCodesStay, TfLockClears DEF TfIInv
<1> QED
  BY <1>2, <1>4, <1>5, <1>6, <1>7

\* What a login does next, by its copy.
LEMMA TfOutcome ==
  ASSUME NEW l \in TF!Login
  PROVE  /\ TF!Outcome(l) \in {"spend", "finish", "fail"}
         /\ TF!Outcome(l) = "spend" => l.answer \in Ids /\ l.answer \in l.copy.hashed
<1>1. l.answer \in Ids => l.answer # "totp"
  BY AccessAssumption
<1> QED
  BY <1>1 DEF TF!Outcome, TF!Accepts

LEMMA TfCheckLock ==
  ASSUME TfIInv, NEW w \in Workers, TF!CheckLock(w)
  PROVE  TfIInv'
<1> DEFINE l == logins[w]
           u == l.user
<1>1. l.step = "checkLock" /\ UNCHANGED <<now, redis, tickets, jwts, blacklist, starts>>
  BY DEF TF!CheckLock, TF!At
<1>2. TF!TypeOK /\ now >= 1 /\ l \in TF!Login /\ TfShape(l) /\ l.copy \in TF!Acct
  BY TfTypes DEF TfIInv, TF!TypeOK, TfLogins
<1>3. u \in Holders /\ l.ticket \in Ids
  BY <1>1, <1>2 DEF TfShape
<1>4. PICK o \in {"spend", "finish", "fail"} :
        o = TF!Outcome(l) /\ (o = "spend" => l.answer \in Ids /\ l.answer \in l.copy.hashed)
  BY <1>2, TfOutcome
<1>5. CASE logins' = [logins EXCEPT ![w] = TF!Idle] /\ UNCHANGED <<acct, hist>>
  <2>1. TfLogins'
    BY <1>1, <1>5, TfMoves, TfConstants DEF TfShape
  <2>2. TF!TypeOK' /\ now' >= 1
    BY <1>1, <1>2, <1>5, TfConstants DEF TF!TypeOK
  <2>3. TfTickets' /\ TfCodes' /\ TF!LockCounts' /\ TfOut'
    BY <1>1, <1>3, <1>5, TfTakes
  <2> QED
    BY <2>1, <2>2, <2>3 DEF TfIInv
<1>6. CASE l.copy.lockedAt = 0 /\ logins' = [logins EXCEPT ![w].step = o] /\ UNCHANGED <<acct, hist>>
  <2> DEFINE k == [l EXCEPT !.step = o]
  <2>1. k \in TF!Login /\ k.step = o /\ k.user = u /\ k.ticket = l.ticket /\ k.answer = l.answer /\ k.copy = l.copy
    BY <1>2 DEF TF!Login
  <2>2. logins' = [logins EXCEPT ![w] = k]
    BY <1>2, <1>6 DEF TF!TypeOK
  <2> HIDE DEF k
  <2>3. TfLogins'
    BY <1>1, <1>3, <1>4, <1>6, <2>1, <2>2, TfMoves DEF TfShape
  <2>4. TF!TypeOK' /\ now' >= 1
    BY <1>1, <1>2, <1>6, <2>1, <2>2 DEF TF!TypeOK
  <2>5. TfTickets' /\ TfCodes' /\ TF!LockCounts' /\ TfOut'
    BY <1>1, <1>3, <1>6, TfTakes
  <2> QED
    BY <2>3, <2>4, <2>5 DEF TfIInv
<1>7. CASE /\ acct' = [acct EXCEPT ![u].fails = 0, ![u].lockedAt = 0] /\ hist' = TF!Cleared(u, l)
           /\ logins' = [logins EXCEPT ![w].step = o, ![w].copy.fails = 0, ![w].copy.lockedAt = 0]
  <2>0. PICK m \in Nat, s \in Int : m = 0 /\ s = 0
    OBVIOUS
  <2> DEFINE c == [l.copy EXCEPT !.fails = m, !.lockedAt = s]
             k == [l EXCEPT !.step = o, !.copy = c]
  <2>1. c \in TF!Acct /\ c.hashed = l.copy.hashed /\ c.lockedAt = 0
    BY <1>2, <2>0 DEF TF!Acct
  <2>2. logins' = [logins EXCEPT ![w] = k]
    BY <1>2, <1>7, <2>0 DEF TF!TypeOK, TF!Login
  <2> HIDE DEF c
  <2>3. k \in TF!Login /\ k.step = o /\ k.user = u /\ k.ticket = l.ticket /\ k.answer = l.answer /\ k.copy = c
    BY <1>2, <2>1 DEF TF!Login
  <2> HIDE DEF k
  <2>4. TfLogins'
    BY <1>1, <1>3, <1>4, <2>1, <2>2, <2>3, TfMoves DEF TfShape
  <2>5. acct' \in [Holders -> TF!Acct] /\ hist' \in TF!Hist /\ TfTickets' /\ TfCodes' /\ TF!LockCounts' /\ TfOut'
    BY <1>1, <1>3, <1>7, TfClears
  <2>6. TF!TypeOK' /\ now' >= 1
    BY <1>1, <1>2, <2>2, <2>3, <2>5 DEF TF!TypeOK
  <2> QED
    BY <2>4, <2>5, <2>6 DEF TfIInv
<1> QED
  BY <1>4, <1>5, <1>6, <1>7 DEF TF!CheckLock, TF!Go, TF!Stop

\* A code is accepted: it is the user's alone, and not accepted before, if nobody raced.
LEMMA TfSpends ==
  ASSUME TfIInv, NEW w \in Workers, TF!SpendBackupCode(w)
  PROVE  TfIInv'
<1> DEFINE l == logins[w]
           u == l.user
           a == l.answer
<1>1. /\ l.step = "spend" /\ UNCHANGED <<now, redis, tickets, jwts, blacklist, starts>>
      /\ acct' = [acct EXCEPT ![u].hashed = l.copy.hashed \ {a}, ![u].plain = l.copy.plain]
      /\ hist' = [hist EXCEPT !.spent[a] = @ + 1, !.shown = @ \ {a}, !.raced = TF!Raced(u, l)]
      /\ logins' = [logins EXCEPT ![w].step = "finish", ![w].copy.hashed = @ \ {a}]
  BY DEF TF!SpendBackupCode, TF!At
<1>2. /\ TF!TypeOK /\ now >= 1 /\ l \in TF!Login /\ TfShape(l) /\ l.copy \in TF!Acct
      /\ l.copy.hashed \in SUBSET Ids /\ l.copy.plain \in SUBSET Ids
      /\ acct \in [Holders -> TF!Acct] /\ hist \in TF!Hist
  BY TfTypes DEF TfIInv, TF!TypeOK, TfLogins
<1>3. u \in Holders /\ l.ticket \in Ids /\ a \in Ids /\ a \in l.copy.hashed
  BY <1>1, <1>2 DEF TfShape
<1>4. acct[u] \in TF!Acct
  BY <1>2, <1>3
<1>5. /\ acct' \in [Holders -> TF!Acct] /\ acct'[u].hashed = l.copy.hashed \ {a} /\ acct'[u].plain = l.copy.plain
      /\ \A v \in Holders : acct'[v].fails = acct[v].fails /\ acct'[v].lockedAt = acct[v].lockedAt
      /\ \A v \in Holders \ {u} : acct'[v] = acct[v]
  BY <1>1, <1>2, <1>3, <1>4 DEF TF!Acct
<1>6. PICK R \in SUBSET Holders : /\ R = TF!Raced(u, l) /\ hist.raced \subseteq R
                                  /\ (R = {} => hist.raced = {} /\ acct[u] = l.copy)
  <2>1. TF!Raced(u, l) = {} => hist.raced = {} /\ u \notin TF!Raced(u, l)
    BY <1>2, <1>3, TfRaces
  <2> QED
    BY <1>2, <1>3, <2>1, TfRaces
<1>7. /\ hist' \in TF!Hist /\ hist'.shown = hist.shown \ {a} /\ hist'.judged = hist.judged
      /\ hist'.spent = [hist.spent EXCEPT ![a] = @ + 1] /\ hist'.wrong = hist.wrong /\ hist'.raced = R
      /\ hist'.out = hist.out /\ hist'.returned = hist.returned /\ hist'.lost = hist.lost
  <2>1. PICK f \in [Ids -> Nat] : f = [hist.spent EXCEPT ![a] = @ + 1]
    <3>1. hist.spent \in [Ids -> Nat]
      BY <1>2, TfTypes
    <3> QED
      BY <1>3, <3>1, TfCounts
  <2>2. PICK S \in SUBSET Ids : S = hist.shown \ {a}
    BY <1>2, TfTypes
  <2>3. hist' = [hist EXCEPT !.spent = f, !.shown = S, !.raced = R]
    BY <1>1, <1>2, <1>6, <2>1, <2>2 DEF TF!Hist
  <2>4. /\ hist' \in TF!Hist /\ hist'.shown = S /\ hist'.judged = hist.judged /\ hist'.spent = f
        /\ hist'.wrong = hist.wrong /\ hist'.raced = R
        /\ hist'.out = hist.out /\ hist'.returned = hist.returned /\ hist'.lost = hist.lost
    <3> HIDE DEF l
    <3> QED
      BY <1>2, <2>3 DEF TF!Hist
  <2> QED
    BY <2>1, <2>2, <2>4
<1> DEFINE c == [l.copy EXCEPT !.hashed = l.copy.hashed \ {a}]
           k == [l EXCEPT !.step = "finish", !.copy = c]
<1>8. c \in TF!Acct
  BY <1>2 DEF TF!Acct
<1>9. logins' = [logins EXCEPT ![w] = k]
  BY <1>1, <1>2 DEF TF!TypeOK, TF!Login
<1> HIDE DEF c
<1>10. k \in TF!Login /\ k.step = "finish" /\ k.user = u /\ k.ticket = l.ticket
  BY <1>2, <1>8 DEF TF!Login
<1> HIDE DEF k
<1>11. TfLogins'
  BY <1>1, <1>3, <1>9, <1>10, TfMoves DEF TfShape
<1>12. TF!TypeOK' /\ now' >= 1
  <2>1. logins' \in [Workers -> TF!Login]
    BY <1>2, <1>9, <1>10 DEF TF!TypeOK
  <2>2. UNCHANGED <<now, redis, tickets, jwts, blacklist, starts>>
    BY <1>1
  <2> HIDE DEF l, u, a
  <2> QED
    BY <1>2, <1>5, <1>7, <2>1, <2>2 DEF TF!TypeOK
<1>13. TfTickets'
  BY <1>1, <1>7 DEF TfIInv, TfTickets
<1>14. TfOut'
  BY <1>1, <1>7, Zenon DEF TfIInv, TfOut
<1>15. TF!LockCounts'
  BY <1>5, <1>6, <1>7, TfLockStays DEF TfIInv
<1>16. TfCodes'
  <2> SUFFICES ASSUME R = {} PROVE TfOwn' /\ TfApart' /\ TfSpent'
    BY <1>7 DEF TfCodes
  <2>1. TfOwn /\ TfApart /\ TfSpent /\ acct[u] = l.copy
    BY <1>6 DEF TfIInv, TfCodes
  <2>2. a \in acct[u].hashed /\ a \in CodesOf(acct[u]) /\ a \in hist.shown /\ a \notin acct[u].plain
    BY <1>3, <2>1 DEF TfOwn, CodesOf
  <2>3. /\ CodesOf(acct'[u]) = CodesOf(acct[u]) \ {a} /\ acct'[u].hashed \cap acct'[u].plain = {}
        /\ \A v \in Holders \ {u} : CodesOf(acct'[v]) = CodesOf(acct[v]) /\ a \notin CodesOf(acct[v])
    BY <1>3, <1>5, <2>1, <2>2 DEF TfOwn, TfApart, CodesOf
  <2>4. TfOwn'
    <3> SUFFICES ASSUME NEW v \in Holders
                 PROVE  acct'[v].hashed \cap acct'[v].plain = {} /\ CodesOf(acct'[v]) \subseteq hist'.shown
      BY DEF TfOwn, CodesOf
    <3>1. acct[v].hashed \cap acct[v].plain = {} /\ CodesOf(acct[v]) \subseteq hist.shown
      BY <2>1 DEF TfOwn
    <3>2. CASE v = u
      BY <1>7, <2>3, <3>1, <3>2
    <3>3. CASE v # u
      BY <1>5, <1>7, <2>3, <3>1, <3>3
    <3> QED
      BY <3>2, <3>3
  <2>5. TfApart'
    <3> SUFFICES ASSUME NEW v \in Holders, NEW q \in Holders, v # q
                 PROVE  CodesOf(acct'[v]) \cap CodesOf(acct'[q]) = {}
      BY DEF TfApart, CodesOf
    <3>1. CodesOf(acct'[v]) \subseteq CodesOf(acct[v]) /\ CodesOf(acct'[q]) \subseteq CodesOf(acct[q])
      BY <2>3
    <3>2. CodesOf(acct[v]) \cap CodesOf(acct[q]) = {}
      BY <2>1 DEF TfApart
    <3> QED
      BY <3>1, <3>2
  <2>6. TfSpent'
    <3>1. hist.spent \in [Ids -> Nat]
      BY <1>2, TfTypes
    <3>2. hist.spent[a] = 0
      BY <1>3, <2>1, <2>2 DEF TfSpent
    <3> SUFFICES ASSUME NEW q \in Ids PROVE hist'.spent[q] <= 1 /\ (q \in hist'.shown => hist'.spent[q] = 0)
      BY DEF TfSpent
    <3>3. CASE q = a
      BY <1>3, <1>7, <3>1, <3>2, <3>3
    <3>4. CASE q # a
      BY <1>3, <1>7, <2>1, <3>1, <3>4 DEF TfSpent
    <3> QED
      BY <3>3, <3>4
  <2> QED
    BY <2>4, <2>5, <2>6
<1> QED
  BY <1>11, <1>12, <1>13, <1>14, <1>15, <1>16 DEF TfIInv

\* A wrong answer is counted, from a copy that was not locked.
LEMMA TfFails ==
  ASSUME TfIInv, NEW w \in Workers, TF!FailedAttempt(w)
  PROVE  TfIInv'
<1> DEFINE l == logins[w]
           u == l.user
           n == l.copy.fails + 1
<1>1. /\ l.step = "fail" /\ UNCHANGED <<now, redis, tickets, jwts, blacklist, starts>>
      /\ acct' = [acct EXCEPT ![u].fails = n, ![u].lockedAt = IF n >= MaxFails THEN now ELSE @]
      /\ hist' = [hist EXCEPT !.wrong[u] = @ + 1, !.raced = TF!Raced(u, l)]
      /\ logins' = [logins EXCEPT ![w] = TF!Idle]
  BY DEF TF!FailedAttempt, TF!At, TF!Stop
<1>2. /\ TF!TypeOK /\ now >= 1 /\ now \in Nat /\ l \in TF!Login /\ TfShape(l) /\ l.copy \in TF!Acct /\ l.copy.fails \in Nat
      /\ acct \in [Holders -> TF!Acct] /\ hist \in TF!Hist
  BY TfTypes DEF TfIInv, TF!TypeOK, TfLogins
<1>3. u \in Holders /\ l.copy.lockedAt = 0
  BY <1>1, <1>2 DEF TfShape
<1>4. acct[u] \in TF!Acct
  BY <1>2, <1>3
<1>5. /\ acct' \in [Holders -> TF!Acct] /\ acct'[u].hashed = acct[u].hashed /\ acct'[u].plain = acct[u].plain
      /\ acct'[u].fails = n /\ acct'[u].lockedAt = IF n >= MaxFails THEN now ELSE acct[u].lockedAt
      /\ \A v \in Holders \ {u} : acct'[v] = acct[v]
  <2>1. PICK m \in Nat : m = n
    BY <1>2
  <2>2. PICK s \in Int : s = IF m >= MaxFails THEN now ELSE acct[u].lockedAt
    BY <1>2, <1>4 DEF TF!Acct
  <2> DEFINE b == [acct[u] EXCEPT !.fails = m, !.lockedAt = s]
  <2>3. /\ b \in TF!Acct /\ b.hashed = acct[u].hashed /\ b.plain = acct[u].plain /\ b.fails = m /\ b.lockedAt = s
    BY <1>4 DEF TF!Acct
  <2>4. acct' = [acct EXCEPT ![u] = b]
    BY <1>1, <1>2, <1>3, <1>4, <2>1, <2>2 DEF TF!Acct
  <2> HIDE DEF b
  <2> QED
    BY <1>2, <1>3, <2>1, <2>2, <2>3, <2>4
<1>6. PICK R \in SUBSET Holders : /\ R = TF!Raced(u, l) /\ hist.raced \subseteq R
                                  /\ (u \notin R => acct[u] = l.copy)
  BY <1>2, <1>3, TfRaces
<1>7. /\ hist' \in TF!Hist /\ hist'.shown = hist.shown /\ hist'.judged = hist.judged /\ hist'.spent = hist.spent
      /\ hist'.wrong = [hist.wrong EXCEPT ![u] = @ + 1] /\ hist'.raced = R
      /\ hist'.out = hist.out /\ hist'.returned = hist.returned /\ hist'.lost = hist.lost
  <2>1. PICK f \in [Holders -> Nat] : f = [hist.wrong EXCEPT ![u] = @ + 1]
    <3>1. hist.wrong \in [Holders -> Nat]
      BY <1>2, TfTypes
    <3> QED
      BY <1>3, <3>1, TfCounts
  <2>2. hist' = [hist EXCEPT !.wrong = f, !.raced = R]
    BY <1>1, <1>6, <2>1
  <2> QED
    BY <1>2, <2>1, <2>2 DEF TF!Hist
<1>8. TfLogins'
  BY <1>1, TfMoves, TfConstants DEF TfShape
<1>9. TF!TypeOK' /\ now' >= 1
  BY <1>1, <1>2, <1>5, <1>7, TfConstants DEF TF!TypeOK
<1>10. TfTickets'
  BY <1>1, <1>7 DEF TfIInv, TfTickets
<1>11. TfOut'
  BY <1>1, <1>7, Zenon DEF TfIInv, TfOut
<1>12. TfCodes'
  BY <1>5, <1>6, <1>7, TfCodesStay DEF TfIInv
<1>13. TF!LockCounts'
  <2> SUFFICES ASSUME NEW v \in Holders, v \notin R
               PROVE  /\ acct'[v].fails = hist'.wrong[v] /\ hist'.wrong[v] <= MaxFails
                      /\ (hist'.wrong[v] = MaxFails => acct'[v].lockedAt > 0)
    BY <1>7 DEF TF!LockCounts
  <2>1. /\ acct[v].fails = hist.wrong[v] /\ hist.wrong[v] <= MaxFails
        /\ (hist.wrong[v] = MaxFails => acct[v].lockedAt > 0)
    BY <1>6 DEF TfIInv, TF!LockCounts
  <2>2. hist.wrong \in [Holders -> Nat] /\ MaxFails \in Nat
    BY <1>2, TfTypes, AccessAssumption
  <2>3. CASE v # u
    BY <1>3, <1>5, <1>7, <2>1, <2>2, <2>3
  <2>4. CASE v = u
    <3>1. l.copy.fails = hist.wrong[u] /\ hist.wrong[u] < MaxFails
      BY <1>3, <1>6, <2>1, <2>2, <2>4
    <3>2. hist'.wrong[u] = n /\ n <= MaxFails
      BY <1>3, <1>7, <2>2, <3>1
    <3> QED
      BY <1>2, <1>5, <2>2, <2>4, <3>2
  <2> QED
    BY <2>3, <2>4
<1> QED
  BY <1>8, <1>9, <1>10, <1>11, <1>12, <1>13 DEF TfIInv

LEMMA TfFinishes ==
  ASSUME TfIInv, NEW w \in Workers, TF!FinishLogin(w)
  PROVE  TfIInv'
<1> DEFINE l == logins[w]
           u == l.user
<1>1. /\ l.step = "finish" /\ UNCHANGED <<now, redis, tickets, blacklist, starts>>
      /\ acct' = [acct EXCEPT ![u].fails = 0, ![u].lockedAt = 0] /\ hist' = TF!Cleared(u, l)
      /\ logins' = [logins EXCEPT ![w] = TF!Idle] /\ TF!GenerateToken(u)
  BY DEF TF!FinishLogin, TF!At, TF!Stop
<1>2. TF!TypeOK /\ now >= 1 /\ TfShape(l)
  BY DEF TfIInv, TfLogins
<1>3. u \in Holders
  BY <1>1, <1>2 DEF TfShape
<1>4. jwts' \in [Ids -> TF!Jwt]
  <2>1. PICK j \in Ids : jwts' = [jwts EXCEPT ![j] = [user |-> u, expires |-> now + JwtTTL]]
    BY <1>1 DEF TF!GenerateToken, TF!FreshJwts
  <2>2. now + JwtTTL \in Int
    BY <1>2, AccessAssumption DEF TF!TypeOK
  <2>3. [user |-> u, expires |-> now + JwtTTL] \in TF!Jwt
    BY <1>3, <2>2 DEF TF!Jwt
  <2> QED
    BY <1>2, <2>1, <2>3 DEF TF!TypeOK
<1>5. acct' \in [Holders -> TF!Acct] /\ hist' \in TF!Hist /\ TfTickets' /\ TfCodes' /\ TF!LockCounts' /\ TfOut'
  BY <1>1, <1>3, TfClears
<1>6. TfLogins'
  BY <1>1, TfMoves, TfConstants DEF TfShape
<1>7. TF!TypeOK' /\ now' >= 1
  BY <1>1, <1>2, <1>4, <1>5, TfConstants DEF TF!TypeOK
<1> QED
  BY <1>5, <1>6, <1>7 DEF TfIInv

---------------------------------------------------------------------------
(* Second factor: web tokens, the clock and restarts. *)

\* Only what is noted of tokens changes.
LEMMA TfTokens ==
  ASSUME TfIInv, UNCHANGED <<now, redis, acct, tickets, jwts, logins>>, starts' = starts + 1,
         hist' \in TF!Hist, blacklist' \subseteq Ids, TfOut',
         hist'.shown = hist.shown, hist'.judged = hist.judged, hist'.spent = hist.spent, hist'.wrong = hist.wrong, hist'.raced = hist.raced
  PROVE  TfIInv'
<1>1. TF!TypeOK' /\ now' >= 1
  BY DEF TfIInv, TF!TypeOK
<1>2. TfLogins' /\ TfTickets'
  BY DEF TfIInv, TfLogins, TfShape, TfTickets
<1>3. TfCodes' /\ TF!LockCounts'
  BY TfCodesStay, TfLockStays DEF TfIInv
<1> QED
  BY <1>1, <1>2, <1>3 DEF TfIInv

LEMMA TfLogout ==
  ASSUME TfIInv, NEW j \in Ids, TF!Logout(j)
  PROVE  TfIInv'
<1>1. /\ UNCHANGED <<now, redis, acct, tickets, jwts, logins>> /\ starts' = starts + 1
      /\ blacklist' = blacklist \cup {j} /\ hist' = [hist EXCEPT !.out = @ \cup {j}]
  BY DEF TF!Logout, TF!Request, TF!BlacklistToken
<1>2. TF!TypeOK /\ hist \in TF!Hist /\ hist.out \in SUBSET Ids /\ blacklist \subseteq Ids
  BY TfTypes DEF TfIInv, TF!TypeOK
<1>3. /\ hist' \in TF!Hist /\ hist'.out = hist.out \cup {j} /\ hist'.returned = hist.returned /\ hist'.lost = hist.lost
      /\ hist'.shown = hist.shown /\ hist'.judged = hist.judged /\ hist'.spent = hist.spent
      /\ hist'.wrong = hist.wrong /\ hist'.raced = hist.raced
  <2>1. PICK S \in SUBSET Ids : S = hist.out \cup {j}
    BY <1>2
  <2>2. hist' = [hist EXCEPT !.out = S]
    BY <1>1, <2>1
  <2> QED
    BY <1>2, <2>1, <2>2 DEF TF!Hist
<1>4. TfOut'
  <2>1. hist'.lost = hist.lost /\ hist'.out = hist.out \cup {j} /\ hist'.returned = hist.returned
    BY <1>3
  <2> SUFFICES ASSUME ~hist'.lost PROVE hist'.out \subseteq blacklist' /\ hist'.returned = {}
    BY DEF TfOut
  <2>2. hist.out \subseteq blacklist /\ hist.returned = {}
    BY <2>1, Zenon DEF TfIInv, TfOut
  <2> QED
    BY <1>1, <2>1, <2>2
<1>5. blacklist' \subseteq Ids
  BY <1>1, <1>2
<1> QED
  BY <1>1, <1>3, <1>4, <1>5, TfTokens

\* What lost becomes: a Boolean b.
LEMMA TfLost ==
  ASSUME NEW h \in TF!Hist, NEW R \in SUBSET Ids, NEW b \in BOOLEAN, hist' = [h EXCEPT !.returned = R, !.lost = b]
  PROVE  /\ hist' \in TF!Hist /\ hist'.out = h.out /\ hist'.returned = R /\ hist'.lost = b
         /\ hist'.shown = h.shown /\ hist'.judged = h.judged /\ hist'.spent = h.spent
         /\ hist'.wrong = h.wrong /\ hist'.raced = h.raced
BY DEF TF!Hist

\* A token on the blacklist gets in only if Redis could not be asked.
LEMMA TfAuth ==
  ASSUME TfIInv, NEW j \in Ids, NEW outage \in BOOLEAN, TF!AuthMiddleware(j, outage)
  PROVE  TfIInv'
<1>1. /\ UNCHANGED <<now, redis, acct, tickets, jwts, blacklist, logins>> /\ starts' = starts + 1
      /\ ~(j \in blacklist /\ ~outage)
      /\ hist' = [hist EXCEPT !.returned = IF j \in hist.out THEN @ \cup {j} ELSE @, !.lost = @ \/ (outage /\ j \in blacklist)]
  BY DEF TF!AuthMiddleware, TF!Request, TF!stores, TF!IsTokenBlacklisted
<1>2. TF!TypeOK /\ hist \in TF!Hist /\ hist.returned \in SUBSET Ids /\ blacklist \subseteq Ids /\ hist.lost \in BOOLEAN
  BY TfTypes DEF TfIInv, TF!TypeOK
<1>3. PICK R \in SUBSET Ids : R = IF j \in hist.out THEN hist.returned \cup {j} ELSE hist.returned
  BY <1>2
<1>4. PICK b \in BOOLEAN : b = (hist.lost \/ (outage /\ j \in blacklist))
  BY Zenon
<1>5. hist' = [hist EXCEPT !.returned = R, !.lost = b]
  BY <1>1, <1>3, <1>4, Zenon
<1>6. /\ hist' \in TF!Hist /\ hist'.out = hist.out /\ hist'.returned = R /\ hist'.lost = b
      /\ hist'.shown = hist.shown /\ hist'.judged = hist.judged /\ hist'.spent = hist.spent
      /\ hist'.wrong = hist.wrong /\ hist'.raced = hist.raced
  BY <1>2, <1>5, TfLost
<1>7. TfOut'
  <2> SUFFICES ASSUME ~hist'.lost PROVE hist'.out \subseteq blacklist' /\ hist'.returned = {}
    BY DEF TfOut
  <2>1. ~hist.lost /\ ~(outage /\ j \in blacklist)
    BY <1>4, <1>6, Zenon
  <2>2. hist.out \subseteq blacklist /\ hist.returned = {}
    BY <2>1, Zenon DEF TfIInv, TfOut
  <2>3. j \notin hist.out
    BY <1>1, <2>1, <2>2, Zenon
  <2> QED
    BY <1>1, <1>3, <1>6, <2>2, <2>3
<1>8. blacklist' \subseteq Ids
  BY <1>1, <1>2
<1> QED
  BY <1>1, <1>6, <1>7, <1>8, TfTokens

LEMMA TfRestart ==
  ASSUME TfIInv, TF!Restart
  PROVE  TfIInv'
<1>1. /\ UNCHANGED <<now, redis, acct, jwts>> /\ starts' = starts + 1
      /\ tickets' = (IF redis THEN tickets ELSE [t \in Ids |-> TF!Unissued])
      /\ blacklist' = (IF redis THEN blacklist ELSE {})
      /\ hist' = [hist EXCEPT !.lost = @ \/ (~redis /\ blacklist # {})]
      /\ logins' = [w \in Workers |-> TF!Idle]
  BY DEF TF!Restart, TF!Request
<1>2. TF!TypeOK /\ now >= 1 /\ hist \in TF!Hist /\ hist.returned \in SUBSET Ids /\ redis \in BOOLEAN
  BY TfTypes DEF TfIInv, TF!TypeOK
<1>3. PICK b \in BOOLEAN : b = (hist.lost \/ (~redis /\ blacklist # {}))
  BY Zenon
<1>4. /\ hist' \in TF!Hist /\ hist'.out = hist.out /\ hist'.returned = hist.returned /\ hist'.lost = b
      /\ hist'.shown = hist.shown /\ hist'.judged = hist.judged /\ hist'.spent = hist.spent
      /\ hist'.wrong = hist.wrong /\ hist'.raced = hist.raced
  <2>1. hist' = [hist EXCEPT !.lost = b]
    BY <1>1, <1>3, Zenon
  <2> QED
    BY <1>2, <2>1 DEF TF!Hist
<1>5. TF!TypeOK' /\ now' >= 1
  BY <1>1, <1>2, <1>4, TfConstants DEF TF!TypeOK
<1>6. TfLogins'
  BY <1>1, TfConstants DEF TfLogins, TfShape
<1>7. TfTickets'
  BY <1>1, <1>4 DEF TfIInv, TfTickets
<1>8. TfOut'
  <2> SUFFICES ASSUME ~hist'.lost PROVE hist'.out \subseteq blacklist' /\ hist'.returned = {}
    BY DEF TfOut
  <2>1. ~hist.lost /\ (redis \/ blacklist = {})
    BY <1>3, <1>4, Zenon
  <2>2. hist.out \subseteq blacklist /\ hist.returned = {}
    BY <2>1, Zenon DEF TfIInv, TfOut
  <2> QED
    BY <1>1, <1>4, <2>1, <2>2
<1>9. TfCodes' /\ TF!LockCounts'
  BY <1>1, <1>4, TfCodesStay, TfLockStays DEF TfIInv
<1> QED
  BY <1>5, <1>6, <1>7, <1>8, <1>9 DEF TfIInv

\* The clock ticks, or nothing happens.
LEMMA TfRests ==
  ASSUME TfIInv, UNCHANGED <<redis, acct, tickets, jwts, blacklist, logins, hist, starts>>, now' \in Nat, now' >= 1
  PROVE  TfIInv'
<1>1. TF!TypeOK'
  BY DEF TfIInv, TF!TypeOK
<1>2. TfLogins' /\ TfTickets' /\ TfOut'
  BY DEF TfIInv, TfLogins, TfShape, TfTickets, TfOut
<1>3. TfCodes' /\ TF!LockCounts'
  BY TfCodesStay, TfLockStays DEF TfIInv
<1> QED
  BY <1>1, <1>2, <1>3 DEF TfIInv

LEMMA TfStep == TfIInv /\ [TF!Next]_(TF!vars) => TfIInv'
<1> SUFFICES ASSUME TfIInv, [TF!Next]_(TF!vars) PROVE TfIInv'
  OBVIOUS
<1>0. now \in Nat /\ now >= 1
  BY DEF TfIInv, TF!TypeOK
<1>1. CASE UNCHANGED TF!vars
  BY <1>0, <1>1, TfRests DEF TF!vars
<1>2. CASE TF!Tick
  <2>1. UNCHANGED <<redis, acct, tickets, jwts, blacklist, logins, hist, starts>> /\ now' = now + 1
    BY <1>2 DEF TF!Tick, TF!stores
  <2> QED
    BY <1>0, <2>1, TfRests
<1>3. CASE TF!Restart
  BY <1>3, TfRestart
<1>4. ASSUME NEW u \in Holders,
             \/ TF!UserLogin(u) \/ TF!TOTPSetup(u) \/ TF!TOTPEnable(u) \/ TF!TOTPDisable(u)
             \/ TF!AdminDisable2FA(u) \/ TF!RegenerateBackupCodes(u)
      PROVE  TfIInv'
  BY <1>4, TfUserLogin, TfNewCodes, TfEnables, TfDisables
<1>5. ASSUME NEW u \in Holders, NEW w \in Workers, NEW t \in Ids, NEW a \in TF!Answers, TF!ConsumePreAuthTicket(w, u, t, a)
      PROVE  TfIInv'
  BY <1>5, TfConsumes
<1>6. ASSUME NEW w \in Workers, TF!LoginStep(w) PROVE TfIInv'
  BY <1>6, TfConsumeDel, TfReads, TfCheckLock, TfSpends, TfFails, TfFinishes DEF TF!LoginStep
<1>7. ASSUME NEW j \in Ids, TF!Logout(j) \/ \E outage \in BOOLEAN : TF!AuthMiddleware(j, outage) PROVE TfIInv'
  BY <1>7, TfLogout, TfAuth
<1> QED
  BY <1>1, <1>2, <1>3, <1>4, <1>5, <1>6, <1>7 DEF TF!Next

LEMMA TfImplies == TfIInv => TF!SecondFactorInv
<1> SUFFICES ASSUME TfIInv PROVE TF!SecondFactorInv
  OBVIOUS
<1>1. TF!TypeOK /\ TF!LockCounts
  BY DEF TfIInv
<1>2. \A c \in Ids : hist.judged[c] \in Nat /\ hist.spent[c] \in Nat
  BY <1>1, TfTypes
<1>3. TF!UsedOnce
  BY <1>1, <1>2 DEF TfIInv, TfTickets, TfCodes, TfSpent, TF!UsedOnce, TF!TypeOK
<1>4. TF!LoggedOutStaysOut
  BY Zenon DEF TfIInv, TfOut, TF!LoggedOutStaysOut
<1> QED
  BY <1>1, <1>3, <1>4 DEF TF!SecondFactorInv

\* For any number of users, requests, tickets, codes and restarts: a ticket is judged once unless
\* Redis let two requests read it (common/preauth_ticket.go), a backup code is accepted once and
\* the row counts the wrong answers up to the lock unless a login wrote from a row that had changed
\* under it (controller/totp.go), and a token that logged out stays out unless the blacklist was
\* lost or could not be asked (common/token_blacklist.go).
THEOREM SecondFactorInvariant == Spec => []SecondFactorInv
<1> DEFINE I == part = "TF" => TfIInv
<1>1. Init => I
  BY TfInit DEF Init
<1>2. I /\ [Next]_vars => I'
  <2> SUFFICES ASSUME I, [Next]_vars, part' = "TF" PROVE TfIInv'
    OBVIOUS
  <2>1. CASE UNCHANGED vars
    BY <2>1, TfStep DEF vars, tfVars, shared, TF!vars
  <2>2. CASE Next
    BY <2>2, TfStep DEF Next
  <2> QED
    BY <2>1, <2>2
<1>3. I => SecondFactorInv
  BY TfImplies DEF SecondFactorInv
<1> QED
  BY <1>1, <1>2, <1>3, PTL DEF Spec

---------------------------------------------------------------------------
(* Sign-in through a provider: the inductive invariant. *)

RowIds == Nat \cup {SI!First(S) : S \in SUBSET Nat}
SiJob == [step : SI!Steps, id : [provider : SI!Providers, person : Users \cup {None}], state : Ids \cup {None}, level : Nat,
          maxId : Nat, row : RowIds, session : Ids \cup {None}, user : SI!NamedUser, invite : Invites \cup {None}, used : Nat]

\* The providers whose user names are made from the identity, and the name.
ByName == {"github", "linuxdo", "discord", "oidc"}
NameOf(d) == [from |-> d.provider, who |-> d.person, n |-> 0]
\* A user about to be created for d.
Skeleton(d, u) == u.ids = {d} /\ (d.provider \in ByName => u.name = NameOf(d))

\* What a request's step says of its fields.
Creating == {"create", "invite", "transaction"}
Late == {"invite", "transaction", "drop"}
SiShape(x) ==
  /\ x.step # "idle" => x.id \in SI!Identity
  /\ x.step = "del" => redis /\ x.state \in Ids
  /\ x.step \in {"invite", "transaction"} => x.session \in Ids /\ x.invite \in Invites
  /\ x.step \in Creating => Skeleton(x.id, x.user)
  /\ x.step = "bind" => x.id.provider = "telegram"
  /\ x.step \notin Late => x.session = None
SiShapes == signIns \in [Workers -> SiJob] /\ \A w \in Workers : SiShape(signIns[w])

\* Without Redis a state token that has let a callback through is gone.
SiStates == ~redis => \A s \in Ids : signHist.passed[s] <= 1 /\ (signHist.passed[s] = 1 => oauthStates[s] = 0)

\* Whoever fetches the discovery document holds the lock, and the one cached is not fresh.
SiFetches == \A w \in Workers : signIns[w].step = "fetch" => discovery.holder = w /\ ~(now < discovery.expires)
SiFetch == signHist.refetched = FALSE /\ SiFetches

\* A waiting registration is for one identity, and requests that read it still hold it.
SiPending ==
  \A p \in DOMAIN pending :
    /\ \E d \in SI!Identity : Skeleton(d, pending[p].user)
    /\ \A w \in Workers : signIns[w].step # "idle" /\ signIns[w].session = p => signIns[w].user = pending[p].user

\* Names are unique, and those made from an identity tell it.
SiNames ==
  /\ \A i, j \in DOMAIN users : users[i].name = users[j].name => i = j
  /\ \A i \in DOMAIN users : \A d \in users[i].ids : d.provider \in ByName => users[i].name = NameOf(d)

\* Unless it was raced for, an identity is in one row,
SiOne == \A i, j \in DOMAIN users : \A d \in users[i].ids \cap users[j].ids : i # j => d \in signHist.raced
\* nobody has it yet whom a request or a waiting registration would create, or the name is taken,
Has(us, d) == {i \in DOMAIN us : d \in us[i].ids}
Taken(us, n) == \E i \in DOMAIN us : us[i].name = n
Open(us, raced, d, u) == d \in raced \/ Has(us, d) = {} \/ Taken(us, u.name)
SiOpen ==
  /\ \A w \in Workers : signIns[w].step \in Creating => Open(users, signHist.raced, signIns[w].id, signIns[w].user)
  /\ \A p \in DOMAIN pending : \A d \in pending[p].user.ids : Open(users, signHist.raced, d, pending[p].user)
\* and whoever is about to be bound to it is the only one who may have it.
SiBinds == \A w \in Workers : signIns[w].step = "bind" =>
             signIns[w].id \in signHist.raced \/ Has(users, signIns[w].id) \subseteq {signIns[w].row}

SiTables == SiNames /\ SiOne
SiWork == SiShapes /\ SiPending /\ SiOpen /\ SiBinds
SiIInv == SI!TypeOK /\ SiStates /\ SiFetch /\ SiTables /\ SiWork

---------------------------------------------------------------------------
(* Sign-in: what changes and what stays. *)

LEMMA SiConstants ==
  /\ SI!NoUser \in SI!NamedUser /\ SI!Idle \in SiJob /\ SI!Idle.step = "idle" /\ SiShape(SI!Idle)
  /\ SI!Idle.session = None /\ SI!Idle.user = SI!NoUser
<1>1. [from |-> "github", who |-> None, n |-> 0] \in SI!Name
  BY DEF SI!Name, SI!Providers
<1>2. SI!NoUser \in SI!NamedUser
  BY <1>1 DEF SI!NoUser, SI!NamedUser
<1>3. SI!Idle \in SiJob
  BY <1>2 DEF SI!Idle, SiJob, SI!Steps, SI!Providers, RowIds
<1>4. SI!Idle.step = "idle" /\ SI!Idle.session = None /\ SI!Idle.user = SI!NoUser
  BY DEF SI!Idle
<1> QED
  BY <1>2, <1>3, <1>4 DEF SiShape, Creating, Late

LEMMA SiTypes ==
  ASSUME SiIInv
  PROVE  /\ now \in Nat /\ redis \in BOOLEAN /\ starts \in Nat /\ users \in Seq(SI!NamedUser)
         /\ signHist \in SI!SignHist /\ signHist.passed \in [Ids -> Nat] /\ signHist.raced \in SUBSET SI!Identity
         /\ discovery \in [expires : Nat, holder : Workers \cup {None}]
         /\ \A w \in Workers : signIns[w] \in SiJob /\ SiShape(signIns[w])
<1>1. /\ now \in Nat /\ redis \in BOOLEAN /\ starts \in Nat /\ users \in Seq(SI!NamedUser) /\ signHist \in SI!SignHist
      /\ discovery \in [expires : Nat, holder : Workers \cup {None}]
  BY DEF SiIInv, SI!TypeOK
<1>2. signHist.passed \in [Ids -> Nat] /\ signHist.raced \in SUBSET SI!Identity
  BY <1>1 DEF SI!SignHist
<1>3. \A w \in Workers : signIns[w] \in SiJob /\ SiShape(signIns[w])
  BY DEF SiIInv, SiWork, SiShapes
<1> QED
  BY <1>1, <1>2, <1>3

\* A worker goes on to y while the table and the waiting registrations stay as they are.
LEMMA SiMoves ==
  ASSUME SiIInv, NEW w \in Workers, NEW y \in SiJob,
         signIns' = [signIns EXCEPT ![w] = y], UNCHANGED <<redis, users, pending>>, signHist'.raced = signHist.raced,
         SiShape(y),
         y.step \in Creating => Open(users, signHist.raced, y.id, y.user),
         y.step = "bind" => Has(users, y.id) \subseteq {y.row},
         y.step # "idle" /\ y.session \in DOMAIN pending => y.user = pending[y.session].user
  PROVE  SiTables' /\ SiWork'
<1>1. signIns \in [Workers -> SiJob]
  BY DEF SiIInv, SiWork, SiShapes
<1>2. signIns'[w] = y /\ \A v \in Workers \ {w} : signIns'[v] = signIns[v]
  BY <1>1
<1>3. SiTables'
  BY DEF SiIInv, SiTables, SiNames, SiOne
<1>4. SiShapes'
  BY <1>1, <1>2 DEF SiIInv, SiWork, SiShapes, SiShape
<1>5. SiPending'
  BY <1>2 DEF SiIInv, SiWork, SiPending
<1>6. SiOpen'
  BY <1>2 DEF SiIInv, SiWork, SiOpen
<1>7. SiBinds'
  BY <1>2 DEF SiIInv, SiWork, SiBinds
<1> QED
  BY <1>3, <1>4, <1>5, <1>6, <1>7 DEF SiWork

\* TypeOK, part by part.
SiTyped ==
  /\ now \in Nat /\ redis \in BOOLEAN /\ starts \in Nat
  /\ options \in [register : BOOLEAN, invitation : BOOLEAN] /\ oauthStates \in [Ids -> Nat] /\ users \in Seq(SI!NamedUser)
  /\ DOMAIN pending \subseteq Ids /\ \A p \in DOMAIN pending : pending[p] \in SI!Pending
  /\ invites \in [Invites -> [used : Nat, open : BOOLEAN]]
  /\ discovery \in [expires : Nat, holder : Workers \cup {None}]
  /\ signHist \in SI!SignHist

LEMMA SiTyping ==
  /\ SiIInv => SiTyped
  /\ SiTyped' /\ SiShapes' => SI!TypeOK'
<1>1. SiIInv => SiTyped
  BY DEF SiIInv, SI!TypeOK, SiTyped
<1>2. ASSUME SiTyped', SiShapes' PROVE SI!TypeOK'
  <2>1. \A w \in Workers : signIns'[w].step \in SI!Steps /\ (signIns'[w].step # "idle" => signIns'[w].id \in SI!Identity)
    BY <1>2 DEF SiShapes, SiShape, SiJob
  <2> QED
    BY <1>2, <2>1 DEF SiTyped, SI!TypeOK, SI!At
<1> QED
  BY <1>1, <1>2

\* Nobody begins to fetch and the clock stands still.
LEMMA SiFetchesStay ==
  ASSUME SiIInv, NEW w \in Workers, NEW y, signIns' = [signIns EXCEPT ![w] = y], y.step # "fetch",
         UNCHANGED <<now, discovery>>, signHist'.refetched = signHist.refetched
  PROVE  SiFetch'
<1>1. signIns'[w] = y /\ \A v \in Workers \ {w} : signIns'[v] = signIns[v]
  BY DEF SiIInv, SiWork, SiShapes
<1>2. SiFetch
  BY DEF SiIInv
<1>3. SiFetches'
  BY <1>1, <1>2 DEF SiFetch, SiFetches
<1> QED
  BY <1>2, <1>3 DEF SiFetch

\* No request goes on.
LEMMA SiRests ==
  ASSUME SiIInv, UNCHANGED <<redis, users, pending, signIns, signHist>>
  PROVE  SiTables' /\ SiWork'
<1>1. SiTables'
  BY DEF SiIInv, SiTables, SiNames, SiOne
<1>2. SiShapes' /\ SiPending'
  BY DEF SiIInv, SiWork, SiShapes, SiShape, SiPending
<1>3. SiOpen' /\ SiBinds'
  BY DEF SiIInv, SiWork, SiOpen, SiBinds
<1> QED
  BY <1>1, <1>2, <1>3 DEF SiWork

LEMMA SiInit == SI!Init => SiIInv
<1> SUFFICES ASSUME SI!Init PROVE SiIInv
  OBVIOUS
<1>1. /\ now = 1 /\ redis \in BOOLEAN /\ starts = 0 /\ users = <<>> /\ pending = <<>>
      /\ discovery = [expires |-> 0, holder |-> None] /\ signIns = [w \in Workers |-> SI!Idle]
      /\ signHist = [passed |-> [s \in Ids |-> 0], raced |-> {}, refetched |-> FALSE]
  BY DEF SI!Init
<1>2. \A w \in Workers : signIns[w] = SI!Idle
  BY <1>1
<1>3. /\ signHist \in SI!SignHist /\ signHist.passed = [s \in Ids |-> 0] /\ signHist.raced = {}
  BY <1>1 DEF SI!SignHist
<1>4. options \in [register : BOOLEAN, invitation : BOOLEAN] /\ invites \in [Invites -> [used : Nat, open : BOOLEAN]]
  BY DEF SI!Init
<1>5. oauthStates \in [Ids -> Nat]
  <2>1. now + StateTTL \in Nat
    BY <1>1, AccessAssumption
  <2> QED
    BY <2>1 DEF SI!Init
<1>6. SiShapes
  BY <1>1, SiConstants DEF SiShapes
<1>7. DOMAIN pending = {} /\ DOMAIN users = {} /\ users \in Seq(SI!NamedUser)
  BY <1>1
<1>8. SI!TypeOK
  <2>1. \A w \in Workers : signIns[w].step \in SI!Steps /\ signIns[w].step = "idle"
    BY <1>2, SiConstants DEF SiJob
  <2> QED
    BY <1>1, <1>3, <1>4, <1>5, <1>7, <2>1 DEF SI!TypeOK, SI!At
<1>9. SiStates
  BY <1>3 DEF SiStates
<1>10. SiFetch
  BY <1>1, <1>2, SiConstants DEF SiFetch, SiFetches
<1>11. SiTables /\ SiPending
  BY <1>7 DEF SiTables, SiNames, SiOne, SiPending
<1>12. SiOpen /\ SiBinds
  BY <1>2, <1>7, SiConstants DEF SiOpen, SiBinds, Creating
<1> QED
  BY <1>6, <1>8, <1>9, <1>10, <1>11, <1>12 DEF SiIInv, SiWork

---------------------------------------------------------------------------
(* Sign-in: the ways a request goes on. *)

\* A request ends.
LEMMA SiStops ==
  ASSUME SiIInv, NEW w \in Workers, signIns' = [signIns EXCEPT ![w] = SI!Idle],
         UNCHANGED <<redis, users, pending>>, signHist'.raced = signHist.raced
  PROVE  SiTables' /\ SiWork'
BY SiMoves, SiConstants DEF Creating

\* A request goes on to a step that promises nothing.
Plain == {"discover", "lock", "fetch", "maxId", "find", "sync"}
LEMMA SiGoes ==
  ASSUME SiIInv, NEW w \in Workers, signIns[w].step \notin Late \cup {"idle"}, NEW y \in SiJob, y.step \in Plain,
         y.id = signIns[w].id, y.session = signIns[w].session, y.user = signIns[w].user,
         signIns' = [signIns EXCEPT ![w] = y],
         UNCHANGED <<redis, users, pending>>, signHist'.raced = signHist.raced
  PROVE  SiTables' /\ SiWork'
<1>1. SiShape(y) /\ y.step \notin Creating /\ y.step # "bind"
  <2>1. SiShape(signIns[w])
    BY SiTypes
  <2> QED
    BY <2>1 DEF SiShape, Plain, Creating, Late
<1>2. y.session \in DOMAIN pending => y.user = pending[y.session].user
  BY DEF SiIInv, SiWork, SiPending
<1> QED
  BY <1>1, <1>2, SiMoves

\* [x EXCEPT !.step = z] for a request x.
LEMMA SiSteps ==
  ASSUME NEW x \in SiJob, NEW z \in SI!Steps, NEW y, y = [x EXCEPT !.step = z]
  PROVE  /\ y \in SiJob /\ y.step = z /\ y.id = x.id /\ y.state = x.state /\ y.session = x.session
         /\ y.user = x.user /\ y.invite = x.invite
BY DEF SiJob

LEMMA SiGo ==
  ASSUME SiIInv, NEW w \in Workers, NEW z \in Plain, SI!Go(w, z)
  PROVE  \E y \in SiJob :
           /\ signIns' = [signIns EXCEPT ![w] = y] /\ y.step = z /\ y.id = signIns[w].id
           /\ y.session = signIns[w].session /\ y.user = signIns[w].user
<1> DEFINE y == [signIns[w] EXCEPT !.step = z]
<1>1. signIns' = [signIns EXCEPT ![w] = y]
  BY DEF SI!Go
<1>2. y = [signIns[w] EXCEPT !.step = z] /\ signIns[w] \in SiJob /\ z \in SI!Steps
  BY SiTypes DEF Plain, SI!Steps
<1> HIDE DEF y
<1>3. /\ y \in SiJob /\ y.step = z /\ y.id = signIns[w].id /\ y.session = signIns[w].session
      /\ y.user = signIns[w].user
  BY <1>2, SiSteps
<1> QED
  BY <1>1, <1>3

\* A request begins.
LEMMA SiBegins ==
  ASSUME SiIInv, NEW w \in Workers, NEW y \in SiJob, SiShape(y), y.session = None, y.step \notin Creating,
         y.step = "bind" => Has(users, y.id) \subseteq {y.row},
         signIns' = [signIns EXCEPT ![w] = y], UNCHANGED <<redis, users, pending>>, signHist'.raced = signHist.raced
  PROVE  SiTables' /\ SiWork'
<1>1. y.session \notin DOMAIN pending
  BY AccessAssumption DEF SiIInv, SI!TypeOK
<1> QED
  BY <1>1, SiMoves

LEMMA SiVerified == \A p \in SI!Providers : SI!Verified(p) \in {"discover", "maxId", "find"}
<1> SUFFICES ASSUME NEW p \in SI!Providers PROVE SI!Verified(p) \in {"discover", "maxId", "find"}
  OBVIOUS
<1>1. CASE p = "oidc"
  BY <1>1, Zenon DEF SI!Verified
<1>2. CASE p = "wechat"
  BY <1>2, Zenon DEF SI!Verified
<1>3. CASE p # "oidc" /\ p # "wechat"
  BY <1>3, Zenon DEF SI!Verified
<1> QED
  BY <1>1, <1>2, <1>3

\* A state token lets a callback through.
LEMMA SiPasses ==
  ASSUME SiIInv, NEW s \in Ids, signHist' = SI!Pass(s), redis' = redis, oauthStates' = [oauthStates EXCEPT ![s] = 0],
         ~redis => oauthStates[s] # 0
  PROVE  /\ signHist' \in SI!SignHist /\ signHist'.raced = signHist.raced /\ signHist'.refetched = signHist.refetched
         /\ oauthStates' \in [Ids -> Nat] /\ SiStates'
<1>1. signHist \in SI!SignHist /\ signHist.passed \in [Ids -> Nat] /\ oauthStates \in [Ids -> Nat]
  BY SiTypes DEF SiIInv, SI!TypeOK
<1> DEFINE f == [signHist.passed EXCEPT ![s] = @ + 1]
<1>2. f \in [Ids -> Nat] /\ f[s] = signHist.passed[s] + 1 /\ \A z \in Ids \ {s} : f[z] = signHist.passed[z]
  <2>1. signHist.passed[s] + 1 \in Nat
    BY <1>1
  <2> QED
    BY <1>1, <2>1
<1>3. signHist' = [signHist EXCEPT !.passed = f]
  BY DEF SI!Pass
<1> HIDE DEF f
<1>4. /\ signHist' \in SI!SignHist /\ signHist'.raced = signHist.raced /\ signHist'.refetched = signHist.refetched
      /\ signHist'.passed = f
  BY <1>1, <1>2, <1>3 DEF SI!SignHist
<1>5. SiStates'
  <2> SUFFICES ASSUME ~redis, NEW z \in Ids PROVE signHist'.passed[z] <= 1 /\ (signHist'.passed[z] = 1 => oauthStates'[z] = 0)
    BY DEF SiStates
  <2>1. \A q \in Ids : signHist.passed[q] <= 1 /\ (signHist.passed[q] = 1 => oauthStates[q] = 0)
    BY DEF SiIInv, SiStates
  <2>2. CASE z = s
    BY <1>1, <1>2, <1>4, <2>1, <2>2
  <2>3. CASE z # s
    BY <1>1, <1>2, <1>4, <2>1, <2>3
  <2> QED
    BY <2>2, <2>3
<1> QED
  BY <1>1, <1>4, <1>5

---------------------------------------------------------------------------
(* Sign-in: state tokens, callbacks and the discovery document. *)

LEMMA SiGenerates ==
  ASSUME SiIInv, SI!generateState
  PROVE  SiIInv'
<1>1. UNCHANGED <<now, redis, options, users, pending, invites, discovery, signIns, signHist>> /\ starts' = starts + 1
  BY DEF SI!generateState, SI!Request, SI!table
<1>2. PICK s \in Ids : oauthStates[s] = 0 /\ signHist.passed[s] = 0 /\ oauthStates' = [oauthStates EXCEPT ![s] = now + StateTTL]
  BY DEF SI!generateState
<1>3. SiTyped /\ now + StateTTL \in Nat
  BY SiTyping, AccessAssumption DEF SiTyped
<1>4. SiTyped'
  BY <1>1, <1>2, <1>3 DEF SiTyped
<1>5. SiStates'
  BY <1>1, <1>2, <1>3 DEF SiIInv, SiStates, SiTyped
<1>6. SiFetch'
  BY <1>1 DEF SiIInv, SiFetch, SiFetches
<1>7. SiTables' /\ SiWork'
  BY <1>1, SiRests
<1> QED
  BY <1>4, <1>5, <1>6, <1>7, SiTyping DEF SiIInv, SiWork

LEMMA SiCallback ==
  ASSUME SiIInv, NEW w \in Workers, NEW p \in SI!Providers, NEW q \in Users, NEW s \in Ids, NEW level \in Nat,
         SI!Callback(w, p, q, s, level)
  PROVE  SiIInv'
<1> DEFINE x == [SI!Idle EXCEPT !.id = [provider |-> p, person |-> q], !.state = s, !.level = level]
<1>1. UNCHANGED <<now, redis, options, users, pending, invites, discovery>> /\ starts' = starts + 1 /\ oauthStates[s] # 0
  BY DEF SI!Callback, SI!verifyState, SI!Request, SI!table
<1>2. x \in SiJob /\ x.id = [provider |-> p, person |-> q] /\ x.state = s /\ x.session = None
  BY SiConstants DEF SiJob
<1>3. x.id \in SI!Identity /\ x.id.provider = p
  BY <1>2 DEF SI!Identity
<1>4. SI!verifyState(w, s, x)
  BY DEF SI!Callback
<1>5. SiTyped
  BY SiTyping
<1> HIDE DEF x
<1>6. CASE UNCHANGED <<signIns, signHist>> /\ SI!LoadAndDelete(s)
  <2>1. oauthStates' = [oauthStates EXCEPT ![s] = 0]
    BY <1>6 DEF SI!LoadAndDelete
  <2>2. SiTyped'
    BY <1>1, <1>5, <1>6, <2>1 DEF SiTyped
  <2>3. SiStates'
    BY <1>1, <1>5, <1>6, <2>1 DEF SiIInv, SiStates, SiTyped
  <2>4. SiFetch'
    BY <1>1, <1>6 DEF SiIInv, SiFetch, SiFetches
  <2>5. SiTables' /\ SiWork'
    BY <1>1, <1>6, SiRests
  <2> QED
    BY <2>2, <2>3, <2>4, <2>5, SiTyping DEF SiIInv, SiWork
<1>7. CASE /\ SI!LoadAndDelete(s) /\ signHist' = SI!Pass(s)
           /\ signIns' = [signIns EXCEPT ![w] = [x EXCEPT !.step = SI!Verified(x.id.provider)]]
  <2>1. oauthStates' = [oauthStates EXCEPT ![s] = 0]
    BY <1>7 DEF SI!LoadAndDelete
  <2>2. SI!Verified(x.id.provider) \in {"discover", "maxId", "find"}
    BY <1>3, SiVerified
  <2> DEFINE z == SI!Verified(x.id.provider)
             y == [x EXCEPT !.step = z]
  <2> z \in SI!Steps /\ y = [x EXCEPT !.step = z]
    BY <2>2 DEF SI!Steps
  <2>6. signIns' = [signIns EXCEPT ![w] = y]
    BY <1>7
  <2> HIDE DEF y, z
  <2>3. y \in SiJob /\ y.step \in {"discover", "maxId", "find"} /\ y.id = x.id /\ y.session = x.session
    <3>1. y \in SiJob /\ y.step = z /\ y.id = x.id /\ y.session = x.session
      BY <1>2, SiSteps
    <3> QED
      BY <2>2, <3>1 DEF z
  <2>4. /\ signHist' \in SI!SignHist /\ signHist'.raced = signHist.raced /\ signHist'.refetched = signHist.refetched
        /\ oauthStates' \in [Ids -> Nat] /\ SiStates'
    BY <1>1, <1>7, <2>1, SiPasses
  <2>5. SiShape(y) /\ y.step \notin Creating /\ y.step # "bind" /\ y.step # "fetch" /\ y.session = None
    BY <1>2, <1>3, <2>3 DEF SiShape, Creating
  <2>7. SiTables' /\ SiWork'
    BY <1>1, <2>3, <2>4, <2>5, <2>6, SiBegins
  <2>8. SiFetch'
    BY <1>1, <2>4, <2>5, <2>6, SiFetchesStay
  <2>9. SiTyped'
    BY <1>1, <1>5, <2>4 DEF SiTyped
  <2> QED
    BY <2>4, <2>7, <2>8, <2>9, SiTyping DEF SiIInv, SiWork
<1>8. CASE redis /\ signIns' = [signIns EXCEPT ![w] = [x EXCEPT !.step = "del"]] /\ UNCHANGED <<oauthStates, signHist>>
  <2> DEFINE y == [x EXCEPT !.step = "del"]
  <2>3. signIns' = [signIns EXCEPT ![w] = y]
    BY <1>8
  <2>1. y \in SiJob /\ y.step = "del" /\ y.id = x.id /\ y.session = x.session /\ y.state = x.state
    BY <1>2 DEF SiJob, SI!Steps
  <2> HIDE DEF y
  <2>2. SiShape(y) /\ y.step \notin Creating /\ y.session = None
    BY <1>2, <1>3, <1>8, <2>1 DEF SiShape, Creating
  <2>4. SiTables' /\ SiWork'
    BY <1>1, <1>8, <2>1, <2>2, <2>3, SiBegins
  <2>5. SiFetch'
    BY <1>1, <1>8, <2>1, <2>3, SiFetchesStay
  <2>6. SiTyped' /\ SiStates'
    BY <1>1, <1>5, <1>8 DEF SiTyped, SiIInv, SiStates
  <2> QED
    BY <2>4, <2>5, <2>6, SiTyping DEF SiIInv, SiWork
<1> QED
  BY <1>4, <1>6, <1>7, <1>8 DEF SI!verifyState


\* A request begins or goes on while everything else stands still.
LEMMA SiKeeps ==
  ASSUME SiIInv, SiTables', SiWork', SiFetch', UNCHANGED <<now, redis, options, oauthStates, invites, discovery, users, pending, signHist>>,
         starts' = starts \/ starts' = starts + 1
  PROVE  SiIInv'
<1>1. SiTyped'
  BY SiTyping DEF SiTyped
<1>2. SiStates'
  BY DEF SiIInv, SiStates
<1> QED
  BY <1>1, <1>2, SiTyping DEF SiIInv, SiWork

LEMMA SiTelegramCallback ==
  ASSUME SiIInv, NEW w \in Workers, NEW q \in Users, SI!TelegramCallback(w, q)
  PROVE  SiIInv'
<1> DEFINE y == [SI!Idle EXCEPT !.step = "find", !.id = [provider |-> "telegram", person |-> q]]
<1>1. /\ UNCHANGED <<now, redis, options, oauthStates, users, pending, invites, discovery, signHist>> /\ starts' = starts + 1
      /\ signIns' = [signIns EXCEPT ![w] = y]
  BY DEF SI!TelegramCallback, SI!Request, SI!table
<1>2. y \in SiJob /\ y.step = "find" /\ y.id = [provider |-> "telegram", person |-> q] /\ y.session = None
  BY SiConstants DEF SiJob, SI!Steps, SI!Providers
<1> HIDE DEF y
<1>3. y.id \in SI!Identity
  BY <1>2 DEF SI!Identity, SI!Providers
<1>4. SiShape(y) /\ y.step \notin Creating
  BY <1>2, <1>3 DEF SiShape, Creating
<1>5. SiTables' /\ SiWork'
  BY <1>1, <1>2, <1>4, SiBegins
<1>6. SiFetch'
  BY <1>1, <1>2, SiFetchesStay
<1> QED
  BY <1>1, <1>5, <1>6, SiKeeps

LEMMA SiTelegramBind ==
  ASSUME SiIInv, NEW w \in Workers, NEW i \in DOMAIN users, NEW q \in Users, SI!TelegramBind(w, i, q)
  PROVE  SiIInv'
<1> DEFINE d == [provider |-> "telegram", person |-> q]
           y == [SI!Idle EXCEPT !.step = "bind", !.id = d, !.row = i]
<1>1. /\ UNCHANGED <<now, redis, options, oauthStates, users, pending, invites, discovery, signHist>> /\ starts' = starts + 1
      /\ signIns' = [signIns EXCEPT ![w] = y] /\ SI!Rows(d) \subseteq {i}
  BY DEF SI!TelegramBind, SI!Request, SI!table
<1>2. i \in RowIds
  BY SiTypes DEF RowIds
<1>3. y \in SiJob /\ y.step = "bind" /\ y.id = d /\ y.row = i /\ y.session = None
  BY <1>2, SiConstants DEF SiJob, SI!Steps, SI!Providers
<1>4. d \in SI!Identity /\ d.provider = "telegram" /\ Has(users, d) \subseteq {i}
  BY <1>1 DEF SI!Identity, SI!Providers, Has, SI!Rows
<1> HIDE DEF y, d
<1>5. SiShape(y) /\ y.step \notin Creating /\ Has(users, y.id) \subseteq {y.row}
  BY <1>3, <1>4 DEF SiShape, Creating
<1>6. SiTables' /\ SiWork'
  BY <1>1, <1>3, <1>5, SiBegins
<1>7. SiFetch'
  BY <1>1, <1>3, SiFetchesStay
<1> QED
  BY <1>1, <1>6, <1>7, SiKeeps

LEMMA SiDelState ==
  ASSUME SiIInv, NEW w \in Workers, SI!DelState(w)
  PROVE  SiIInv'
<1> DEFINE x == signIns[w]
           z == SI!Verified(x.id.provider)
<1>1. /\ UNCHANGED <<now, redis, options, users, pending, invites, discovery, starts>> /\ x.step = "del" /\ SI!Go(w, z)
      /\ oauthStates' = [oauthStates EXCEPT ![x.state] = 0] /\ signHist' = SI!Pass(x.state)
  BY DEF SI!DelState, SI!At, SI!table
<1>2. x.id \in SI!Identity /\ x.state \in Ids /\ redis
  BY <1>1, SiTypes DEF SiShape
<1>3. z \in Plain /\ z # "fetch"
  <2>1. x.id.provider \in SI!Providers
    BY <1>2 DEF SI!Identity
  <2> QED
    BY <2>1, SiVerified DEF Plain
<1>4. /\ signHist' \in SI!SignHist /\ signHist'.raced = signHist.raced /\ signHist'.refetched = signHist.refetched
      /\ oauthStates' \in [Ids -> Nat] /\ SiStates'
  <2> HIDE DEF x
  <2> QED
    BY <1>1, <1>2, SiPasses
<1>5. PICK y \in SiJob :
        /\ signIns' = [signIns EXCEPT ![w] = y] /\ y.step = z /\ y.id = signIns[w].id
        /\ y.session = signIns[w].session /\ y.user = signIns[w].user
  <2> HIDE DEF z
  <2> QED
    BY <1>1, <1>3, SiGo
<1> HIDE DEF z
<1>6. SiTables' /\ SiWork'
  BY <1>1, <1>3, <1>4, <1>5, SiGoes DEF Late
<1>7. SiFetch'
  BY <1>1, <1>3, <1>4, <1>5, SiFetchesStay
<1>8. SiTyped'
  BY <1>1, <1>4, SiTyping DEF SiTyped
<1> QED
  BY <1>4, <1>6, <1>7, <1>8, SiTyping DEF SiIInv, SiWork

LEMMA SiDiscovers ==
  ASSUME SiIInv, NEW w \in Workers, SI!fetchOIDCDiscovery(w)
  PROVE  SiIInv'
<1> DEFINE z == IF SI!Fresh THEN "find" ELSE "lock"
<1>1. /\ UNCHANGED <<now, redis, options, oauthStates, users, pending, invites, discovery, signHist, starts>>
      /\ signIns[w].step = "discover" /\ SI!Go(w, z)
  BY DEF SI!fetchOIDCDiscovery, SI!At, SI!table
<1>2. z \in Plain /\ z # "fetch"
  BY DEF Plain
<1> HIDE DEF z
<1>3. PICK y \in SiJob :
        /\ signIns' = [signIns EXCEPT ![w] = y] /\ y.step = z /\ y.id = signIns[w].id
        /\ y.session = signIns[w].session /\ y.user = signIns[w].user
  BY <1>1, <1>2, SiGo
<1>4. SiTables' /\ SiWork'
  BY <1>1, <1>2, <1>3, SiGoes DEF Late
<1>5. SiFetch'
  BY <1>1, <1>2, <1>3, SiFetchesStay
<1> QED
  BY <1>1, <1>4, <1>5, SiKeeps

LEMMA SiLocks ==
  ASSUME SiIInv, NEW w \in Workers, SI!LockDiscovery(w)
  PROVE  SiIInv'
<1>1. /\ UNCHANGED <<now, redis, options, oauthStates, users, pending, invites, signHist, starts>>
      /\ signIns[w].step = "lock" /\ discovery.holder = None
  BY DEF SI!LockDiscovery, SI!At, SI!table
<1>2. CASE SI!Go(w, "find") /\ UNCHANGED discovery
  <2>1. PICK y \in SiJob :
          /\ signIns' = [signIns EXCEPT ![w] = y] /\ y.step = "find" /\ y.id = signIns[w].id
          /\ y.session = signIns[w].session /\ y.user = signIns[w].user
    BY <1>2, SiGo DEF Plain
  <2>2. SiTables' /\ SiWork'
    BY <1>1, <2>1, SiGoes DEF Plain, Late
  <2>3. SiFetch'
    BY <1>1, <1>2, <2>1, SiFetchesStay
  <2> QED
    BY <1>1, <1>2, <2>2, <2>3, SiKeeps
<1>3. CASE SI!Go(w, "fetch") /\ discovery' = [discovery EXCEPT !.holder = w] /\ ~SI!Fresh
  <2>1. PICK y \in SiJob :
          /\ signIns' = [signIns EXCEPT ![w] = y] /\ y.step = "fetch" /\ y.id = signIns[w].id
          /\ y.session = signIns[w].session /\ y.user = signIns[w].user
    BY <1>3, SiGo DEF Plain
  <2>2. SiTables' /\ SiWork'
    BY <1>1, <2>1, SiGoes DEF Plain, Late
  <2>3. /\ discovery' \in [expires : Nat, holder : Workers \cup {None}]
        /\ discovery'.holder = w /\ discovery'.expires = discovery.expires
    BY <1>3, SiTypes
  <2>4. \A v \in Workers : signIns[v].step # "fetch"
    BY <1>1, AccessAssumption DEF SiIInv, SiFetch, SiFetches
  <2>5. \A v \in Workers : signIns'[v].step = "fetch" => v = w
    BY <2>1, <2>4 DEF SiIInv, SiWork, SiShapes
  <2>6. SiFetch'
    BY <1>1, <1>3, <2>3, <2>5 DEF SiIInv, SiFetch, SiFetches, SI!Fresh
  <2>7. SiTyped' /\ SiStates'
    BY <1>1, <2>3, SiTyping DEF SiTyped, SiIInv, SiStates
  <2> QED
    BY <2>2, <2>6, <2>7, SiTyping DEF SiIInv, SiWork
<1> QED
  BY <1>2, <1>3 DEF SI!LockDiscovery

LEMMA SiFetched ==
  ASSUME SiIInv, NEW w \in Workers, SI!Fetched(w)
  PROVE  SiIInv'
<1>1. /\ UNCHANGED <<now, redis, options, oauthStates, users, pending, invites, starts>> /\ signIns[w].step = "fetch"
  BY DEF SI!Fetched, SI!At, SI!table
<1>2. discovery.holder = w /\ ~SI!Fresh /\ signHist.refetched = FALSE
  BY <1>1 DEF SiIInv, SiFetch, SiFetches, SI!Fresh
<1>3. \A v \in Workers \ {w} : signIns[v].step # "fetch"
  BY <1>2 DEF SiIInv, SiFetch, SiFetches
<1>4. CASE /\ discovery' = [expires |-> now + DiscoveryTTL, holder |-> None]
           /\ signHist' = [signHist EXCEPT !.refetched = @ \/ SI!Fresh] /\ SI!Go(w, "find")
  <2>1. PICK y \in SiJob :
          /\ signIns' = [signIns EXCEPT ![w] = y] /\ y.step = "find" /\ y.id = signIns[w].id
          /\ y.session = signIns[w].session /\ y.user = signIns[w].user
    BY <1>4, SiGo DEF Plain
  <2>2. signHist' = [signHist EXCEPT !.refetched = FALSE]
    <3>1. (signHist.refetched \/ SI!Fresh) = FALSE
      BY <1>2, Zenon
    <3> QED
      BY <1>4, <3>1
  <2>3. signHist' \in SI!SignHist /\ signHist'.raced = signHist.raced /\ signHist'.refetched = FALSE /\ signHist'.passed = signHist.passed
    BY <2>2, SiTypes DEF SI!SignHist
  <2>4. SiTables' /\ SiWork'
    BY <1>1, <2>1, <2>3, SiGoes DEF Plain, Late
  <2>5. \A v \in Workers : signIns'[v].step # "fetch"
    BY <1>3, <2>1 DEF SiIInv, SiWork, SiShapes
  <2>6. SiFetch'
    BY <2>3, <2>5 DEF SiFetch, SiFetches
  <2>7. discovery' \in [expires : Nat, holder : Workers \cup {None}]
    <3>1. now + DiscoveryTTL \in Nat
      BY SiTypes, AccessAssumption
    <3> QED
      BY <1>4, <3>1
  <2>8. SiTyped'
    BY <1>1, <2>3, <2>7, SiTyping DEF SiTyped
  <2>9. SiStates'
    BY <1>1, <2>3 DEF SiIInv, SiStates
  <2> QED
    BY <2>4, <2>6, <2>8, <2>9, SiTyping DEF SiIInv, SiWork
<1>5. CASE discovery' = [discovery EXCEPT !.holder = None] /\ SI!Stop(w) /\ UNCHANGED signHist
  <2>1. signIns' = [signIns EXCEPT ![w] = SI!Idle]
    BY <1>5 DEF SI!Stop
  <2>2. SiTables' /\ SiWork'
    BY <1>1, <1>5, <2>1, SiStops
  <2>3. \A v \in Workers : signIns'[v].step # "fetch"
    BY <1>3, <2>1, SiConstants DEF SiIInv, SiWork, SiShapes
  <2>4. SiFetch'
    BY <1>5, <2>3 DEF SiIInv, SiFetch, SiFetches
  <2>5. discovery' \in [expires : Nat, holder : Workers \cup {None}]
    BY <1>5, SiTypes
  <2>6. SiTyped' /\ SiStates'
    BY <1>1, <1>5, <2>5, SiTyping DEF SiTyped, SiIInv, SiStates
  <2> QED
    BY <2>2, <2>4, <2>6, SiTyping DEF SiIInv, SiWork
<1> QED
  BY <1>4, <1>5 DEF SI!Fetched

---------------------------------------------------------------------------
(* Sign-in: finding the user, and registrations that wait. *)

LEMMA SiMaxId ==
  ASSUME SiIInv, NEW w \in Workers, SI!MaxId(w)
  PROVE  SiIInv'
<1>1. /\ UNCHANGED <<now, redis, options, oauthStates, users, pending, invites, discovery, signHist, starts>>
      /\ signIns[w].step = "maxId" /\ signIns' = [signIns EXCEPT ![w].step = "find", ![w].maxId = Len(users)]
  BY DEF SI!MaxId, SI!At, SI!table
<1> DEFINE y == [signIns[w] EXCEPT !.step = "find", !.maxId = Len(users)]
<1>2. signIns' = [signIns EXCEPT ![w] = y]
  BY <1>1 DEF SiIInv, SiWork, SiShapes
<1>3. signIns[w] \in SiJob /\ Len(users) \in Nat
  BY SiTypes
<1>4. y \in SiJob /\ y.step = "find" /\ y.id = signIns[w].id /\ y.session = signIns[w].session /\ y.user = signIns[w].user
  BY <1>3 DEF SiJob, SI!Steps
<1> HIDE DEF y
<1>5. SiTables' /\ SiWork'
  BY <1>1, <1>2, <1>4, SiGoes DEF Plain, Late
<1>6. SiFetch'
  BY <1>1, <1>2, <1>4, SiFetchesStay
<1> QED
  BY <1>1, <1>5, <1>6, SiKeeps

LEMMA SiSetOptions ==
  ASSUME SiIInv, NEW o \in [register : BOOLEAN, invitation : BOOLEAN], SI!SetOptions(o)
  PROVE  SiIInv'
<1>1. /\ UNCHANGED <<now, redis, oauthStates, users, pending, invites, discovery, signIns, signHist>>
      /\ options' = o /\ starts' = starts + 1
  BY DEF SI!SetOptions, SI!Request, SI!table
<1>2. SiTables' /\ SiWork'
  BY <1>1, SiRests
<1>3. SiTyped' /\ SiStates' /\ SiFetch'
  BY <1>1, SiTyping DEF SiTyped, SiIInv, SiStates, SiFetch, SiFetches
<1> QED
  BY <1>2, <1>3, SiTyping DEF SiIInv, SiWork

LEMMA SiTick ==
  ASSUME SiIInv, SI!Tick
  PROVE  SiIInv'
<1>1. /\ UNCHANGED <<redis, options, oauthStates, users, pending, invites, discovery, signIns, signHist, starts>>
      /\ now' = now + 1
  BY DEF SI!Tick, SI!table
<1>2. SiTables' /\ SiWork'
  BY <1>1, SiRests
<1>3. SiTyped' /\ SiStates'
  BY <1>1, SiTyping DEF SiTyped, SiIInv, SiStates
<1>4. ~(now < discovery.expires) => ~(now' < discovery'.expires)
  BY <1>1, SiTypes
<1>5. SiFetch'
  BY <1>1, <1>4 DEF SiIInv, SiFetch, SiFetches
<1> QED
  BY <1>2, <1>3, <1>5, SiTyping DEF SiIInv, SiWork

LEMMA SiRestart ==
  ASSUME SiIInv, SI!Restart
  PROVE  SiIInv'
<1>1. /\ UNCHANGED <<now, redis, options, users, invites, signHist>> /\ starts' = starts + 1 /\ pending' = <<>>
      /\ discovery' = [expires |-> 0, holder |-> None] /\ signIns' = [w \in Workers |-> SI!Idle]
      /\ oauthStates' = IF redis THEN oauthStates ELSE [s \in Ids |-> 0]
  BY DEF SI!Restart, SI!Request
<1>2. DOMAIN pending' = {} /\ \A w \in Workers : signIns'[w] = SI!Idle
  BY <1>1
<1>3. SiTyped
  BY SiTyping
<1>4. oauthStates' \in [Ids -> Nat]
  BY <1>1, <1>3 DEF SiTyped
<1>5. SiTyped'
  BY <1>1, <1>2, <1>3, <1>4 DEF SiTyped
<1>6. SiStates'
  BY <1>1, <1>3 DEF SiIInv, SiStates, SiTyped
<1>7. SiFetch'
  BY <1>1, <1>2, SiConstants DEF SiIInv, SiFetch, SiFetches
<1>8. SiTables'
  BY <1>1 DEF SiIInv, SiTables, SiNames, SiOne
<1>9. SiShapes'
  <2>1. \A w \in Workers : SiShape(SI!Idle)'
    BY SiConstants DEF SiShape, Creating
  <2> QED
    BY <1>1, <1>2, <2>1, SiConstants DEF SiShapes
<1>10. SiPending' /\ SiOpen' /\ SiBinds'
  BY <1>2, SiConstants DEF SiPending, SiOpen, SiBinds, Creating
<1> QED
  BY <1>5, <1>6, <1>7, <1>8, <1>9, <1>10, SiTyping DEF SiIInv, SiWork

LEMMA SiCompletes ==
  ASSUME SiIInv, NEW w \in Workers, NEW p \in Ids, NEW i \in Invites, SI!CompleteOAuthRegistration(w, p, i)
  PROVE  SiIInv'
<1> DEFINE u == pending[p].user
           c == CHOOSE d \in u.ids : TRUE
           y == [SI!Idle EXCEPT !.step = "invite", !.session = p, !.user = u, !.invite = i, !.id = c]
<1>1. /\ UNCHANGED <<now, redis, options, oauthStates, users, pending, invites, discovery, signHist>> /\ starts' = starts + 1
      /\ signIns' = [signIns EXCEPT ![w] = y] /\ p \in DOMAIN pending
  BY DEF SI!CompleteOAuthRegistration, SI!Request, SI!table
<1>2. PICK d \in SI!Identity : Skeleton(d, u)
  BY <1>1 DEF SiIInv, SiWork, SiPending
<1>3. c = d
  <2>1. u.ids = {d}
    BY <1>2 DEF Skeleton
  <2>2. \E e \in u.ids : TRUE
    BY <2>1
  <2>3. c \in u.ids
    BY <2>2, Zenon
  <2> QED
    BY <2>1, <2>3
<1>4. u \in SI!NamedUser
  BY <1>1, SiTyping DEF SiTyped, SI!Pending
<1>5. Open(users, signHist.raced, d, u)
  BY <1>1, <1>2 DEF SiIInv, SiWork, SiOpen, Skeleton
<1> HIDE DEF c, u
<1>6. c \in [provider : SI!Providers, person : Users \cup {None}]
  BY <1>3 DEF SI!Identity
<1>7. y \in SiJob /\ y.step = "invite" /\ y.session = p /\ y.user = u /\ y.invite = i /\ y.id = c
  <2>1. SI!Idle \in SiJob /\ "invite" \in SI!Steps
    BY SiConstants DEF SI!Steps
  <2> DEFINE v == [SI!Idle EXCEPT !.step = "invite", !.session = p, !.user = u]
  <2>2. v \in SiJob /\ v.step = "invite" /\ v.session = p /\ v.user = u
    BY <1>4, <2>1 DEF SiJob
  <2>3. y = [v EXCEPT !.invite = i, !.id = c]
    OBVIOUS
  <2> HIDE DEF v, y
  <2> QED
    BY <1>6, <2>2, <2>3 DEF SiJob
<1> HIDE DEF y
<1>8. SiShape(y)
  BY <1>2, <1>3, <1>7 DEF SiShape, Late, Creating
<1>9. SiTables' /\ SiWork'
  <2>1. y.session \in DOMAIN pending => y.user = pending[y.session].user
    BY <1>7 DEF u
  <2>2. y.step # "bind"
    BY <1>7
  <2>3. Open(users, signHist.raced, y.id, y.user)
    BY <1>3, <1>5, <1>7
  <2> QED
    BY <1>1, <1>7, <1>8, <2>1, <2>2, <2>3, SiMoves
<1>10. SiFetch'
  BY <1>1, <1>7, SiFetchesStay
<1> QED
  BY <1>1, <1>9, <1>10, SiKeeps

LEMMA SiReadsInvitation ==
  ASSUME SiIInv, NEW w \in Workers, SI!ReadInvitation(w)
  PROVE  SiIInv'
<1> DEFINE x == signIns[w]
           n == invites[x.invite].used
           y == [x EXCEPT !.step = "transaction", !.used = n]
<1>1. /\ UNCHANGED <<now, redis, options, oauthStates, users, pending, invites, discovery, signHist, starts>> /\ x.step = "invite"
  BY DEF SI!ReadInvitation, SI!At, SI!table
<1>2. CASE signIns' = [signIns EXCEPT ![w].step = "transaction", ![w].used = n]
  <2>1. x \in SiJob /\ SiShape(x) /\ x.invite \in Invites /\ x.session \in Ids /\ Skeleton(x.id, x.user) /\ x.id \in SI!Identity
    BY <1>1, SiTypes DEF SiShape, Creating
  <2>2. n \in Nat
    BY <2>1, SiTyping DEF SiTyped
  <2>3. signIns' = [signIns EXCEPT ![w] = y]
    BY <1>2 DEF SiIInv, SiWork, SiShapes
  <2>4. Open(users, signHist.raced, x.id, x.user)
    BY <1>1 DEF SiIInv, SiWork, SiOpen, Creating
  <2>5. x.session \in DOMAIN pending => x.user = pending[x.session].user
    BY <1>1 DEF SiIInv, SiWork, SiPending
  <2> HIDE DEF x, n
  <2>6. y \in SiJob /\ y.step = "transaction" /\ y.id = x.id /\ y.session = x.session /\ y.user = x.user /\ y.invite = x.invite
    BY <2>1, <2>2 DEF SiJob, SI!Steps
  <2> HIDE DEF y
  <2>7. SiShape(y)
    BY <2>1, <2>6 DEF SiShape, Late
  <2>8. SiTables' /\ SiWork'
    BY <1>1, <2>3, <2>4, <2>5, <2>6, <2>7, SiMoves
  <2>9. SiFetch'
    BY <1>1, <2>3, <2>6, SiFetchesStay
  <2> QED
    BY <1>1, <2>8, <2>9, SiKeeps
<1>3. CASE SI!Stop(w)
  <2>1. signIns' = [signIns EXCEPT ![w] = SI!Idle]
    BY <1>3 DEF SI!Stop
  <2>2. SiTables' /\ SiWork'
    BY <1>1, <2>1, SiStops
  <2>3. SiFetch'
    BY <1>1, <2>1, SiConstants, SiFetchesStay
  <2> QED
    BY <1>1, <2>2, <2>3, SiKeeps
<1> QED
  BY <1>2, <1>3 DEF SI!ReadInvitation

LEMMA SiBuilds ==
  ASSUME NEW x \in SiJob, x.id \in SI!Identity
  PROVE  SI!buildUser(x) \in SI!NamedUser /\ Skeleton(x.id, SI!buildUser(x))
<1>1. x.id.provider \in SI!Providers /\ x.id.person \in Users /\ x.level \in Nat /\ x.maxId + 1 \in Nat
  BY DEF SI!Identity, SiJob
<1> DEFINE n == IF x.id.provider = "wechat" THEN [from |-> "wechat", who |-> None, n |-> x.maxId + 1]
                ELSE [from |-> x.id.provider, who |-> x.id.person, n |-> 0]
<1>2. n \in SI!Name
  BY <1>1 DEF SI!Name, SI!Providers
<1>3. x.id.provider \in ByName => n = NameOf(x.id)
  BY DEF ByName, NameOf
<1>4. SI!buildUser(x) = [name |-> n, ids |-> {x.id}, active |-> TRUE, level |-> x.level, invite |-> None]
  BY DEF SI!buildUser
<1> HIDE DEF n
<1>5. SI!buildUser(x) \in SI!NamedUser
  BY <1>1, <1>2, <1>4 DEF SI!NamedUser
<1>6. Skeleton(x.id, SI!buildUser(x))
  BY <1>3, <1>4 DEF Skeleton
<1> QED
  BY <1>5, <1>6

\* What Mark leaves of the history.
LEMMA SiMarks ==
  ASSUME SiIInv, NEW w, NEW d \in SI!Identity, NEW p, signHist' = SI!Mark(w, d, p)
  PROVE  /\ signHist' \in SI!SignHist /\ signHist'.passed = signHist.passed /\ signHist'.refetched = signHist.refetched
         /\ signHist.raced \subseteq signHist'.raced /\ (SI!Busy(w, d, p) => d \in signHist'.raced)
<1>1. signHist \in SI!SignHist
  BY SiTypes
<1>2. CASE SI!Busy(w, d, p)
  <2>1. signHist' = [signHist EXCEPT !.raced = @ \cup {d}]
    BY <1>2 DEF SI!Mark
  <2> QED
    BY <1>1, <2>1 DEF SI!SignHist
<1>3. CASE ~SI!Busy(w, d, p)
  BY <1>1, <1>3 DEF SI!Mark
<1> QED
  BY <1>2, <1>3

\* A registration begins to wait.
LEMMA SiWaits ==
  ASSUME SiIInv, NEW w \in Workers, NEW u \in SI!NamedUser, NEW d \in SI!Identity, Skeleton(d, u), Has(users, d) = {},
         NEW p \in Ids, p \notin DOMAIN pending, \A v \in Workers : signIns[v].step = "idle" \/ signIns[v].session # p \/ v = w,
         DOMAIN pending' \subseteq DOMAIN pending \cup {p}, p \in DOMAIN pending' => pending'[p].user = u,
         \A q \in DOMAIN pending' \ {p} : pending'[q] = pending[q],
         signIns' = [signIns EXCEPT ![w] = SI!Idle], UNCHANGED <<redis, users>>, signHist.raced \subseteq signHist'.raced
  PROVE  SiTables' /\ SiWork'
<1>1. signIns'[w] = SI!Idle /\ \A v \in Workers \ {w} : signIns'[v] = signIns[v]
  BY DEF SiIInv, SiWork, SiShapes
<1>2. SiTables'
  BY DEF SiIInv, SiTables, SiNames, SiOne
<1>3. SiShapes'
  BY <1>1, SiConstants DEF SiIInv, SiWork, SiShapes, SiShape
<1>4. SiPending'
  <2> SUFFICES ASSUME NEW q \in DOMAIN pending'
               PROVE  /\ \E e \in SI!Identity : Skeleton(e, pending'[q].user)
                      /\ \A v \in Workers : signIns'[v].step # "idle" /\ signIns'[v].session = q => signIns'[v].user = pending'[q].user
    BY DEF SiPending
  <2>1. CASE q = p
    BY <1>1, <2>1, SiConstants
  <2>2. CASE q # p
    BY <1>1, <2>2, SiConstants DEF SiIInv, SiWork, SiPending
  <2> QED
    BY <2>1, <2>2
<1>5. SiOpen'
  <2>1. ASSUME NEW v \in Workers, signIns'[v].step \in Creating
        PROVE  Open(users', signHist'.raced, signIns'[v].id, signIns'[v].user)
    <3>1. v # w
      BY <1>1, <2>1, SiConstants DEF Creating
    <3>2. Open(users, signHist.raced, signIns[v].id, signIns[v].user) /\ signIns'[v] = signIns[v]
      BY <1>1, <2>1, <3>1 DEF SiIInv, SiWork, SiOpen
    <3> QED
      BY <3>2 DEF Open
  <2>2. ASSUME NEW q \in DOMAIN pending', NEW e \in pending'[q].user.ids
        PROVE  Open(users', signHist'.raced, e, pending'[q].user)
    <3>1. CASE q = p
      BY <2>2, <3>1 DEF Open, Skeleton
    <3>2. CASE q # p
      <4>1. Open(users, signHist.raced, e, pending[q].user) /\ pending'[q] = pending[q]
        BY <2>2, <3>2 DEF SiIInv, SiWork, SiOpen
      <4> QED
        BY <4>1 DEF Open
    <3> QED
      BY <3>1, <3>2
  <2> QED
    BY <2>1, <2>2 DEF SiOpen
<1>6. SiBinds'
  BY <1>1, SiConstants DEF SiIInv, SiWork, SiBinds
<1> QED
  BY <1>2, <1>3, <1>4, <1>5, <1>6 DEF SiWork

LEMMA SiFinds ==
  ASSUME SiIInv, NEW w \in Workers, SI!createOAuthUser(w)
  PROVE  SiIInv'
<1> DEFINE x == signIns[w]
           rows == SI!Rows(x.id)
           u == SI!buildUser(x)
<1>1. UNCHANGED <<now, redis, options, oauthStates, users, invites, discovery, starts>> /\ x.step = "find"
  BY DEF SI!createOAuthUser, SI!At
<1>2. x \in SiJob /\ SiShape(x) /\ x.id \in SI!Identity /\ x.session = None
  BY <1>1, SiTypes DEF SiShape, Late
<1>3. rows = Has(users, x.id)
  BY DEF SI!Rows, Has
<1>4. u \in SI!NamedUser /\ Skeleton(x.id, u)
  BY <1>2, SiBuilds
<1>5. CASE SI!Stop(w) /\ UNCHANGED <<pending, signHist>>
  <2>1. signIns' = [signIns EXCEPT ![w] = SI!Idle]
    BY <1>5 DEF SI!Stop
  <2>2. SiTables' /\ SiWork'
    BY <1>1, <1>5, <2>1, SiStops
  <2>3. SiFetch'
    BY <1>1, <1>5, <2>1, SiConstants, SiFetchesStay
  <2> QED
    BY <1>1, <1>5, <2>2, <2>3, SiKeeps
<1>6. CASE signIns' = [signIns EXCEPT ![w].step = "sync", ![w].row = SI!First(rows)] /\ UNCHANGED <<pending, signHist>>
  <2> DEFINE r == SI!First(rows)
             y == [x EXCEPT !.step = "sync", !.row = r]
  <2>1. signIns' = [signIns EXCEPT ![w] = y]
    BY <1>6 DEF SiIInv, SiWork, SiShapes
  <2>2. r \in RowIds
    <3>1. rows \in SUBSET Nat
      BY <1>3, SiTypes DEF Has
    <3> HIDE DEF rows
    <3> QED
      BY <3>1 DEF RowIds
  <2> HIDE DEF r
  <2>3. y \in SiJob /\ y.step = "sync" /\ y.id = x.id /\ y.session = x.session /\ y.user = x.user
    BY <1>2, <2>2 DEF SiJob, SI!Steps
  <2> HIDE DEF y
  <2>4. SiTables' /\ SiWork'
    BY <1>1, <1>6, <2>1, <2>3, SiGoes DEF Plain, Late
  <2>5. SiFetch'
    BY <1>1, <1>6, <2>1, <2>3, SiFetchesStay
  <2> QED
    BY <1>1, <1>6, <2>4, <2>5, SiKeeps
<1>7. CASE rows = {} /\ signIns' = [signIns EXCEPT ![w].step = "create", ![w].user = u] /\ UNCHANGED <<pending, signHist>>
  <2> DEFINE y == [x EXCEPT !.step = "create", !.user = u]
  <2>1. signIns' = [signIns EXCEPT ![w] = y]
    BY <1>7 DEF SiIInv, SiWork, SiShapes
  <2>2. Open(users, signHist.raced, x.id, u)
    BY <1>3, <1>7 DEF Open
  <2> HIDE DEF u
  <2>3. y \in SiJob /\ y.step = "create" /\ y.id = x.id /\ y.session = x.session /\ y.user = u
    BY <1>2, <1>4 DEF SiJob, SI!Steps
  <2> HIDE DEF y, x
  <2>4. SiShape(y)
    BY <1>2, <1>4, <2>3 DEF SiShape, Late, Creating
  <2>5. y.session \notin DOMAIN pending
    BY <1>2, <2>3, AccessAssumption DEF SiIInv, SI!TypeOK
  <2>6. SiTables' /\ SiWork'
    BY <1>1, <1>7, <2>1, <2>2, <2>3, <2>4, <2>5, SiMoves
  <2>7. SiFetch'
    BY <1>1, <1>7, <2>1, <2>3, SiFetchesStay
  <2> QED
    BY <1>1, <1>7, <2>6, <2>7, SiKeeps
<1>8. ASSUME rows = {}, SI!Stop(w), signHist' = SI!Mark(w, x.id, None), NEW p \in Ids, p \notin DOMAIN pending,
             \A v \in Workers : SI!At(v, "idle") \/ signIns[v].session # p \/ v = w,
             pending' = [q \in {r \in DOMAIN pending : now <= pending[r].expires} \cup {p} |->
                           IF q = p THEN [user |-> u, expires |-> now + PendingTTL] ELSE pending[q]]
      PROVE  SiIInv'
  <2>1. signIns' = [signIns EXCEPT ![w] = SI!Idle]
    BY <1>8 DEF SI!Stop
  <2>2. /\ signHist' \in SI!SignHist /\ signHist'.passed = signHist.passed /\ signHist'.refetched = signHist.refetched
        /\ signHist.raced \subseteq signHist'.raced
    <3> HIDE DEF x
    <3> QED
      BY <1>2, <1>8, SiMarks
  <2>3. SiTyped /\ now + PendingTTL \in Nat
    BY SiTyping, SiTypes, AccessAssumption
  <2> HIDE DEF u
  <2>4. /\ DOMAIN pending' \subseteq DOMAIN pending \cup {p} /\ pending'[p] = [user |-> u, expires |-> now + PendingTTL]
        /\ \A q \in DOMAIN pending' \ {p} : pending'[q] = pending[q]
    BY <1>8
  <2>5. pending'[p] \in SI!Pending /\ pending'[p].user = u
    BY <1>4, <2>3, <2>4 DEF SI!Pending
  <2>6. SiTables' /\ SiWork'
    <3>1. \A v \in Workers : signIns[v].step = "idle" \/ signIns[v].session # p \/ v = w
      BY <1>8 DEF SI!At
    <3>2. Has(users, x.id) = {}
      BY <1>3, <1>8
    <3> DEFINE d == x.id
    <3>3. d \in SI!Identity /\ Skeleton(d, u) /\ Has(users, d) = {}
      BY <1>2, <1>4, <3>2
    <3> HIDE DEF d, rows, x
    <3> QED
      BY <1>1, <1>4, <1>8, <2>1, <2>2, <2>4, <2>5, <3>1, <3>3, SiWaits
  <2>7. SiFetch'
    BY <1>1, <2>1, <2>2, SiConstants, SiFetchesStay
  <2>8. SiTyped'
    BY <1>1, <2>2, <2>3, <2>4, <2>5 DEF SiTyped
  <2>9. SiStates'
    BY <1>1, <2>2 DEF SiIInv, SiStates
  <2> QED
    BY <2>6, <2>7, <2>8, <2>9, SiTyping DEF SiIInv, SiWork
<1> QED
  BY <1>5, <1>6, <1>7, <1>8 DEF SI!createOAuthUser

LEMMA SiDrops ==
  ASSUME SiIInv, NEW w \in Workers, SI!deletePendingOAuthSession(w)
  PROVE  SiIInv'
<1>1. /\ UNCHANGED <<now, redis, options, oauthStates, users, invites, discovery, signHist, starts>>
      /\ signIns' = [signIns EXCEPT ![w] = SI!Idle]
      /\ pending' = [p \in DOMAIN pending \ {signIns[w].session} |-> pending[p]]
  BY DEF SI!deletePendingOAuthSession, SI!Stop
<1>2. DOMAIN pending' \subseteq DOMAIN pending /\ \A p \in DOMAIN pending' : pending'[p] = pending[p]
  BY <1>1
<1>3. signIns'[w] = SI!Idle /\ \A v \in Workers \ {w} : signIns'[v] = signIns[v]
  BY <1>1 DEF SiIInv, SiWork, SiShapes
<1>4. SiTables'
  BY <1>1 DEF SiIInv, SiTables, SiNames, SiOne
<1>5. SiShapes'
  BY <1>1, <1>3, SiConstants DEF SiIInv, SiWork, SiShapes, SiShape
<1>6. SiPending'
  BY <1>2, <1>3, SiConstants DEF SiIInv, SiWork, SiPending
<1>7. SiOpen' /\ SiBinds'
  BY <1>1, <1>2, <1>3, SiConstants DEF SiIInv, SiWork, SiOpen, SiBinds, Creating
<1>8. SiFetch'
  BY <1>1, SiConstants, SiFetchesStay
<1>9. SiTyped' /\ SiStates'
  BY <1>1, <1>2, SiTyping DEF SiTyped, SiIInv, SiStates
<1> QED
  BY <1>4, <1>5, <1>6, <1>7, <1>8, <1>9, SiTyping DEF SiIInv, SiWork

---------------------------------------------------------------------------
(* Sign-in: what changes in the table of users. *)

\* What the table us and the raced identities ra are after a request of w for d has written:
\* everyone else who is after d makes it raced.
Written(w, d, us, ra) ==
  /\ signHist.raced \subseteq ra
  /\ \A e : e # d => Has(us, e) \subseteq Has(users, e)
  /\ \A n : Taken(users, n) => Taken(us, n)
  /\ d \in ra \/ \A i, j \in Has(us, d) : i = j
  /\ \A v \in Workers \ {w} : signIns[v].step # "idle" /\ signIns[v].id = d => d \in ra
  /\ \A q \in DOMAIN pending : d \in pending[q].user.ids => d \in ra \/ Taken(us, pending[q].user.name)

LEMMA SiWrites ==
  ASSUME SiIInv, NEW w \in Workers, NEW d, NEW us, NEW ra, Written(w, d, us, ra), users' = us, signHist'.raced = ra,
         UNCHANGED <<redis, pending>>, SiNames',
         NEW y \in SiJob, SiShape(y), y.step \in {"idle", "drop"}, signIns' = [signIns EXCEPT ![w] = y],
         y.step # "idle" /\ y.session \in DOMAIN pending => y.user = pending[y.session].user
  PROVE  SiTables' /\ SiWork'
<1> USE DEF Written
<1>1. signIns \in [Workers -> SiJob] /\ signIns'[w] = y /\ \A v \in Workers \ {w} : signIns'[v] = signIns[v]
  BY DEF SiIInv, SiWork, SiShapes
<1>2. SiOne'
  <2> SUFFICES ASSUME NEW i \in DOMAIN us, NEW j \in DOMAIN us, NEW e \in us[i].ids \cap us[j].ids, i # j
               PROVE  e \in ra
    BY DEF SiOne
  <2>1. i \in Has(us, e) /\ j \in Has(us, e)
    BY DEF Has
  <2>2. CASE e = d
    BY <2>1, <2>2
  <2>3. CASE e # d
    <3>1. i \in Has(users, e) /\ j \in Has(users, e)
      BY <2>1, <2>3
    <3>2. e \in signHist.raced
      BY <3>1 DEF SiIInv, SiTables, SiOne, Has
    <3> QED
      BY <3>2
  <2> QED
    BY <2>2, <2>3
<1>3. SiShapes'
  BY <1>1 DEF SiIInv, SiWork, SiShapes, SiShape
<1>4. SiPending'
  BY <1>1 DEF SiIInv, SiWork, SiPending
<1>5. ASSUME NEW e, NEW u, e # d, Open(users, signHist.raced, e, u) PROVE Open(us, ra, e, u)
  <2>1. Has(us, e) \subseteq Has(users, e)
    BY <1>5
  <2> QED
    BY <1>5, <2>1 DEF Open
<1>6. ASSUME NEW v \in Workers, signIns'[v].step \in Creating
      PROVE  Open(us, ra, signIns'[v].id, signIns'[v].user)
  <2>1. v # w /\ signIns'[v] = signIns[v] /\ signIns[v].step # "idle"
    BY <1>1, <1>6 DEF Creating
  <2>2. Open(users, signHist.raced, signIns[v].id, signIns[v].user)
    BY <1>6, <2>1 DEF SiIInv, SiWork, SiOpen
  <2>3. CASE signIns[v].id = d
    BY <2>1, <2>3 DEF Open
  <2>4. CASE signIns[v].id # d
    BY <1>5, <2>1, <2>2, <2>4
  <2> QED
    BY <2>3, <2>4
<1>7. ASSUME NEW q \in DOMAIN pending, NEW e \in pending[q].user.ids
      PROVE  Open(us, ra, e, pending[q].user)
  <2>1. Open(users, signHist.raced, e, pending[q].user)
    BY <1>7 DEF SiIInv, SiWork, SiOpen
  <2>2. CASE e = d
    BY <1>7, <2>2 DEF Open
  <2>3. CASE e # d
    BY <1>5, <2>1, <2>3
  <2> QED
    BY <2>2, <2>3
<1>8. SiOpen'
  BY <1>6, <1>7 DEF SiOpen
<1>9. SiBinds'
  <2> SUFFICES ASSUME NEW v \in Workers, signIns'[v].step = "bind"
               PROVE  signIns'[v].id \in ra \/ Has(us, signIns'[v].id) \subseteq {signIns'[v].row}
    BY DEF SiBinds
  <2>1. v # w /\ signIns'[v] = signIns[v] /\ signIns[v].step = "bind"
    BY <1>1
  <2>2. signIns[v].id \in signHist.raced \/ Has(users, signIns[v].id) \subseteq {signIns[v].row}
    BY <2>1 DEF SiIInv, SiWork, SiBinds
  <2>3. CASE signIns[v].id = d
    BY <2>1, <2>3
  <2>4. CASE signIns[v].id # d
    BY <2>1, <2>2, <2>4
  <2> QED
    BY <2>3, <2>4
<1> QED
  BY <1>2, <1>3, <1>4, <1>8, <1>9 DEF SiTables, SiWork

\* A row keeps its name and its identities.
LEMMA SiEdits ==
  ASSUME SiIInv, NEW us, users' = us, signHist' = signHist, UNCHANGED <<redis, pending>>,
         DOMAIN us = DOMAIN users, \A i \in DOMAIN users : us[i].name = users[i].name /\ us[i].ids = users[i].ids,
         \/ UNCHANGED signIns
         \/ \E w \in Workers : signIns' = [signIns EXCEPT ![w] = SI!Idle]
  PROVE  SiTables' /\ SiWork'
<1>1. \A v \in Workers : signIns'[v] = signIns[v] \/ signIns'[v] = SI!Idle
  BY DEF SiIInv, SiWork, SiShapes
<1>2. \A e : Has(us, e) = Has(users, e)
  BY DEF Has
<1>3. \A n : Taken(us, n) <=> Taken(users, n)
  BY DEF Taken
<1>4. SiTables'
  BY DEF SiIInv, SiTables, SiNames, SiOne
<1>5. SiShapes'
  <2>1. signIns' \in [Workers -> SiJob]
    BY SiConstants DEF SiIInv, SiWork, SiShapes
  <2> QED
    BY <1>1, <2>1, SiConstants DEF SiIInv, SiWork, SiShapes, SiShape
<1>6. SiPending'
  BY <1>1, SiConstants DEF SiIInv, SiWork, SiPending
<1>7. \A e, u : Open(us, signHist.raced, e, u) <=> Open(users, signHist.raced, e, u)
  BY <1>2, <1>3 DEF Open
<1>8. SiOpen'
  BY <1>1, <1>7, SiConstants DEF SiIInv, SiWork, SiOpen, Creating
<1>9. SiBinds'
  BY <1>1, <1>2, SiConstants DEF SiIInv, SiWork, SiBinds
<1> QED
  BY <1>4, <1>5, <1>6, <1>8, <1>9 DEF SiWork

LEMMA SiSyncs ==
  ASSUME SiIInv, NEW w \in Workers, SI!SyncTrustLevel(w)
  PROVE  SiIInv'
<1> DEFINE us == [users EXCEPT ![signIns[w].row].level = signIns[w].level]
<1>1. /\ UNCHANGED <<now, redis, options, oauthStates, pending, invites, discovery, signHist, starts>>
      /\ signIns' = [signIns EXCEPT ![w] = SI!Idle] /\ users' = us
  BY DEF SI!SyncTrustLevel, SI!Stop
<1>2. users \in Seq(SI!NamedUser) /\ signIns[w].level \in Nat
  BY SiTypes DEF SiJob
<1>3. /\ DOMAIN us = DOMAIN users
      /\ \A i \in DOMAIN users : us[i] \in SI!NamedUser /\ us[i].name = users[i].name /\ us[i].ids = users[i].ids
  <2> SUFFICES ASSUME NEW i \in DOMAIN users
               PROVE  us[i] \in SI!NamedUser /\ us[i].name = users[i].name /\ us[i].ids = users[i].ids
    OBVIOUS
  <2>1. users[i] \in SI!NamedUser
    BY <1>2
  <2>2. us[i] = users[i] \/ us[i] = [users[i] EXCEPT !.level = signIns[w].level]
    OBVIOUS
  <2> QED
    BY <1>2, <2>1, <2>2 DEF SI!NamedUser
<1>4. us \in Seq(SI!NamedUser)
  <2>1. us = [i \in DOMAIN users |-> us[i]]
    OBVIOUS
  <2> HIDE DEF us
  <2>2. us \in [DOMAIN users -> SI!NamedUser]
    BY <1>3, <2>1
  <2> QED
    BY <1>2, <2>2
<1> HIDE DEF us
<1>5. SiTables' /\ SiWork'
  BY <1>1, <1>3, SiEdits
<1>6. SiFetch'
  BY <1>1, SiConstants, SiFetchesStay
<1>7. SiTyped' /\ SiStates'
  BY <1>1, <1>4, SiTyping DEF SiTyped, SiIInv, SiStates
<1> QED
  BY <1>5, <1>6, <1>7, SiTyping DEF SiIInv, SiWork

LEMMA SiBans ==
  ASSUME SiIInv, NEW k \in DOMAIN users, SI!BanUser(k)
  PROVE  SiIInv'
<1> DEFINE us == [users EXCEPT ![k].active = FALSE]
<1>1. /\ UNCHANGED <<now, redis, options, oauthStates, pending, invites, discovery, signIns, signHist>>
      /\ starts' = starts + 1 /\ users' = us
  BY DEF SI!BanUser, SI!Request
<1>2. users \in Seq(SI!NamedUser)
  BY SiTypes
<1>3. /\ DOMAIN us = DOMAIN users
      /\ \A i \in DOMAIN users : us[i] \in SI!NamedUser /\ us[i].name = users[i].name /\ us[i].ids = users[i].ids
  <2> SUFFICES ASSUME NEW i \in DOMAIN users
               PROVE  us[i] \in SI!NamedUser /\ us[i].name = users[i].name /\ us[i].ids = users[i].ids
    OBVIOUS
  <2>1. users[i] \in SI!NamedUser
    BY <1>2
  <2>2. us[i] = users[i] \/ us[i] = [users[i] EXCEPT !.active = FALSE]
    OBVIOUS
  <2> QED
    BY <2>1, <2>2 DEF SI!NamedUser
<1>4. us \in Seq(SI!NamedUser)
  <2>1. us = [i \in DOMAIN users |-> us[i]]
    OBVIOUS
  <2> HIDE DEF us
  <2>2. us \in [DOMAIN users -> SI!NamedUser]
    BY <1>3, <2>1
  <2> QED
    BY <1>2, <2>2
<1> HIDE DEF us
<1>5. SiTables' /\ SiWork'
  BY <1>1, <1>3, SiEdits
<1>6. SiTyped' /\ SiStates' /\ SiFetch'
  BY <1>1, <1>4, SiTyping DEF SiTyped, SiIInv, SiStates, SiFetch, SiFetches
<1> QED
  BY <1>5, <1>6, SiTyping DEF SiIInv, SiWork

\* A user u is created for d.
LEMMA SiAppends ==
  ASSUME SiIInv, NEW w \in Workers, NEW d \in SI!Identity, NEW u \in SI!NamedUser, Skeleton(d, u), NEW p, SI!NameFree(u.name),
         users' = Append(users, u), signHist' = SI!Mark(w, d, p), Open(users, signHist.raced, d, u),
         UNCHANGED <<redis, pending>>, p \in DOMAIN pending => pending[p].user.name = u.name,
         NEW y \in SiJob, SiShape(y), y.step \in {"idle", "drop"}, signIns' = [signIns EXCEPT ![w] = y],
         y.step # "idle" /\ y.session \in DOMAIN pending => y.user = pending[y.session].user
  PROVE  /\ SiTables' /\ SiWork' /\ users' \in Seq(SI!NamedUser)
         /\ signHist' \in SI!SignHist /\ signHist'.passed = signHist.passed /\ signHist'.refetched = signHist.refetched
<1> DEFINE us == Append(users, u)
           ra == signHist'.raced
           k == Len(users) + 1
<1>1. users \in Seq(SI!NamedUser) /\ Len(users) \in Nat /\ DOMAIN users = 1..Len(users)
  BY SiTypes
<1>2. us \in Seq(SI!NamedUser) /\ DOMAIN us = DOMAIN users \cup {k} /\ us[k] = u /\ \A i \in DOMAIN users : us[i] = users[i]
  BY <1>1
<1>3. k \notin DOMAIN users
  BY <1>1
<1>4. /\ signHist' \in SI!SignHist /\ signHist'.passed = signHist.passed /\ signHist'.refetched = signHist.refetched
      /\ signHist.raced \subseteq ra /\ (SI!Busy(w, d, p) => d \in ra)
  BY SiMarks
<1>5. users' = us /\ signHist'.raced = ra
  OBVIOUS
<1> HIDE DEF us, k, ra
<1>6. \A e : e # d => Has(us, e) \subseteq Has(users, e)
  BY <1>2 DEF Has, Skeleton
<1>7. /\ \A n : Taken(users, n) => Taken(us, n)
      /\ Taken(us, u.name)
  BY <1>2 DEF Taken
<1>8. d \in ra \/ \A i, j \in Has(us, d) : i = j
  <2>1. ~Taken(users, u.name)
    BY DEF SI!NameFree, Taken
  <2>2. d \in signHist.raced \/ Has(users, d) = {}
    BY <2>1 DEF Open
  <2>3. CASE Has(users, d) = {}
    <3>1. Has(us, d) \subseteq {k}
      BY <1>2, <2>3 DEF Has
    <3> QED
      BY <3>1
  <2> QED
    BY <1>4, <2>2, <2>3
<1>9. \A v \in Workers \ {w} : signIns[v].step # "idle" /\ signIns[v].id = d => d \in ra
  BY <1>4 DEF SI!Busy, SI!At
<1>10. \A q \in DOMAIN pending : d \in pending[q].user.ids => d \in ra \/ Taken(us, pending[q].user.name)
  BY <1>4, <1>7 DEF SI!Busy
<1>11. SiNames'
  <2>1. \A i, j \in DOMAIN us : us[i].name = us[j].name => i = j
    BY <1>2 DEF SI!NameFree, SiIInv, SiTables, SiNames
  <2>2. \A i \in DOMAIN us : \A e \in us[i].ids : e.provider \in ByName => us[i].name = NameOf(e)
    BY <1>2 DEF Skeleton, SiIInv, SiTables, SiNames
  <2> QED
    BY <1>5, <2>1, <2>2 DEF SiNames
<1>12. SiTables' /\ SiWork'
  <2>1. Written(w, d, us, ra)
    BY <1>4, <1>6, <1>7, <1>8, <1>9, <1>10 DEF Written
  <2> QED
    BY <1>5, <1>11, <2>1, SiWrites
<1> QED
  BY <1>2, <1>4, <1>5, <1>12

LEMMA SiCreates ==
  ASSUME SiIInv, NEW w \in Workers, SI!CreateUser(w)
  PROVE  SiIInv'
<1> DEFINE x == signIns[w]
           u == x.user
           d == x.id
<1>1. /\ UNCHANGED <<now, redis, options, oauthStates, pending, invites, discovery, starts>>
      /\ signIns' = [signIns EXCEPT ![w] = SI!Idle] /\ x.step = "create"
  BY DEF SI!CreateUser, SI!Stop, SI!At
<1>2. SiFetch' \/ signHist'.refetched # signHist.refetched
  BY <1>1, SiConstants, SiFetchesStay
<1>3. CASE SI!NameFree(u.name) /\ users' = Append(users, u) /\ signHist' = SI!Mark(w, d, None)
  <2>1. x \in SiJob /\ SiShape(x)
    BY SiTypes
  <2>2. d \in SI!Identity /\ u \in SI!NamedUser /\ Skeleton(d, u)
    BY <1>1, <2>1 DEF SiShape, Creating, SiJob
  <2>3. Open(users, signHist.raced, d, u)
    BY <1>1 DEF SiIInv, SiWork, SiOpen, Creating
  <2>4. None \notin DOMAIN pending
    BY AccessAssumption DEF SiIInv, SI!TypeOK
  <2> HIDE DEF u, d, x
  <2>5. /\ SiTables' /\ SiWork' /\ users' \in Seq(SI!NamedUser)
        /\ signHist' \in SI!SignHist /\ signHist'.passed = signHist.passed /\ signHist'.refetched = signHist.refetched
    BY <1>1, <1>3, <2>2, <2>3, <2>4, SiConstants, SiAppends
  <2>6. SiTyped' /\ SiStates'
    BY <1>1, <2>5, SiTyping DEF SiTyped, SiIInv, SiStates
  <2> QED
    BY <1>2, <2>5, <2>6, SiTyping DEF SiIInv, SiWork
<1>4. CASE UNCHANGED <<users, signHist>>
  <2>1. SiTables' /\ SiWork'
    BY <1>1, <1>4, SiStops
  <2> QED
    BY <1>1, <1>2, <1>4, <2>1, SiKeeps
<1> QED
  BY <1>3, <1>4 DEF SI!CreateUser

LEMMA SiTransaction ==
  ASSUME SiIInv, NEW w \in Workers, SI!InvitationTransaction(w)
  PROVE  SiIInv'
<1> DEFINE x == signIns[w]
           u == [x.user EXCEPT !.invite = x.invite]
           d == x.id
           p == x.session
           n == x.used + 1
           b == ~(MaxUses > 0 /\ n >= MaxUses)
           y == [x EXCEPT !.step = "drop"]
<1>1. UNCHANGED <<now, redis, options, oauthStates, pending, discovery, starts>> /\ x.step = "transaction"
  BY DEF SI!InvitationTransaction, SI!At
<1>2. CASE /\ SI!NameFree(x.user.name) /\ users' = Append(users, u) /\ signHist' = SI!Mark(w, d, p)
           /\ invites' = [invites EXCEPT ![x.invite] = [used |-> n, open |-> b]] /\ SI!Go(w, "drop")
  <2>1. x \in SiJob /\ SiShape(x)
    BY SiTypes
  <2>2. d \in SI!Identity /\ x.user \in SI!NamedUser /\ Skeleton(d, x.user) /\ x.invite \in Invites /\ n \in Nat /\ b \in BOOLEAN
    BY <1>1, <2>1 DEF SiShape, Creating, SiJob
  <2>3. u \in SI!NamedUser /\ u.name = x.user.name /\ u.ids = x.user.ids
    BY <2>2 DEF SI!NamedUser
  <2>4. Open(users, signHist.raced, d, x.user)
    BY <1>1 DEF SiIInv, SiWork, SiOpen, Creating
  <2>5. p \in DOMAIN pending => pending[p].user = x.user
    BY <1>1 DEF SiIInv, SiWork, SiPending
  <2>6. signIns' = [signIns EXCEPT ![w] = y]
    BY <1>2 DEF SI!Go
  <2>7. y \in SiJob /\ y.step = "drop" /\ y.id = d /\ y.session = p /\ y.user = x.user
    BY <2>1 DEF SiJob, SI!Steps
  <2> HIDE DEF u, d, x, y, n, b, p
  <2>8. SiShape(y)
    BY <2>2, <2>7 DEF SiShape, Late, Creating
  <2>9. Skeleton(d, u) /\ Open(users, signHist.raced, d, u) /\ SI!NameFree(u.name)
    BY <1>2, <2>2, <2>3, <2>4 DEF Skeleton, Open
  <2>10. p \in DOMAIN pending => pending[p].user.name = u.name
    BY <2>3, <2>5
  <2>11. /\ SiTables' /\ SiWork' /\ users' \in Seq(SI!NamedUser)
         /\ signHist' \in SI!SignHist /\ signHist'.passed = signHist.passed /\ signHist'.refetched = signHist.refetched
    BY <1>1, <1>2, <2>2, <2>3, <2>5, <2>6, <2>7, <2>8, <2>9, <2>10, SiAppends
  <2>12. invites' \in [Invites -> [used : Nat, open : BOOLEAN]]
    <3>1. [used |-> n, open |-> b] \in [used : Nat, open : BOOLEAN]
      BY <2>2
    <3>2. invites \in [Invites -> [used : Nat, open : BOOLEAN]]
      BY SiTyping DEF SiTyped
    <3> QED
      BY <1>2, <3>1, <3>2
  <2>13. SiTyped' /\ SiStates'
    BY <1>1, <2>11, <2>12, SiTyping DEF SiTyped, SiIInv, SiStates
  <2>14. SiFetch'
    BY <1>1, <2>6, <2>7, <2>11, SiFetchesStay
  <2> QED
    BY <2>11, <2>13, <2>14, SiTyping DEF SiIInv, SiWork
<1>3. CASE SI!Stop(w) /\ UNCHANGED <<users, invites, signHist>>
  <2>1. signIns' = [signIns EXCEPT ![w] = SI!Idle]
    BY <1>3 DEF SI!Stop
  <2>2. SiTables' /\ SiWork'
    BY <1>1, <1>3, <2>1, SiStops
  <2>3. SiFetch'
    BY <1>1, <1>3, <2>1, SiConstants, SiFetchesStay
  <2> QED
    BY <1>1, <1>3, <2>2, <2>3, SiKeeps
<1> QED
  BY <1>2, <1>3 DEF SI!InvitationTransaction

LEMMA SiBindsTelegram ==
  ASSUME SiIInv, NEW w \in Workers, SI!BindTelegram(w)
  PROVE  SiIInv'
<1> DEFINE d == signIns[w].id
           r == signIns[w].row
           us == [users EXCEPT ![r].ids = {e \in @ : e.provider # "telegram"} \cup {d}]
           ra == signHist'.raced
<1>1. /\ UNCHANGED <<now, redis, options, oauthStates, pending, invites, discovery, starts>>
      /\ signIns' = [signIns EXCEPT ![w] = SI!Idle] /\ users' = us /\ signIns[w].step = "bind" /\ signHist' = SI!Mark(w, d, None)
  BY DEF SI!BindTelegram, SI!Stop, SI!At
<1>2. users \in Seq(SI!NamedUser) /\ d \in SI!Identity /\ d.provider = "telegram"
  BY <1>1, SiTypes DEF SiShape
<1>3. /\ signHist' \in SI!SignHist /\ signHist'.passed = signHist.passed /\ signHist'.refetched = signHist.refetched
      /\ signHist.raced \subseteq ra /\ (SI!Busy(w, d, None) => d \in ra)
  <2> HIDE DEF d
  <2> QED
    BY <1>1, <1>2, SiMarks
<1>4. d \in signHist.raced \/ Has(users, d) \subseteq {r}
  BY <1>1 DEF SiIInv, SiWork, SiBinds
<1>5. /\ DOMAIN us = DOMAIN users
      /\ \A i \in DOMAIN users :
           /\ us[i] \in SI!NamedUser /\ us[i].name = users[i].name
           /\ us[i].ids \subseteq users[i].ids \cup {d}
           /\ d \in us[i].ids => i = r \/ d \in users[i].ids
  <2> SUFFICES ASSUME NEW i \in DOMAIN users
               PROVE  /\ us[i] \in SI!NamedUser /\ us[i].name = users[i].name
                      /\ us[i].ids \subseteq users[i].ids \cup {d}
                      /\ d \in us[i].ids => i = r \/ d \in users[i].ids
    OBVIOUS
  <2>1. users[i] \in SI!NamedUser
    BY <1>2
  <2> DEFINE ids == {e \in users[i].ids : e.provider # "telegram"} \cup {d}
  <2>2. IF i = r THEN us[i] = [users[i] EXCEPT !.ids = ids] ELSE us[i] = users[i]
    OBVIOUS
  <2>3. ids \subseteq users[i].ids \cup {d} /\ ids \subseteq SI!Identity
    BY <1>2, <2>1 DEF SI!NamedUser
  <2> HIDE DEF ids, us
  <2> QED
    BY <2>1, <2>2, <2>3 DEF SI!NamedUser
<1>6. us \in Seq(SI!NamedUser)
  <2>1. us = [i \in DOMAIN users |-> us[i]]
    OBVIOUS
  <2> HIDE DEF us
  <2>2. us \in [DOMAIN users -> SI!NamedUser]
    BY <1>5, <2>1
  <2> QED
    BY <1>2, <2>2
<1>7. signHist'.raced = ra
  OBVIOUS
<1> HIDE DEF us, ra, d, r
<1>8. \A e : e # d => Has(us, e) \subseteq Has(users, e)
  BY <1>5 DEF Has
<1>9. \A n : Taken(users, n) => Taken(us, n)
  BY <1>5 DEF Taken
<1>10. d \in ra \/ \A i, j \in Has(us, d) : i = j
  <2>1. CASE Has(users, d) \subseteq {r}
    <3>1. Has(us, d) \subseteq {r}
      BY <1>5, <2>1 DEF Has
    <3> QED
      BY <3>1
  <2> QED
    BY <1>3, <1>4, <2>1
<1>11. \A v \in Workers \ {w} : signIns[v].step # "idle" /\ signIns[v].id = d => d \in ra
  BY <1>3 DEF SI!Busy, SI!At
<1>12. \A q \in DOMAIN pending : d \in pending[q].user.ids => d \in ra
  <2>1. None \notin DOMAIN pending
    BY AccessAssumption DEF SiIInv, SI!TypeOK
  <2> QED
    BY <1>3, <2>1 DEF SI!Busy
<1>13. SiNames'
  <2>1. \A i, j \in DOMAIN us : us[i].name = us[j].name => i = j
    BY <1>5 DEF SiIInv, SiTables, SiNames
  <2>2. \A i \in DOMAIN us : \A e \in us[i].ids : e.provider \in ByName => us[i].name = NameOf(e)
    <3>1. d.provider \notin ByName
      BY <1>2 DEF ByName
    <3> QED
      BY <1>5, <3>1 DEF SiIInv, SiTables, SiNames
  <2> QED
    BY <1>1, <2>1, <2>2 DEF SiNames
<1>14. SiTables' /\ SiWork'
  <2>1. Written(w, d, us, ra)
    BY <1>3, <1>8, <1>9, <1>10, <1>11, <1>12 DEF Written
  <2> QED
    BY <1>1, <1>7, <1>13, <2>1, SiConstants, SiWrites
<1>15. SiFetch'
  BY <1>1, <1>3, SiConstants, SiFetchesStay
<1>16. SiTyped' /\ SiStates'
  BY <1>1, <1>3, <1>6, SiTyping DEF SiTyped, SiIInv, SiStates
<1> QED
  BY <1>14, <1>15, <1>16, SiTyping DEF SiIInv, SiWork

---------------------------------------------------------------------------
(* Sign-in: every step. *)

LEMMA SiStep == SiIInv /\ SI!Next => SiIInv'
<1> SUFFICES ASSUME SiIInv, SI!Next PROVE SiIInv'
  OBVIOUS
<1>1. CASE SI!generateState \/ SI!Restart \/ SI!Tick
  BY <1>1, SiGenerates, SiRestart, SiTick
<1>2. CASE \E o \in [register : BOOLEAN, invitation : BOOLEAN] : o # options /\ SI!SetOptions(o)
  BY <1>2, SiSetOptions
<1>3. CASE \E i \in DOMAIN users : SI!BanUser(i)
  BY <1>3, SiBans
<1>4. ASSUME NEW w \in Workers, NEW q \in Users, NEW s \in Ids,
             \/ SI!GitHubCallback(w, q, s) \/ SI!DiscordCallback(w, q, s) \/ SI!OIDCCallback(w, q, s) \/ SI!WechatCallback(w, q, s)
             \/ \E level \in 0..(MinTrust + 1) : SI!LinuxDOCallback(w, q, s, level)
      PROVE  SiIInv'
  <2>1. PICK p \in SI!Providers, level \in Nat : SI!Callback(w, p, q, s, level)
    <3>1. \A level \in 0..(MinTrust + 1) : level \in Nat
      BY AccessAssumption
    <3> QED
      BY <1>4, <3>1 DEF SI!GitHubCallback, SI!DiscordCallback, SI!OIDCCallback, SI!WechatCallback, SI!LinuxDOCallback, SI!Providers
  <2> QED
    BY <2>1, SiCallback
<1>5. ASSUME NEW w \in Workers, NEW q \in Users, SI!TelegramCallback(w, q) \/ \E i \in DOMAIN users : SI!TelegramBind(w, i, q)
      PROVE  SiIInv'
  BY <1>5, SiTelegramCallback, SiTelegramBind
<1>6. ASSUME NEW w \in Workers, NEW p \in Ids, NEW i \in Invites, SI!CompleteOAuthRegistration(w, p, i)
      PROVE  SiIInv'
  BY <1>6, SiCompletes
<1>7. ASSUME NEW w \in Workers, SI!DelState(w) \/ SI!fetchOIDCDiscovery(w) \/ SI!LockDiscovery(w) \/ SI!Fetched(w) \/ SI!MaxId(w)
      PROVE  SiIInv'
  BY <1>7, SiDelState, SiDiscovers, SiLocks, SiFetched, SiMaxId
<1>8. ASSUME NEW w \in Workers,
             \/ SI!createOAuthUser(w) \/ SI!CreateUser(w) \/ SI!SyncTrustLevel(w) \/ SI!ReadInvitation(w)
             \/ SI!InvitationTransaction(w) \/ SI!deletePendingOAuthSession(w) \/ SI!BindTelegram(w)
      PROVE  SiIInv'
  BY <1>8, SiFinds, SiCreates, SiSyncs, SiReadsInvitation, SiTransaction, SiDrops, SiBindsTelegram
<1> QED
  BY <1>1, <1>2, <1>3, <1>4, <1>5, <1>6, <1>7, <1>8 DEF SI!Next

LEMMA SiStill ==
  ASSUME SiIInv, UNCHANGED <<now, redis, starts, options, oauthStates, users, pending, invites, discovery, signIns, signHist>>
  PROVE  SiIInv'
<1>1. SiTables' /\ SiWork'
  BY SiRests
<1>2. SiFetch'
  BY DEF SiIInv, SiFetch, SiFetches
<1> QED
  BY <1>1, <1>2, SiKeeps

LEMMA SiImplies == SiIInv => SI!SignInInv
<1> SUFFICES ASSUME SiIInv PROVE SI!SignInInv
  OBVIOUS
<1>1. \A s \in Ids : signHist.passed[s] > 1 => redis
  BY SiTypes DEF SiIInv, SiStates
<1>2. ASSUME NEW i \in DOMAIN users, NEW j \in DOMAIN users, NEW d \in users[i].ids \cap users[j].ids, i # j
      PROVE  d.provider \in {"wechat", "telegram"} /\ d \in signHist.raced
  <2>1. d \in signHist.raced
    BY <1>2 DEF SiIInv, SiTables, SiOne
  <2>2. d \in SI!Identity
    BY <2>1, SiTypes
  <2>3. d.provider \notin ByName
    BY <1>2 DEF SiIInv, SiTables, SiNames
  <2> QED
    BY <2>1, <2>2, <2>3 DEF SI!Identity, SI!Providers, ByName
<1>3. SI!TypeOK /\ signHist.refetched = FALSE
  BY DEF SiIInv, SiFetch
<1> QED
  BY <1>1, <1>2, <1>3 DEF SI!SignInInv, SI!StatesServeOnce, SI!OneUserPerIdentity
---------------------------------------------------------------------------
(* Keys of Codex channels: the inductive invariant. *)

CoKey == [account : Flows \cup {0}, grant : Flows \cup {0}, serial : Nat]
CoJob == [pc : {"idle", "exchange", "delete", "save", "refresh"}, id : CO!Slots, state : Flows \cup {0}, key : CoKey]
CoHist == [made : SUBSET Flows, overlap : BOOLEAN, broken : BOOLEAN, misfit : BOOLEAN, crossed : SUBSET Flows,
           erased : SUBSET Flows, last : Flows \cup {0}]

CoTyped ==
  /\ now \in Nat /\ starts \in 0..Starts["CO"] /\ flowStore \in [CO!Slots -> [state : Flows \cup {0}, at : Nat]]
  /\ codes \in [Flows -> {"absent", "issued", "spent"}] /\ serial \in [Flows -> Nat]
  /\ codexRow \in [there : BOOLEAN, key : CoKey] /\ codexJobs \in [Workers -> CoJob] /\ codexHist \in CoHist

\* A key that was obtained names the account its tokens are of, and the code for it is spent.
Obtained(spent, k) == k.account = k.grant /\ k.grant \in Flows /\ spent[k.grant] = "spent"
CoRow == (codexRow.key # CO!NoKey => Obtained(codes, codexRow.key)) /\ (~codexRow.there => codexRow.key = CO!NoKey)
\* What a request's step says of its fields.
CoShape(spent, x) ==
  /\ x.pc = "exchange" => x.state \in Flows /\ x.key.account = x.state
  /\ x.pc = "delete" => x.state \in Flows
  /\ x.pc \in {"delete", "save"} /\ x.state # 0 => x.key.grant = x.state /\ x.key.serial = 0
  /\ x.pc \in {"delete", "save", "refresh"} => Obtained(spent, x.key)
  /\ x.pc \in {"save", "refresh"} => x.id = 1
  /\ x.pc = "refresh" => x.state = 0
CoShapes == \A w \in Workers : CoShape(codes, codexJobs[w])

\* Nobody has refreshed what is not obtained yet.
CoFresh == \A f \in Flows : codes[f] # "spent" => serial[f] = 0

\* The flow of a channel under completion is the one completed, or was started meanwhile.
Passing(x, store, crossed) == x.pc \in {"exchange", "delete"} => store[x.id].state \in {0, x.state} \cup crossed
CoFlows == /\ \A w \in Workers : Passing(codexJobs[w], flowStore, codexHist.crossed)
           /\ codexHist.misfit = FALSE /\ codexHist.erased \subseteq codexHist.crossed

\* Requests on the key of the channel exclude one another unless they overlapped,
OnKey(x) == x.pc # "idle" /\ x.id = 1
CoAlone == codexHist.overlap = FALSE => \A v, w \in Workers : OnKey(codexJobs[v]) /\ OnKey(codexJobs[w]) => v = w
\* and what such a request holds is the newest there is:
Newest(x, good, last) ==
  /\ x.pc \in {"delete", "save"} /\ x.state # 0 /\ x.id = 1 => good[x.state] = 0
  /\ x.pc = "save" /\ x.state = 0 => x.key.grant = last /\ x.key.serial = good[last]
  /\ x.pc = "refresh" => x.key.grant = last
\* tokens refreshed and not saved yet, or the row's.
Unsaved(jobs) == \E w \in Workers : jobs[w].pc = "save" /\ jobs[w].state = 0
RowNewest(k, good, last) == k # CO!NoKey => k.grant = last /\ k.serial = good[last]
CoNewest ==
  codexHist.overlap = FALSE /\ codexHist.broken = FALSE =>
    /\ \A w \in Workers : Newest(codexJobs[w], serial, codexHist.last)
    /\ Unsaved(codexJobs) \/ RowNewest(codexRow.key, serial, codexHist.last)

CoIInv == CoTyped /\ CoRow /\ CoShapes /\ CoFresh /\ CoFlows /\ CoAlone /\ CoNewest

---------------------------------------------------------------------------
(* Codex keys: what changes and what stays. *)

LEMMA CoConstants ==
  /\ CO!NoKey \in CoKey /\ CO!NoKey.account = 0 /\ CO!NoKey.grant = 0
  /\ CO!Idle \in CoJob /\ CO!Idle.pc = "idle" /\ ~OnKey(CO!Idle)
  /\ 0 \notin Flows /\ 0 \in CO!Slots /\ 1 \in CO!Slots
  /\ CO!NoFlow \in [state : Flows \cup {0}, at : Nat] /\ CO!NoFlow.state = 0
<1>1. CO!NoKey \in CoKey /\ CO!NoKey.account = 0 /\ CO!NoKey.grant = 0
  BY DEF CO!NoKey, CoKey
<1>2. CO!Idle \in CoJob /\ CO!Idle.pc = "idle"
  BY <1>1 DEF CO!Idle, CoJob, CO!Slots
<1>3. 0 \notin Flows /\ 0 \in CO!Slots /\ 1 \in CO!Slots
  BY AccessAssumption DEF CO!Slots
<1>4. CO!NoFlow \in [state : Flows \cup {0}, at : Nat] /\ CO!NoFlow.state = 0
  BY DEF CO!NoFlow
<1> QED
  BY <1>1, <1>2, <1>3, <1>4 DEF OnKey

LEMMA CoTypes ==
  ASSUME CoTyped
  PROVE  /\ codexHist \in CoHist /\ codexHist.made \in SUBSET Flows /\ codexHist.overlap \in BOOLEAN /\ codexHist.broken \in BOOLEAN
         /\ codexHist.crossed \in SUBSET Flows /\ codexHist.erased \in SUBSET Flows /\ codexHist.last \in Flows \cup {0}
         /\ codexRow.there \in BOOLEAN /\ codexRow.key \in CoKey
         /\ \A w \in Workers : codexJobs[w] \in CoJob
<1>1. codexHist \in CoHist /\ codexRow \in [there : BOOLEAN, key : CoKey] /\ codexJobs \in [Workers -> CoJob]
  BY DEF CoTyped
<1> QED
  BY <1>1 DEF CoHist

LEMMA CoInit == CO!Init => CoIInv
<1> SUFFICES ASSUME CO!Init PROVE CoIInv
  OBVIOUS
<1>1. /\ now = 1 /\ starts = 0 /\ flowStore = [i \in CO!Slots |-> CO!NoFlow] /\ codes = [f \in Flows |-> "absent"]
      /\ serial = [f \in Flows |-> 0] /\ codexRow = [there |-> TRUE, key |-> CO!NoKey] /\ codexJobs = [w \in Workers |-> CO!Idle]
      /\ codexHist = [made |-> {}, overlap |-> FALSE, broken |-> FALSE, misfit |-> FALSE, crossed |-> {}, erased |-> {}, last |-> 0]
  BY DEF CO!Init
<1>2. /\ codexHist \in CoHist /\ codexHist.misfit = FALSE /\ codexHist.erased = {} /\ codexHist.crossed = {}
  BY <1>1 DEF CoHist
<1>3. codexRow \in [there : BOOLEAN, key : CoKey] /\ codexRow.key = CO!NoKey
  BY <1>1, CoConstants
<1>4. codexJobs \in [Workers -> CoJob] /\ \A w \in Workers : codexJobs[w] = CO!Idle
  BY <1>1, CoConstants
<1>5. CoTyped
  <2>1. flowStore \in [CO!Slots -> [state : Flows \cup {0}, at : Nat]]
    BY <1>1, CoConstants
  <2>2. starts \in 0..Starts["CO"]
    BY <1>1, AccessAssumption
  <2> QED
    BY <1>1, <1>2, <1>3, <1>4, <2>1, <2>2 DEF CoTyped
<1>6. CoRow /\ CoFresh
  BY <1>1, <1>3 DEF CoRow, CoFresh
<1>7. CoShapes /\ CoFlows /\ CoAlone
  BY <1>2, <1>4, CoConstants DEF CoShapes, CoShape, CoFlows, Passing, CoAlone
<1>8. CoNewest
  BY <1>3, <1>4, CoConstants DEF CoNewest, Newest, RowNewest
<1> QED
  BY <1>5, <1>6, <1>7, <1>8 DEF CoIInv

LEMMA CoTick ==
  ASSUME CoIInv, CO!Tick
  PROVE  CoIInv'
<1>1. now' = now + 1 /\ UNCHANGED <<starts, flowStore, codes, serial, codexRow, codexJobs, codexHist>>
  BY DEF CO!Tick
<1>2. CoTyped'
  BY <1>1 DEF CoIInv, CoTyped
<1>3. CoRow' /\ CoShapes' /\ CoFresh' /\ CoFlows'
  BY <1>1 DEF CoIInv, CoRow, CoShapes, CoFresh, CoFlows
<1>4. CoAlone' /\ CoNewest'
  BY <1>1 DEF CoIInv, CoAlone, CoNewest
<1> QED
  BY <1>2, <1>3, <1>4 DEF CoIInv

LEMMA CoRequest ==
  ASSUME CoIInv, CO!Request
  PROVE  starts' \in 0..Starts["CO"]
<1>1. starts \in 0..Starts["CO"] /\ starts < Starts["CO"] /\ starts' = starts + 1
  BY DEF CO!Request, CoIInv, CoTyped
<1> QED
  BY <1>1, AccessAssumption

LEMMA CoStarts ==
  ASSUME CoIInv, NEW id \in CO!Slots, CO!StartCodexOAuth(id)
  PROVE  CoIInv'
<1>1. UNCHANGED <<now, codes, serial, codexRow, codexJobs>> /\ starts' \in 0..Starts["CO"]
  BY CoRequest DEF CO!StartCodexOAuth
<1> DEFINE some == \E w \in Workers : ~CO!At(w, "idle") /\ ~CO!At(w, "refresh") /\ codexJobs[w].id = id
<1>2. PICK f \in Flows :
        /\ flowStore' = [flowStore EXCEPT ![id] = [state |-> f, at |-> now]]
        /\ codexHist' = [codexHist EXCEPT !.made = @ \cup {f}, !.crossed = IF some THEN @ \cup {f} ELSE @]
  BY DEF CO!StartCodexOAuth
<1>3. CoTyped /\ codexHist \in CoHist
  BY DEF CoIInv, CoTyped
<1> DEFINE c == IF some THEN codexHist.crossed \cup {f} ELSE codexHist.crossed
           m == codexHist.made \cup {f}
<1>4. codexHist' = [codexHist EXCEPT !.made = m, !.crossed = c]
  BY <1>2
<1>5. c \in SUBSET Flows /\ m \in SUBSET Flows /\ codexHist.crossed \subseteq c /\ (some => f \in c)
  BY <1>3, CoTypes
<1> HIDE DEF c, m, some
<1>6. /\ codexHist' \in CoHist /\ codexHist'.overlap = codexHist.overlap /\ codexHist'.broken = codexHist.broken
      /\ codexHist'.misfit = codexHist.misfit /\ codexHist'.erased = codexHist.erased /\ codexHist'.last = codexHist.last
      /\ codexHist'.crossed = c
  BY <1>3, <1>4, <1>5 DEF CoHist
<1>7. flowStore' \in [CO!Slots -> [state : Flows \cup {0}, at : Nat]]
  BY <1>2, <1>3 DEF CoTyped
<1>8. CoTyped'
  BY <1>1, <1>3, <1>6, <1>7 DEF CoTyped
<1>9. CoRow' /\ CoShapes' /\ CoFresh'
  BY <1>1 DEF CoIInv, CoRow, CoShapes, CoFresh
<1>10. CoFlows'
  <2>1. ASSUME NEW w \in Workers PROVE Passing(codexJobs[w], flowStore', c)
    <3>1. codexJobs[w].id \in CO!Slots /\ Passing(codexJobs[w], flowStore, codexHist.crossed)
      BY <1>3, CoTypes DEF CoJob, CoIInv, CoFlows
    <3>2. CASE codexJobs[w].id = id /\ codexJobs[w].pc \in {"exchange", "delete"}
      <4>1. f \in c
        BY <1>5, <3>2 DEF some, CO!At
      <4> QED
        BY <1>2, <1>3, <3>2, <4>1 DEF Passing, CoTyped
    <3>3. CASE codexJobs[w].id # id
      <4>1. flowStore'[codexJobs[w].id] = flowStore[codexJobs[w].id]
        BY <1>2, <1>3, <3>1, <3>3 DEF CoTyped
      <4> QED
        BY <1>5, <3>1, <4>1 DEF Passing
    <3> QED
      BY <3>2, <3>3 DEF Passing
  <2> QED
    BY <1>1, <1>5, <1>6, <2>1 DEF CoIInv, CoFlows
<1>11. CoAlone' /\ CoNewest'
  BY <1>1, <1>6 DEF CoIInv, CoAlone, CoNewest
<1> QED
  BY <1>8, <1>9, <1>10, <1>11 DEF CoIInv

LEMMA CoAuthorize ==
  ASSUME CoIInv, NEW f \in Flows, CO!Authorize(f)
  PROVE  CoIInv'
<1>1. /\ codes[f] = "absent" /\ codes' = [codes EXCEPT ![f] = "issued"]
      /\ UNCHANGED <<now, starts, flowStore, serial, codexRow, codexJobs, codexHist>>
  BY DEF CO!Authorize
<1>2. CoTyped
  BY DEF CoIInv
<1>3. CoTyped'
  BY <1>1, <1>2 DEF CoTyped
<1>4. \A k : Obtained(codes, k) => Obtained(codes', k)
  BY <1>1, <1>2 DEF Obtained, CoTyped
<1>5. CoRow' /\ CoShapes'
  BY <1>1, <1>4 DEF CoIInv, CoRow, CoShapes, CoShape
<1>6. CoFresh'
  BY <1>1, <1>2 DEF CoIInv, CoFresh, CoTyped
<1>7. CoFlows' /\ CoAlone' /\ CoNewest'
  BY <1>1 DEF CoIInv, CoFlows, CoAlone, CoNewest
<1> QED
  BY <1>3, <1>5, <1>6, <1>7 DEF CoIInv

LEMMA CoDeletesChannel ==
  ASSUME CoIInv, CO!DeleteChannel
  PROVE  CoIInv'
<1>1. /\ codexRow' = [there |-> FALSE, key |-> CO!NoKey] /\ starts' \in 0..Starts["CO"]
      /\ UNCHANGED <<now, flowStore, codes, serial, codexJobs, codexHist>>
  BY CoRequest DEF CO!DeleteChannel
<1>2. codexRow' \in [there : BOOLEAN, key : CoKey] /\ codexRow'.key = CO!NoKey
  BY <1>1, CoConstants
<1>3. CoTyped'
  BY <1>1, <1>2 DEF CoIInv, CoTyped
<1>4. CoRow' /\ CoShapes' /\ CoFresh' /\ CoFlows' /\ CoAlone'
  BY <1>1, <1>2 DEF CoIInv, CoRow, CoShapes, CoFresh, CoFlows, CoAlone
<1>5. CoNewest'
  BY <1>1, <1>2 DEF CoIInv, CoNewest, RowNewest
<1> QED
  BY <1>3, <1>4, <1>5 DEF CoIInv

LEMMA CoRestarts ==
  ASSUME CoIInv, CO!Restart
  PROVE  CoIInv'
<1>1. /\ flowStore' = [i \in CO!Slots |-> CO!NoFlow] /\ codexJobs' = [w \in Workers |-> CO!Idle] /\ starts' \in 0..Starts["CO"]
      /\ codexHist' = [codexHist EXCEPT !.broken = @ \/ CO!Busy] /\ UNCHANGED <<now, codes, serial, codexRow>>
  BY CoRequest DEF CO!Restart
<1> DEFINE b == codexHist.broken \/ CO!Busy
<1>2. b \in BOOLEAN /\ (b = FALSE => codexHist.broken = FALSE /\ ~CO!Busy)
  <2>1. codexHist.broken \in BOOLEAN
    BY CoTypes DEF CoIInv
  <2> QED
    BY <2>1, Zenon
<1>3. codexHist' = [codexHist EXCEPT !.broken = b]
  BY <1>1
<1> HIDE DEF b
<1>4. codexHist \in CoHist
  BY CoTypes DEF CoIInv
<1>5. /\ codexHist' \in CoHist /\ codexHist'.overlap = codexHist.overlap /\ codexHist'.broken = b
      /\ codexHist'.misfit = codexHist.misfit /\ codexHist'.erased = codexHist.erased /\ codexHist'.last = codexHist.last
      /\ codexHist'.crossed = codexHist.crossed
  BY <1>2, <1>3, <1>4 DEF CoHist
<1>6. codexJobs' \in [Workers -> CoJob] /\ \A w \in Workers : codexJobs'[w] = CO!Idle
  BY <1>1, CoConstants
<1>7. CoTyped'
  <2>1. flowStore' \in [CO!Slots -> [state : Flows \cup {0}, at : Nat]]
    BY <1>1, CoConstants
  <2> QED
    BY <1>1, <1>5, <1>6, <2>1 DEF CoIInv, CoTyped
<1>8. CoRow' /\ CoFresh'
  BY <1>1 DEF CoIInv, CoRow, CoFresh
<1>9. CoShapes' /\ CoFlows' /\ CoAlone'
  BY <1>5, <1>6, CoConstants DEF CoIInv, CoShapes, CoShape, CoFlows, Passing, CoAlone
<1>10. CoNewest'
  <2> SUFFICES ASSUME codexHist.overlap = FALSE, b = FALSE
               PROVE  /\ \A w \in Workers : Newest(codexJobs'[w], serial, codexHist.last)
                      /\ RowNewest(codexRow.key, serial, codexHist.last)
    BY <1>1, <1>5 DEF CoNewest
  <2>1. ~Unsaved(codexJobs)
    BY <1>2 DEF Unsaved, CO!Busy, CO!At
  <2> QED
    BY <1>2, <1>6, <2>1, CoConstants DEF CoIInv, CoNewest, Newest
<1> QED
  BY <1>7, <1>8, <1>9, <1>10 DEF CoIInv

---------------------------------------------------------------------------
(* Codex keys: requests. *)

\* Begun: what it keeps, and when it sees no overlap.
LEMMA CoBegun ==
  ASSUME CoIInv, NEW w \in Workers, codexHist' = CO!Begun(w)
  PROVE  /\ codexHist' \in CoHist /\ codexHist'.broken = codexHist.broken
         /\ codexHist'.misfit = codexHist.misfit /\ codexHist'.erased = codexHist.erased /\ codexHist'.last = codexHist.last
         /\ codexHist'.crossed = codexHist.crossed
         /\ codexHist'.overlap = FALSE => codexHist.overlap = FALSE /\ \A v \in Workers \ {w} : ~OnKey(codexJobs[v])
<1> DEFINE b == codexHist.overlap \/ \E v \in Workers \ {w} : ~CO!At(v, "idle") /\ codexJobs[v].id = 1
<1>1. b \in BOOLEAN /\ (b = FALSE => codexHist.overlap = FALSE /\ \A v \in Workers \ {w} : ~OnKey(codexJobs[v]))
  <2>1. codexHist.overlap \in BOOLEAN
    BY CoTypes DEF CoIInv
  <2> QED
    BY <2>1, Zenon DEF OnKey, CO!At
<1>2. codexHist' = [codexHist EXCEPT !.overlap = b]
  BY DEF CO!Begun
<1> HIDE DEF b
<1>3. codexHist \in CoHist
  BY CoTypes DEF CoIInv
<1>4. /\ codexHist' \in CoHist /\ codexHist'.broken = codexHist.broken
      /\ codexHist'.misfit = codexHist.misfit /\ codexHist'.erased = codexHist.erased /\ codexHist'.last = codexHist.last
      /\ codexHist'.crossed = codexHist.crossed /\ codexHist'.overlap = b
  BY <1>1, <1>2, <1>3 DEF CoHist
<1> QED
  BY <1>1, <1>4

\* The request of w is now y.
LEMMA CoPuts ==
  ASSUME CoTyped, NEW w \in Workers, NEW y \in CoJob, CO!Put(w, y)
  PROVE  codexJobs' \in [Workers -> CoJob] /\ codexJobs'[w] = y /\ \A v \in Workers \ {w} : codexJobs'[v] = codexJobs[v]
BY DEF CO!Put, CoTyped

\* A request that is alone on the key leaves the others nothing to promise.
LEMMA CoOthers ==
  ASSUME CoIInv, codexHist.overlap = FALSE, NEW w \in Workers, OnKey(codexJobs[w]), NEW v \in Workers, v # w
  PROVE  ~OnKey(codexJobs[v]) /\ codexJobs[v].pc \notin {"save", "refresh"} /\ \A good, last : Newest(codexJobs[v], good, last)
<1>1. ~OnKey(codexJobs[v])
  BY DEF CoIInv, CoAlone
<1>2. codexJobs[v].pc \notin {"save", "refresh"}
  BY <1>1 DEF OnKey, CoIInv, CoShapes, CoShape
<1> QED
  BY <1>1, <1>2 DEF Newest, OnKey

LEMMA CoCompletes ==
  ASSUME CoIInv, NEW w \in Workers, NEW id \in CO!Slots, NEW f \in Flows, CO!CompleteCodexOAuth(w, id, f)
  PROVE  CoIInv'
<1> DEFINE k == [CO!NoKey EXCEPT !.account = flowStore[id].state]
           y == [pc |-> "exchange", id |-> id, state |-> f, key |-> k]
<1>1. /\ UNCHANGED <<now, flowStore, codes, serial, codexRow>> /\ starts' \in 0..Starts["CO"] /\ codexJobs[w].pc = "idle"
      /\ flowStore[id].state = f /\ codexHist' = IF id = 1 THEN CO!Begun(w) ELSE codexHist
  BY CoRequest DEF CO!CompleteCodexOAuth, CO!At, CO!loadCodexFlow
<1>2. CO!Put(w, y)
  BY DEF CO!CompleteCodexOAuth
<1>3. CoTyped
  BY DEF CoIInv
<1>4. k \in CoKey /\ k.account = f
  BY <1>1, CoConstants DEF CoKey
<1> HIDE DEF k
<1>5. y \in CoJob /\ y.pc = "exchange" /\ y.id = id /\ y.state = f /\ y.key = k
  BY <1>4 DEF CoJob
<1> HIDE DEF y
<1>6. codexJobs' \in [Workers -> CoJob] /\ codexJobs'[w] = y /\ \A v \in Workers \ {w} : codexJobs'[v] = codexJobs[v]
  BY <1>2, <1>3, <1>5, CoPuts
<1>7. /\ codexHist' \in CoHist /\ codexHist'.broken = codexHist.broken
      /\ codexHist'.misfit = codexHist.misfit /\ codexHist'.erased = codexHist.erased /\ codexHist'.last = codexHist.last
      /\ codexHist'.crossed = codexHist.crossed
      /\ codexHist'.overlap = FALSE => codexHist.overlap = FALSE /\ (id = 1 => \A v \in Workers \ {w} : ~OnKey(codexJobs[v]))
  <2>1. CASE id = 1
    BY <1>1, <2>1, CoBegun
  <2>2. CASE id # 1
    BY <1>1, <1>3, <2>2, CoTypes
  <2> QED
    BY <2>1, <2>2
<1>8. CoTyped'
  BY <1>1, <1>3, <1>6, <1>7 DEF CoTyped
<1>9. CoRow' /\ CoFresh'
  BY <1>1 DEF CoIInv, CoRow, CoFresh
<1>10. CoShapes'
  <2>1. CoShape(codes, y)
    BY <1>4, <1>5 DEF CoShape
  <2> QED
    BY <1>1, <1>6, <2>1 DEF CoIInv, CoShapes
<1>11. CoFlows'
  <2>1. Passing(y, flowStore, codexHist.crossed)
    BY <1>1, <1>5 DEF Passing
  <2> QED
    BY <1>1, <1>6, <1>7, <2>1 DEF CoIInv, CoFlows
<1>12. CoAlone'
  BY <1>5, <1>6, <1>7 DEF CoIInv, CoAlone, OnKey
<1>13. CoNewest'
  <2>1. Newest(y, serial, codexHist.last)
    BY <1>5 DEF Newest
  <2>2. Unsaved(codexJobs) => Unsaved(codexJobs')
    BY <1>1, <1>6 DEF Unsaved
  <2> QED
    BY <1>1, <1>6, <1>7, <2>1, <2>2 DEF CoIInv, CoNewest
<1> QED
  BY <1>8, <1>9, <1>10, <1>11, <1>12, <1>13 DEF CoIInv

\* A request that is not saving ends, and codes may have been spent.
LEMMA CoEnds ==
  ASSUME CoIInv, NEW w \in Workers, CO!Put(w, CO!Idle), codexJobs[w].pc # "save",
         UNCHANGED <<now, starts, flowStore, serial, codexRow, codexHist>>,
         codes' \in [Flows -> {"absent", "issued", "spent"}], \A f \in Flows : codes[f] = "spent" => codes'[f] = "spent"
  PROVE  CoIInv'
<1>1. CoTyped
  BY DEF CoIInv
<1>2. codexJobs' \in [Workers -> CoJob] /\ codexJobs'[w] = CO!Idle /\ \A v \in Workers \ {w} : codexJobs'[v] = codexJobs[v]
  BY <1>1, CoPuts, CoConstants
<1>3. CoTyped'
  BY <1>1, <1>2 DEF CoTyped
<1>4. \A k : Obtained(codes, k) => Obtained(codes', k)
  BY DEF Obtained
<1>5. CoRow' /\ CoFresh'
  BY <1>4 DEF CoIInv, CoRow, CoFresh
<1>6. CoShapes'
  BY <1>2, <1>4, CoConstants DEF CoIInv, CoShapes, CoShape
<1>7. CoFlows' /\ CoAlone'
  BY <1>2, CoConstants DEF CoIInv, CoFlows, Passing, CoAlone
<1>8. CoNewest'
  <2>1. Unsaved(codexJobs) => Unsaved(codexJobs')
    BY <1>2 DEF Unsaved
  <2>2. Newest(CO!Idle, serial, codexHist.last)
    BY CoConstants DEF Newest
  <2> QED
    BY <1>2, <2>1, <2>2 DEF CoIInv, CoNewest
<1> QED
  BY <1>3, <1>5, <1>6, <1>7, <1>8 DEF CoIInv

LEMMA CoExchanges ==
  ASSUME CoIInv, NEW w \in Workers, CO!exchangeCodexAuthorizationCode(w)
  PROVE  CoIInv'
<1> DEFINE x == codexJobs[w]
           f == x.state
           k == [account |-> f, grant |-> f, serial |-> 0]
           y == [x EXCEPT !.pc = "delete", !.key = k]
<1>1. UNCHANGED <<now, starts, flowStore, serial, codexRow>> /\ x.pc = "exchange"
  BY DEF CO!exchangeCodexAuthorizationCode, CO!At
<1>2. x \in CoJob /\ f \in Flows /\ x.key.account = f /\ CoTyped
  BY <1>1, CoTypes DEF CoIInv, CoShapes, CoShape
<1>3. UNCHANGED codexHist
  <2>1. codexHist \in CoHist /\ codexHist.misfit = FALSE
    BY CoTypes DEF CoIInv, CoFlows
  <2>2. codexHist' = [codexHist EXCEPT !.misfit = @ \/ ~(x.key.account = x.state)]
    BY DEF CO!exchangeCodexAuthorizationCode
  <2>3. (codexHist.misfit \/ ~(x.key.account = x.state)) = FALSE
    BY <1>2, <2>1, Zenon
  <2>4. codexHist' = [codexHist EXCEPT !.misfit = FALSE]
    BY <2>2, <2>3
  <2> QED
    BY <2>1, <2>4 DEF CoHist
<1>4. CASE CO!Put(w, CO!Idle) /\ (codes' = [codes EXCEPT ![f] = "spent"] \/ UNCHANGED codes)
  <2>1. codes' \in [Flows -> {"absent", "issued", "spent"}] /\ \A g \in Flows : codes[g] = "spent" => codes'[g] = "spent"
    BY <1>2, <1>4 DEF CoTyped
  <2> QED
    BY <1>1, <1>3, <1>4, <2>1, CoEnds
<1>5. CASE codes[f] = "issued" /\ codes' = [codes EXCEPT ![f] = "spent"] /\ CO!Put(w, y)
  <2>1. k \in CoKey /\ k.account = f /\ k.grant = f /\ k.serial = 0
    BY <1>2 DEF CoKey
  <2>2. Passing(x, flowStore, codexHist.crossed)
    BY DEF CoIInv, CoFlows
  <2> HIDE DEF k
  <2>3. y \in CoJob /\ y.pc = "delete" /\ y.state = f /\ y.id = x.id /\ y.key = k
    BY <1>2, <2>1 DEF CoJob
  <2>4. CO!Put(w, y)
    BY <1>5
  <2> HIDE DEF y
  <2>5. codexJobs' \in [Workers -> CoJob] /\ codexJobs'[w] = y /\ \A v \in Workers \ {w} : codexJobs'[v] = codexJobs[v]
    BY <1>2, <2>3, <2>4, CoPuts
  <2>6. /\ codes' \in [Flows -> {"absent", "issued", "spent"}] /\ codes'[f] = "spent"
        /\ \A g \in Flows : codes[g] = "spent" => codes'[g] = "spent"
    BY <1>2, <1>5 DEF CoTyped
  <2>7. CoTyped'
    BY <1>1, <1>2, <1>3, <2>5, <2>6 DEF CoTyped
  <2>8. \A q : Obtained(codes, q) => Obtained(codes', q)
    BY <2>6 DEF Obtained
  <2>9. CoRow' /\ CoFresh'
    BY <1>1, <2>6, <2>8 DEF CoIInv, CoRow, CoFresh
  <2>10. CoShapes'
    <3>1. CoShape(codes', y)
      BY <1>2, <2>1, <2>3, <2>6 DEF CoShape, Obtained
    <3> QED
      BY <2>5, <2>8, <3>1 DEF CoIInv, CoShapes, CoShape
  <2>11. CoFlows'
    <3>1. Passing(y, flowStore, codexHist.crossed)
      BY <1>1, <2>2, <2>3 DEF Passing
    <3> QED
      BY <1>1, <1>3, <2>5, <3>1 DEF CoIInv, CoFlows
  <2>12. CoAlone'
    <3>1. OnKey(y) => OnKey(x)
      BY <1>1, <2>3 DEF OnKey
    <3> QED
      BY <1>3, <2>5, <3>1 DEF CoIInv, CoAlone
  <2>13. CoNewest'
    <3>1. serial[f] = 0
      BY <1>2, <1>5 DEF CoIInv, CoFresh
    <3>2. Newest(y, serial, codexHist.last)
      BY <2>3, <3>1 DEF Newest
    <3>3. Unsaved(codexJobs) => Unsaved(codexJobs')
      BY <1>1, <2>5 DEF Unsaved
    <3> QED
      BY <1>1, <1>3, <2>5, <3>2, <3>3 DEF CoIInv, CoNewest
  <2> QED
    BY <2>7, <2>9, <2>10, <2>11, <2>12, <2>13 DEF CoIInv
<1> QED
  BY <1>4, <1>5 DEF CO!exchangeCodexAuthorizationCode

LEMMA CoDeletesFlow ==
  ASSUME CoIInv, NEW w \in Workers, CO!deleteCodexFlow(w)
  PROVE  CoIInv'
<1> DEFINE x == codexJobs[w]
           y == IF x.id = 0 THEN CO!Idle ELSE [x EXCEPT !.pc = "save"]
           e == IF flowStore[x.id].state \in {0, x.state} THEN codexHist.erased ELSE codexHist.erased \cup {flowStore[x.id].state}
<1>1. /\ UNCHANGED <<now, starts, codes, serial, codexRow>> /\ x.pc = "delete" /\ flowStore' = [flowStore EXCEPT ![x.id] = CO!NoFlow]
      /\ codexHist' = [codexHist EXCEPT !.erased = e]
  BY DEF CO!deleteCodexFlow, CO!At
<1>2. CO!Put(w, y)
  BY DEF CO!deleteCodexFlow
<1>3. x \in CoJob /\ CoShape(codes, x) /\ x.state \in Flows /\ x.id \in CO!Slots /\ CoTyped
  BY <1>1, CoTypes DEF CoIInv, CoShapes, CoShape, CoJob
<1>4. y \in CoJob /\ (y = CO!Idle \/ (x.id = 1 /\ y.pc = "save" /\ y.state = x.state /\ y.id = x.id /\ y.key = x.key))
  BY <1>3, CoConstants DEF CoJob, CO!Slots
<1>5. e \in SUBSET Flows /\ e \subseteq codexHist.crossed
  <2>1. flowStore[x.id].state \in Flows \cup {0} /\ codexHist.erased \in SUBSET Flows
    BY <1>3, CoTypes DEF CoTyped
  <2>2. flowStore[x.id].state \in {0, x.state} \cup codexHist.crossed /\ codexHist.erased \subseteq codexHist.crossed
    BY <1>1 DEF CoIInv, CoFlows, Passing
  <2> QED
    BY <2>1, <2>2
<1> HIDE DEF y, e
<1>6. codexJobs' \in [Workers -> CoJob] /\ codexJobs'[w] = y /\ \A v \in Workers \ {w} : codexJobs'[v] = codexJobs[v]
  BY <1>2, <1>3, <1>4, CoPuts
<1>7. /\ codexHist' \in CoHist /\ codexHist'.broken = codexHist.broken /\ codexHist'.overlap = codexHist.overlap
      /\ codexHist'.misfit = codexHist.misfit /\ codexHist'.erased = e /\ codexHist'.last = codexHist.last
      /\ codexHist'.crossed = codexHist.crossed
  BY <1>1, <1>3, <1>5, CoTypes DEF CoHist
<1>8. /\ flowStore' \in [CO!Slots -> [state : Flows \cup {0}, at : Nat]]
      /\ \A i \in CO!Slots : flowStore'[i].state = 0 \/ flowStore'[i] = flowStore[i]
  BY <1>1, <1>3, CoConstants DEF CoTyped
<1>9. CoTyped'
  BY <1>1, <1>3, <1>6, <1>7, <1>8 DEF CoTyped
<1>10. CoRow' /\ CoFresh'
  BY <1>1 DEF CoIInv, CoRow, CoFresh
<1>11. CoShapes'
  <2>1. CoShape(codes, y)
    BY <1>1, <1>3, <1>4, CoConstants DEF CoShape
  <2> QED
    BY <1>1, <1>6, <2>1 DEF CoIInv, CoShapes
<1>12. CoFlows'
  <2>1. ASSUME NEW v \in Workers PROVE Passing(codexJobs'[v], flowStore', codexHist.crossed)
    <3>1. CASE v = w
      BY <1>4, <1>6, <3>1, CoConstants DEF Passing
    <3>2. CASE v # w
      <4>1. codexJobs[v].id \in CO!Slots /\ Passing(codexJobs[v], flowStore, codexHist.crossed) /\ codexJobs'[v] = codexJobs[v]
        BY <1>3, <1>6, <3>2, CoTypes DEF CoJob, CoIInv, CoFlows
      <4> QED
        BY <1>8, <4>1 DEF Passing
    <3> QED
      BY <3>1, <3>2
  <2> QED
    BY <1>5, <1>7, <2>1 DEF CoIInv, CoFlows
<1>13. CoAlone'
  <2>1. OnKey(y) => OnKey(x)
    BY <1>1, <1>4, CoConstants DEF OnKey
  <2> QED
    BY <1>6, <1>7, <2>1 DEF CoIInv, CoAlone
<1>14. CoNewest'
  <2>1. Newest(x, serial, codexHist.last) => Newest(y, serial, codexHist.last)
    BY <1>1, <1>3, <1>4, CoConstants DEF Newest
  <2>2. Unsaved(codexJobs) => Unsaved(codexJobs')
    BY <1>1, <1>6 DEF Unsaved
  <2> QED
    BY <1>1, <1>6, <1>7, <2>1, <2>2 DEF CoIInv, CoNewest
<1> QED
  BY <1>9, <1>10, <1>11, <1>12, <1>13, <1>14 DEF CoIInv

LEMMA CoSaves ==
  ASSUME CoIInv, NEW w \in Workers, CO!SaveKey(w)
  PROVE  CoIInv'
<1> DEFINE x == codexJobs[w]
           row == IF codexRow.there THEN [codexRow EXCEPT !.key = x.key] ELSE codexRow
           l == IF x.state # 0 THEN x.state ELSE codexHist.last
<1>1. UNCHANGED <<now, starts, flowStore, codes, serial>> /\ x.pc = "save" /\ CO!Put(w, CO!Idle)
  BY DEF CO!SaveKey, CO!At
<1>2. x \in CoJob /\ x.key \in CoKey /\ x.state \in Flows \cup {0} /\ CoShape(codes, x) /\ Obtained(codes, x.key) /\ OnKey(x) /\ CoTyped
  BY <1>1, CoTypes DEF CoIInv, CoShapes, CoShape, CoJob, OnKey
<1>3. codexJobs' \in [Workers -> CoJob] /\ codexJobs'[w] = CO!Idle /\ \A v \in Workers \ {w} : codexJobs'[v] = codexJobs[v]
  BY <1>1, <1>2, CoConstants, CoPuts
<1>4. codexHist \in CoHist /\ codexHist.last \in Flows \cup {0} /\ codexRow \in [there : BOOLEAN, key : CoKey]
  BY <1>2, CoTypes DEF CoTyped
<1>5. CoShapes' /\ CoFresh'
  BY <1>1, <1>3, CoConstants DEF CoIInv, CoShapes, CoShape, CoFresh
<1>6. CASE codexRow' = row /\ codexHist' = [codexHist EXCEPT !.last = l]
  <2>1. l \in Flows \cup {0}
    BY <1>2, <1>4
  <2>2. /\ row \in [there : BOOLEAN, key : CoKey] /\ row.there = codexRow.there
        /\ row.key = IF codexRow.there THEN x.key ELSE codexRow.key
    BY <1>2, <1>4
  <2>3. l = IF x.state # 0 THEN x.state ELSE codexHist.last
    OBVIOUS
  <2> HIDE DEF l, row
  <2>4. /\ codexHist' \in CoHist /\ codexHist'.broken = codexHist.broken /\ codexHist'.overlap = codexHist.overlap
        /\ codexHist'.misfit = codexHist.misfit /\ codexHist'.erased = codexHist.erased /\ codexHist'.last = l
        /\ codexHist'.crossed = codexHist.crossed
    BY <1>4, <1>6, <2>1 DEF CoHist
  <2>5. CoTyped'
    BY <1>1, <1>2, <1>3, <1>6, <2>2, <2>4 DEF CoTyped
  <2>6. CoRow'
    BY <1>1, <1>2, <1>6, <2>2 DEF CoIInv, CoRow
  <2>7. CoFlows' /\ CoAlone'
    BY <1>1, <1>3, <2>4, CoConstants DEF CoIInv, CoFlows, Passing, CoAlone
  <2>8. CoNewest'
    <3> SUFFICES ASSUME codexHist.overlap = FALSE, codexHist.broken = FALSE
                 PROVE  (\A v \in Workers : Newest(codexJobs'[v], serial, l)) /\ RowNewest(row.key, serial, l)
      BY <1>1, <1>6, <2>4 DEF CoNewest
    <3>1. \A v \in Workers : Newest(codexJobs'[v], serial, l)
      <4>1. Newest(CO!Idle, serial, l)
        BY CoConstants DEF Newest
      <4>2. \A v \in Workers \ {w} : Newest(codexJobs[v], serial, l)
        BY <1>2, CoOthers
      <4> QED
        BY <1>3, <4>1, <4>2
    <3>2. Newest(x, serial, codexHist.last)
      BY DEF CoIInv, CoNewest
    <3>3. RowNewest(x.key, serial, l)
      BY <1>1, <1>2, <2>3, <3>2 DEF RowNewest, Newest, CoShape
    <3>4. ~codexRow.there => codexRow.key = CO!NoKey
      BY DEF CoIInv, CoRow
    <3>5. RowNewest(row.key, serial, l)
      BY <2>2, <3>3, <3>4 DEF RowNewest
    <3> QED
      BY <3>1, <3>5
  <2> QED
    BY <1>5, <2>5, <2>6, <2>7, <2>8 DEF CoIInv
<1>7. CASE UNCHANGED codexRow /\ codexHist' = [codexHist EXCEPT !.broken = TRUE]
  <2>1. /\ codexHist' \in CoHist /\ codexHist'.broken = TRUE /\ codexHist'.overlap = codexHist.overlap
        /\ codexHist'.misfit = codexHist.misfit /\ codexHist'.erased = codexHist.erased
        /\ codexHist'.crossed = codexHist.crossed
    BY <1>4, <1>7 DEF CoHist
  <2>2. CoTyped'
    BY <1>1, <1>2, <1>3, <1>7, <2>1 DEF CoTyped
  <2>3. CoRow'
    BY <1>1, <1>7 DEF CoIInv, CoRow
  <2>4. CoFlows' /\ CoAlone'
    BY <1>1, <1>3, <2>1, CoConstants DEF CoIInv, CoFlows, Passing, CoAlone
  <2>5. CoNewest'
    BY <2>1 DEF CoNewest
  <2> QED
    BY <1>5, <2>2, <2>3, <2>4, <2>5 DEF CoIInv
<1> QED
  BY <1>6, <1>7 DEF CO!SaveKey

LEMMA CoBeginsRefresh ==
  ASSUME CoIInv, NEW w \in Workers, CO!RefreshCodexChannelCredential(w)
  PROVE  CoIInv'
<1> DEFINE k == codexRow.key
           y == [pc |-> "refresh", id |-> 1, state |-> 0, key |-> k]
<1>1. /\ UNCHANGED <<now, flowStore, codes, serial, codexRow>> /\ starts' \in 0..Starts["CO"] /\ codexJobs[w].pc = "idle"
      /\ k # CO!NoKey /\ codexHist' = CO!Begun(w) /\ CO!Put(w, y)
  BY CoRequest DEF CO!RefreshCodexChannelCredential, CO!At
<1>2. k \in CoKey /\ Obtained(codes, k) /\ CoTyped
  BY <1>1, CoTypes DEF CoIInv, CoRow
<1> HIDE DEF k
<1>3. y \in CoJob /\ y.pc = "refresh" /\ y.id = 1 /\ y.state = 0 /\ y.key = k
  BY <1>2, CoConstants DEF CoJob
<1> HIDE DEF y
<1>4. codexJobs' \in [Workers -> CoJob] /\ codexJobs'[w] = y /\ \A v \in Workers \ {w} : codexJobs'[v] = codexJobs[v]
  BY <1>1, <1>2, <1>3, CoPuts
<1>5. /\ codexHist' \in CoHist /\ codexHist'.broken = codexHist.broken
      /\ codexHist'.misfit = codexHist.misfit /\ codexHist'.erased = codexHist.erased /\ codexHist'.last = codexHist.last
      /\ codexHist'.crossed = codexHist.crossed
      /\ codexHist'.overlap = FALSE => codexHist.overlap = FALSE /\ \A v \in Workers \ {w} : ~OnKey(codexJobs[v])
  BY <1>1, CoBegun
<1>6. CoTyped'
  BY <1>1, <1>2, <1>4, <1>5 DEF CoTyped
<1>7. CoRow' /\ CoFresh'
  BY <1>1 DEF CoIInv, CoRow, CoFresh
<1>8. CoShapes'
  <2>1. CoShape(codes, y)
    BY <1>2, <1>3 DEF CoShape
  <2> QED
    BY <1>1, <1>4, <2>1 DEF CoIInv, CoShapes
<1>9. CoFlows'
  <2>1. Passing(y, flowStore, codexHist.crossed)
    BY <1>3 DEF Passing
  <2> QED
    BY <1>1, <1>4, <1>5, <2>1 DEF CoIInv, CoFlows
<1>10. CoAlone'
  BY <1>3, <1>4, <1>5 DEF CoIInv, CoAlone, OnKey
<1>11. CoNewest'
  <2> SUFFICES ASSUME codexHist'.overlap = FALSE, codexHist.broken = FALSE
               PROVE  /\ \A v \in Workers : Newest(codexJobs'[v], serial, codexHist.last)
                      /\ RowNewest(codexRow.key, serial, codexHist.last)
    BY <1>1, <1>5 DEF CoNewest
  <2>1. ~Unsaved(codexJobs)
    <3>1. \A v \in Workers : codexJobs[v].pc = "save" => v # w /\ OnKey(codexJobs[v])
      BY <1>1 DEF CoIInv, CoShapes, CoShape, OnKey
    <3> QED
      BY <1>5, <3>1 DEF Unsaved
  <2>2. (\A v \in Workers : Newest(codexJobs[v], serial, codexHist.last)) /\ RowNewest(codexRow.key, serial, codexHist.last)
    BY <1>5, <2>1 DEF CoIInv, CoNewest
  <2>3. Newest(y, serial, codexHist.last)
    BY <1>1, <1>3, <2>2 DEF Newest, RowNewest, k
  <2> QED
    BY <1>4, <2>2, <2>3
<1> QED
  BY <1>6, <1>7, <1>8, <1>9, <1>10, <1>11 DEF CoIInv

LEMMA CoRefreshes ==
  ASSUME CoIInv, NEW w \in Workers, CO!RefreshTokens(w)
  PROVE  CoIInv'
<1> DEFINE x == codexJobs[w]
           g == x.key.grant
           y == [x EXCEPT !.pc = "save"]
           z == [x EXCEPT !.pc = "save", !.key.serial = @ + 1]
<1>1. UNCHANGED <<now, starts, flowStore, codes, codexRow>> /\ x.pc = "refresh"
  BY DEF CO!RefreshTokens, CO!At
<1>2. /\ x \in CoJob /\ x.key \in CoKey /\ x.state = 0 /\ x.id = 1 /\ CoShape(codes, x) /\ Obtained(codes, x.key) /\ OnKey(x)
      /\ CoTyped /\ g \in Flows /\ codes[g] = "spent"
  BY <1>1, CoTypes DEF CoIInv, CoShapes, CoShape, CoJob, OnKey, Obtained
<1>3. codexHist.overlap = FALSE /\ codexHist.broken = FALSE => g = codexHist.last
  BY <1>1 DEF CoIInv, CoNewest, Newest
<1>4. CASE x.key.serial = serial[g] /\ CO!Put(w, y) /\ UNCHANGED <<serial, codexHist>>
  <2>1. y \in CoJob /\ y.pc = "save" /\ y.id = 1 /\ y.state = 0 /\ y.key = x.key
    BY <1>2 DEF CoJob
  <2>2. CO!Put(w, y)
    BY <1>4
  <2> HIDE DEF y
  <2>3. codexJobs' \in [Workers -> CoJob] /\ codexJobs'[w] = y /\ \A v \in Workers \ {w} : codexJobs'[v] = codexJobs[v]
    BY <1>2, <2>1, <2>2, CoPuts
  <2>4. CoTyped'
    BY <1>1, <1>2, <1>4, <2>3 DEF CoTyped
  <2>5. CoRow' /\ CoFresh'
    BY <1>1, <1>4 DEF CoIInv, CoRow, CoFresh
  <2>6. CoShapes'
    <3>1. CoShape(codes, y)
      BY <1>2, <2>1 DEF CoShape
    <3> QED
      BY <1>1, <2>3, <3>1 DEF CoIInv, CoShapes
  <2>7. CoFlows'
    BY <1>1, <1>4, <2>1, <2>3 DEF CoIInv, CoFlows, Passing
  <2>8. CoAlone'
    BY <1>2, <1>4, <2>3 DEF CoIInv, CoAlone
  <2>9. CoNewest'
    <3>1. codexHist.overlap = FALSE /\ codexHist.broken = FALSE => Newest(y, serial, codexHist.last)
      BY <1>3, <1>4, <2>1 DEF Newest
    <3>2. Unsaved(codexJobs')
      BY <2>1, <2>3 DEF Unsaved
    <3> QED
      BY <1>4, <2>3, <3>1, <3>2 DEF CoIInv, CoNewest
  <2> QED
    BY <2>4, <2>5, <2>6, <2>7, <2>8, <2>9 DEF CoIInv
<1>5. ASSUME serial' = [serial EXCEPT ![g] = @ + 1]
      PROVE  serial' \in [Flows -> Nat] /\ serial'[g] = serial[g] + 1 /\ CoRow' /\ CoFresh'
  <2>1. serial \in [Flows -> Nat] /\ serial[g] + 1 \in Nat
    BY <1>2 DEF CoTyped
  <2>2. serial' \in [Flows -> Nat] /\ serial'[g] = serial[g] + 1 /\ \A f \in Flows \ {g} : serial'[f] = serial[f]
    BY <1>2, <1>5, <2>1
  <2>3. CoFresh'
    BY <1>1, <1>2, <2>2 DEF CoIInv, CoFresh
  <2>4. CoRow'
    BY <1>1 DEF CoIInv, CoRow
  <2> QED
    BY <2>2, <2>3, <2>4
<1>6. CASE x.key.serial = serial[g] /\ serial' = [serial EXCEPT ![g] = @ + 1] /\ CO!Put(w, z) /\ UNCHANGED codexHist
  <2>1. z \in CoJob /\ z.pc = "save" /\ z.id = 1 /\ z.state = 0 /\ z.key.grant = g /\ z.key.account = x.key.account
        /\ z.key.serial = x.key.serial + 1
    <3> DEFINE k == [x.key EXCEPT !.serial = x.key.serial + 1]
    <3>1. k \in CoKey /\ k.grant = g /\ k.account = x.key.account /\ k.serial = x.key.serial + 1
      BY <1>2 DEF CoKey
    <3>2. z = [x EXCEPT !.pc = "save", !.key = k]
      BY <1>2 DEF CoJob
    <3> HIDE DEF k, z
    <3> QED
      BY <1>2, <3>1, <3>2 DEF CoJob
  <2>2. CO!Put(w, z)
    BY <1>6
  <2> HIDE DEF z
  <2>3. codexJobs' \in [Workers -> CoJob] /\ codexJobs'[w] = z /\ \A v \in Workers \ {w} : codexJobs'[v] = codexJobs[v]
    BY <1>2, <2>1, <2>2, CoPuts
  <2>4. CoTyped'
    BY <1>1, <1>2, <1>5, <1>6, <2>3 DEF CoTyped
  <2>5. CoShapes'
    <3>1. CoShape(codes, z)
      BY <1>2, <2>1 DEF CoShape, Obtained
    <3> QED
      BY <1>1, <2>3, <3>1 DEF CoIInv, CoShapes
  <2>6. CoFlows'
    BY <1>1, <1>6, <2>1, <2>3 DEF CoIInv, CoFlows, Passing
  <2>7. CoAlone'
    BY <1>2, <1>6, <2>3 DEF CoIInv, CoAlone
  <2>8. CoNewest'
    <3> SUFFICES ASSUME codexHist.overlap = FALSE, codexHist.broken = FALSE
                 PROVE  \A v \in Workers : Newest(codexJobs'[v], serial', codexHist.last)
      <4>1. Unsaved(codexJobs')
        BY <2>1, <2>3 DEF Unsaved
      <4> QED
        BY <1>6, <4>1 DEF CoNewest
    <3>1. Newest(z, serial', codexHist.last)
      BY <1>3, <1>5, <1>6, <2>1 DEF Newest
    <3>2. \A v \in Workers \ {w} : Newest(codexJobs[v], serial', codexHist.last)
      BY <1>2, CoOthers
    <3> QED
      BY <2>3, <3>1, <3>2
  <2> QED
    BY <1>5, <1>6, <2>4, <2>5, <2>6, <2>7, <2>8 DEF CoIInv
<1>7. CASE serial' = [serial EXCEPT ![g] = @ + 1] /\ CO!Put(w, CO!Idle) /\ codexHist' = [codexHist EXCEPT !.broken = TRUE]
  <2>1. codexJobs' \in [Workers -> CoJob] /\ codexJobs'[w] = CO!Idle /\ \A v \in Workers \ {w} : codexJobs'[v] = codexJobs[v]
    BY <1>2, <1>7, CoConstants, CoPuts
  <2>2. codexHist \in CoHist
    BY <1>2, CoTypes
  <2>3. /\ codexHist' \in CoHist /\ codexHist'.broken = TRUE /\ codexHist'.overlap = codexHist.overlap
        /\ codexHist'.misfit = codexHist.misfit /\ codexHist'.erased = codexHist.erased
        /\ codexHist'.crossed = codexHist.crossed
    BY <1>7, <2>2 DEF CoHist
  <2>4. CoTyped'
    BY <1>1, <1>2, <1>5, <1>7, <2>1, <2>3 DEF CoTyped
  <2>5. CoShapes' /\ CoFlows' /\ CoAlone'
    BY <1>1, <2>1, <2>3, CoConstants DEF CoIInv, CoShapes, CoShape, CoFlows, Passing, CoAlone
  <2>6. CoNewest'
    BY <2>3 DEF CoNewest
  <2> QED
    BY <1>5, <1>7, <2>4, <2>5, <2>6 DEF CoIInv
<1>8. CASE CO!Put(w, CO!Idle) /\ UNCHANGED <<serial, codexHist>>
  <2>1. codes' \in [Flows -> {"absent", "issued", "spent"}] /\ \A f \in Flows : codes[f] = "spent" => codes'[f] = "spent"
    BY <1>1, <1>2 DEF CoTyped
  <2> QED
    BY <1>1, <1>8, <2>1, CoEnds
<1> QED
  BY <1>4, <1>6, <1>7, <1>8 DEF CO!RefreshTokens

---------------------------------------------------------------------------
(* Codex keys: every step, and the theorem on signing in. *)

LEMMA CoStep == CoIInv /\ CO!Next => CoIInv'
<1> SUFFICES ASSUME CoIInv, CO!Next PROVE CoIInv'
  OBVIOUS
<1>1. CASE \E id \in CO!Slots : CO!StartCodexOAuth(id)
  BY <1>1, CoStarts
<1>2. CASE \E f \in Flows : CO!Authorize(f)
  BY <1>2, CoAuthorize
<1>3. CASE \E w \in Workers : \E id \in CO!Slots, f \in Flows : CO!CompleteCodexOAuth(w, id, f)
  BY <1>3, CoCompletes
<1>4. ASSUME NEW w \in Workers,
             \/ CO!exchangeCodexAuthorizationCode(w) \/ CO!deleteCodexFlow(w) \/ CO!SaveKey(w)
             \/ CO!RefreshCodexChannelCredential(w) \/ CO!RefreshTokens(w)
      PROVE  CoIInv'
  BY <1>4, CoExchanges, CoDeletesFlow, CoSaves, CoBeginsRefresh, CoRefreshes
<1>5. CASE CO!DeleteChannel \/ CO!Restart \/ CO!Tick
  BY <1>5, CoDeletesChannel, CoRestarts, CoTick
<1> QED
  BY <1>1, <1>2, <1>3, <1>4, <1>5 DEF CO!Next

LEMMA CoStill ==
  ASSUME CoIInv, UNCHANGED <<now, starts, flowStore, codes, serial, codexRow, codexJobs, codexHist>>
  PROVE  CoIInv'
<1>1. CoTyped' /\ CoRow' /\ CoShapes' /\ CoFresh' /\ CoFlows'
  BY DEF CoIInv, CoTyped, CoRow, CoShapes, CoFresh, CoFlows
<1>2. CoAlone' /\ CoNewest'
  BY DEF CoIInv, CoAlone, CoNewest
<1> QED
  BY <1>1, <1>2 DEF CoIInv

LEMMA CoImplies == CoIInv => CO!CodexInv
<1> SUFFICES ASSUME CoIInv PROVE CO!CodexInv
  OBVIOUS
<1>1. CoTyped
  BY DEF CoIInv
<1>2. CO!TypeOK
  <2>1. \A w \in Workers : codexJobs[w].pc \in {"idle", "exchange", "delete", "save", "refresh"}
    BY <1>1, CoTypes DEF CoJob
  <2>2. codexHist.made \subseteq Flows /\ codexHist.erased \subseteq Flows /\ codexHist.last \in Flows \cup {0} /\ codexRow.there \in BOOLEAN
    BY <1>1, CoTypes
  <2> QED
    BY <1>1, <2>1, <2>2 DEF CO!TypeOK, CoTyped
<1>3. CO!FlowsKept
  BY DEF CoIInv, CoFlows, CO!FlowsKept
<1>4. CO!KeyUsable
  <2>1. codexRow.key.account = codexRow.key.grant
    BY CoConstants DEF CoIInv, CoRow, Obtained
  <2>2. ASSUME codexRow.key # CO!NoKey, ~CO!Busy, ~codexHist.overlap, ~codexHist.broken
        PROVE  codexRow.key.grant = codexHist.last /\ codexRow.key.serial = serial[codexRow.key.grant]
    <3>1. codexHist.overlap = FALSE /\ codexHist.broken = FALSE
      BY <1>1, <2>2, CoTypes, Zenon
    <3>2. ~Unsaved(codexJobs)
      BY <2>2 DEF Unsaved, CO!Busy, CO!At
    <3> QED
      BY <2>2, <3>1, <3>2 DEF CoIInv, CoNewest, RowNewest
  <2> QED
    BY <2>1, <2>2 DEF CO!KeyUsable
<1> QED
  BY <1>2, <1>3, <1>4 DEF CO!CodexInv

\* For any number of users, requests, state tokens, waiting registrations, codes and restarts: a
\* state token lets one callback through without Redis, no fresh discovery document is fetched
\* again, and two users share an identity only at WeChat or Telegram and only if requests for it
\* overlapped (controller/oauth/*.go).  The key of a Codex channel is of the account it names and,
\* unless requests on it overlapped or an answer was lost, of the sign-in completed last, with a
\* refresh token that is still good (controller/channel_codex_oauth.go).
THEOREM SignInInvariant == Spec => []SignInInv
<1> DEFINE I == (part = "SI" => SiIInv) /\ (part = "CO" => CoIInv)
<1>1. Init => I
  BY SiInit, CoInit DEF Init
<1>2. I /\ [Next]_vars => I'
  <2> SUFFICES ASSUME I, [Next]_vars PROVE I'
    OBVIOUS
  <2>1. CASE UNCHANGED vars
    BY <2>1, SiStill, CoStill DEF vars, siVars, coVars, shared
  <2>2. CASE Next
    BY <2>2, SiStep, CoStep DEF Next
  <2> QED
    BY <2>1, <2>2
<1>3. I => SignInInv
  BY SiImplies, CoImplies DEF SignInInv
<1> QED
  BY <1>1, <1>2, <1>3, PTL DEF Spec
=============================================================================
