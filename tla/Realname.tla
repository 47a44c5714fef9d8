------------------------------ MODULE Realname ------------------------------
(***************************************************************************)
(* Real-name verification of one user (controller/realname.go).  A request *)
(* opens a case at the provider and a row for it; later requests ask the   *)
(* provider about a row, save the whole row and then the user's status;    *)
(* an administrator resets the status and then the rows.  Any row can be   *)
(* asked about again, whatever came after it.                              *)
(***************************************************************************)
EXTENDS Integers, Sequences, FiniteSets

CONSTANTS Workers, MaxStarts

VARIABLES
  starts,
  verdicts,   \* what the provider says of each case: "none" until the user was checked, then "T" or "F"
  records,    \* the table: a row for each case, its status
  verified,   \* the user's realname_status
  inquiries,  \* the requests at work
  nameHist
vars == <<starts, verdicts, records, verified, inquiries, nameHist>>

Idle == [pc |-> "idle"]
At(w, pc) == inquiries[w].pc = pc
Set(w, job) == inquiries' = [inquiries EXCEPT ![w] = job]
Quiet == \A w \in Workers : inquiries[w] = Idle

Init ==
  /\ starts = 0
  /\ verdicts = <<>> /\ records = <<>>
  /\ verified = "pending"
  /\ inquiries = [w \in Workers |-> Idle]
  /\ nameHist = [overlap |-> FALSE, broken |-> FALSE]

Begin(w, job) ==
  /\ inquiries[w] = Idle /\ starts < MaxStarts
  /\ starts' = starts + 1
  /\ Set(w, job)
  /\ nameHist' = [nameHist EXCEPT !.overlap = @ \/ ~Quiet]
\* A statement fails and nobody looks at its error.
Broken == nameHist' = [nameHist EXCEPT !.broken = TRUE]

---------------------------------------------------------------------------
\* InitRealnameVerify looks at the user's status, asks the provider for a case, and saves the row.
InitRealnameVerify(w) ==
  /\ verified # "passed"
  /\ Begin(w, [pc |-> "open"])
  /\ UNCHANGED <<verdicts, records, verified>>
InitFaceVerify(w) ==
  /\ At(w, "open")
  /\ \/ /\ verdicts' = Append(verdicts, "none")
        /\ records' = Append(records, "pending")
     \/ \* the provider refuses; or the row is not saved and the case is forgotten
        UNCHANGED <<verdicts, records>>
  /\ Set(w, Idle)
  /\ UNCHANGED <<starts, verified, nameHist>>

\* The user shows his face, or does not pass; a case is decided once.
Decide ==
  /\ \E i \in DOMAIN verdicts, v \in {"T", "F"} :
       verdicts[i] = "none" /\ verdicts' = [verdicts EXCEPT ![i] = v]
  /\ UNCHANGED <<starts, records, verified, inquiries, nameHist>>

---------------------------------------------------------------------------
\* QueryRealnameResult takes the user's newest row or the one the request names, if it is his.
QueryRealnameResult(w) ==
  /\ \E i \in DOMAIN records : Begin(w, [pc |-> "ask", row |-> i, status |-> records[i]])
  /\ UNCHANGED <<verdicts, records, verified>>

\* Seeded bug: whatever is not refused has passed.
BugJudged(status, verdict) == IF verdict = "F" THEN "failed" ELSE "passed"
\* A case without a verdict leaves the status that was read.
Judged(status, verdict) == IF verdict = "T" THEN "passed" ELSE IF verdict = "F" THEN "failed" ELSE status

DescribeFaceVerify(w) ==
  LET job == inquiries[w] IN
  /\ At(w, "ask")
  /\ \/ Set(w, [pc |-> "save", row |-> job.row, status |-> Judged(job.status, verdicts[job.row])])
     \/ Set(w, Idle)
  /\ UNCHANGED <<starts, verdicts, records, verified, nameHist>>
\* Update saves every column of the row.
SaveRecord(w) ==
  LET job == inquiries[w] IN
  /\ At(w, "save")
  /\ \/ records' = [records EXCEPT ![job.row] = job.status] /\ UNCHANGED nameHist
     \/ Broken /\ UNCHANGED records
  /\ Set(w, IF job.status \in {"passed", "failed"} THEN [pc |-> "user", row |-> job.row, status |-> job.status] ELSE Idle)
  /\ UNCHANGED <<starts, verdicts, verified>>
SyncUser(w) ==
  /\ At(w, "user")
  /\ \/ verified' = inquiries[w].status /\ UNCHANGED nameHist
     \/ Broken /\ UNCHANGED verified
  /\ Set(w, Idle)
  /\ UNCHANGED <<starts, verdicts, records>>

---------------------------------------------------------------------------
\* AdminResetRealname: the user, then his rows.
AdminResetRealname(w) ==
  /\ Begin(w, [pc |-> "expire"])
  /\ verified' = "pending"
  /\ UNCHANGED <<verdicts, records>>

Expired(rs) == [i \in DOMAIN rs |-> IF rs[i] = "passed" THEN "expired" ELSE rs[i]]

ExpireRecords(w) ==
  /\ At(w, "expire")
  /\ \/ records' = Expired(records) /\ UNCHANGED nameHist
     \/ Broken /\ UNCHANGED records
  /\ Set(w, Idle)
  /\ UNCHANGED <<starts, verdicts, verified>>

\* The process ends in the middle of requests.
Restart ==
  /\ ~Quiet
  /\ inquiries' = [w \in Workers |-> Idle]
  /\ Broken
  /\ UNCHANGED <<starts, verdicts, records, verified>>

Next ==
  \/ \E w \in Workers :
       \/ InitRealnameVerify(w) \/ InitFaceVerify(w)
       \/ QueryRealnameResult(w) \/ DescribeFaceVerify(w) \/ SaveRecord(w) \/ SyncUser(w)
       \/ AdminResetRealname(w) \/ ExpireRecords(w)
  \/ Decide \/ Restart
Spec == Init /\ [][Next]_vars

---------------------------------------------------------------------------
Verdicts == {"none", "T", "F"}
Statuses == {"pending", "passed", "failed", "expired"}

TypeOK ==
  /\ starts \in Nat /\ verified \in {"pending", "passed", "failed"}
  /\ verdicts \in Seq(Verdicts) /\ records \in Seq(Statuses) /\ Len(records) = Len(verdicts)
  /\ inquiries \in [Workers -> {Idle, [pc |-> "open"], [pc |-> "expire"]}
                              \cup [pc : {"ask", "save", "user"}, row : Nat, status : Statuses]]
  /\ nameHist \in [overlap : BOOLEAN, broken : BOOLEAN]

\* Nobody counts as verified whom the provider did not let pass, whatever overlapped or was lost:
\* neither his status nor a row says so without the provider's word.
VerifiedByProvider ==
  /\ verified = "passed" => \E i \in DOMAIN verdicts : verdicts[i] = "T"
  /\ \A i \in DOMAIN records : records[i] \in {"passed", "expired"} => verdicts[i] = "T"

\* Where requests never overlapped and no statement was lost, the user's status and his rows agree
\* once a request has ended: passed and failed stand on a row that says so, and after a reset no
\* row is left that says passed.
StatusMatchesRows ==
  Quiet /\ ~nameHist.overlap /\ ~nameHist.broken =>
    /\ verified \in {"passed", "failed"} => \E i \in DOMAIN records : records[i] = verified
    /\ verified = "pending" => \A i \in DOMAIN records : records[i] # "passed"

\* What the verification keeps to (controller/realname.go:139-157, 286-292).
RealnameInv == TypeOK /\ VerifiedByProvider /\ StatusMatchesRows
=============================================================================
