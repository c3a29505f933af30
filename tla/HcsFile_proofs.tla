----------------------------- MODULE HcsFile_proofs -----------------------------
(***************************************************************************)
(* What resolve_file returns is settled, and what submit_file acknowledged *)
(* is there: for any files, however they are cut, and any posts of others. *)
(***************************************************************************)
EXTENDS HcsFile, FiniteSetTheorems, TLAPS

(***************************************************************************)
(* Answers.  The memo of a topic that submit_file made never changes, and  *)
(* only such topics get as far as an answer.                               *)
(***************************************************************************)
Settled(t) ==
  /\ memo[t] \in {Nil, FileOf[t]}
  /\ files[t] \in {Nil, FileOf[t]}
  /\ answers[t] \subseteq {FileOf[t]}

Unanswered(t) == files[t] = Nil /\ answers[t] = {}

Resolves(v) ==
  resolver[v].topic # Nil =>
    /\ resolver[v].topic \in Submitted
    /\ resolver[v].memo = FileOf[resolver[v].topic]

(* A chunk is on its way, or awaits its receipt, only before the last one. *)
Sending(t) ==
  /\ submission[t].state = "idle" => submission[t].sent = 0
  /\ submission[t].state \in {"idle", "chunk", "receipt"} => submission[t].sent < Chunks(t)
  /\ submission[t].flight = "flying" => submission[t].sent < Chunks(t)

FilesInv ==
  /\ TypeOK
  /\ \A t \in Submitted : Settled(t) /\ Sending(t)
  /\ \A t \in AdminKeyed : Unanswered(t)
  /\ \A v \in Resolver : Resolves(v)

LEMMA FilesTypes ==
  /\ Submitted \subseteq Topic
  /\ \A t \in Submitted : /\ FileOf[t] \in File /\ FileOf[t] # Nil
                          /\ CutOf[FileOf[t]] \in Seq(Content)
                          /\ Chunks(t) \in Nat \ {0}
BY FileAssumption DEF Submitted, Chunks

LEMMA FilesInitially == Init => FilesInv
<1> SUFFICES ASSUME Init PROVE FilesInv
  OBVIOUS
<1>1. TypeOK
  BY FilesTypes DEF Init, TypeOK, Resting
<1>2. \A t \in Submitted : Settled(t) /\ Sending(t)
  BY FilesTypes DEF Init, Settled, Sending
<1>3. \A t \in AdminKeyed : Unanswered(t)
  BY FileAssumption DEF Init, Unanswered
<1> QED
  BY <1>1, <1>2, <1>3 DEF Init, FilesInv, Resolves, Resting

(* Steps of submit_file that move a submission on and touch nothing else.  *)
LEMMA Submits ==
  ASSUME FilesInv, NEW t \in Submitted,
         submission' \in [Submitted ->
           [state : {"idle", "chunk", "receipt", "waiting", "done", "failed"},
            sent : Nat, flight : {"none", "flying", "landed"}]],
         submission'[t].sent <= Chunks(t), Sending(t)',
         \A u \in Submitted \ {t} : submission'[u] = submission[u],
         log' \in [Topic -> Seq(Chunk \cup {Junk})],
         memo' \in {memo, [memo EXCEPT ![t] = FileOf[t]]},
         UNCHANGED <<files, resolver, answers>>
  PROVE  FilesInv'
<1>1. memo' \in [Topic -> File \cup {Nil}]
  BY FilesTypes DEF FilesInv, TypeOK
<1>2. \A u \in Topic : memo'[u] \in {memo[u], FileOf[u]} /\ (u # t => memo'[u] = memo[u])
  BY FilesTypes DEF FilesInv, TypeOK
<1>3. TypeOK'
  BY <1>1 DEF FilesInv, TypeOK, Chunks
<1>4. \A u \in Submitted : Settled(u)' /\ Sending(u)'
  BY <1>2, FilesTypes DEF FilesInv, Settled, Sending, Chunks
<1> QED
  BY <1>3, <1>4 DEF FilesInv, Unanswered, Resolves

LEMMA SubmitStepInv ==
  ASSUME FilesInv, NEW t \in Submitted, SubmitStep(t) \/ Consensus(t)
  PROVE  FilesInv'
<1> DEFINE State == {"idle", "chunk", "receipt", "waiting", "done", "failed"}
           Flight == {"none", "flying", "landed"}
           Rec == [state : State, sent : Nat, flight : Flight]
<1>1. /\ submission \in [Submitted -> Rec]
      /\ submission[t].sent \in Nat /\ submission[t].flight \in Flight
      /\ submission[t].sent <= Chunks(t) /\ Chunks(t) \in Nat \ {0}
      /\ log \in [Topic -> Seq(Chunk \cup {Junk})]
      /\ Sending(t)
  BY FilesTypes DEF FilesInv, TypeOK
<1>2. ASSUME NEW r \in Rec,
             submission' = [submission EXCEPT ![t] = r],
             r.sent <= Chunks(t),
             r.state = "idle" => r.sent = 0,
             r.state \in {"idle", "chunk", "receipt"} => r.sent < Chunks(t),
             r.flight = "flying" => r.sent < Chunks(t),
             log' \in [Topic -> Seq(Chunk \cup {Junk})],
             memo' \in {memo, [memo EXCEPT ![t] = FileOf[t]]},
             UNCHANGED <<files, resolver, answers>>
      PROVE  FilesInv'
  <2>1. /\ submission' \in [Submitted -> Rec] /\ submission'[t] = r
        /\ \A u \in Submitted \ {t} : submission'[u] = submission[u]
    BY <1>1, <1>2
  <2>2. Sending(t)'
    BY <1>2, <2>1 DEF Sending, Chunks
  <2> QED
    BY <1>2, <2>1, <2>2, Submits
<1>3. CASE CreateTopic(t)
  <2> DEFINE r == [submission[t] EXCEPT !.state = "chunk"]
  <2>1. r \in Rec /\ r.state = "chunk" /\ r.sent = submission[t].sent /\ r.flight = submission[t].flight
    BY <1>1
  <2> QED
    BY <1>1, <1>2, <1>3, <2>1 DEF CreateTopic, Sending
<1>4. CASE CreateFails(t) \/ ReceiptFails(t) \/ WaitTimesOut(t)
  <2> DEFINE r == [submission[t] EXCEPT !.state = "failed"]
  <2>1. r \in Rec /\ r.state = "failed" /\ r.sent = submission[t].sent /\ r.flight = submission[t].flight
    BY <1>1
  <2> QED
    BY <1>1, <1>2, <1>4, <2>1 DEF CreateFails, ReceiptFails, WaitTimesOut, Sending
<1>5. CASE Execute(t)
  <2> DEFINE r == [submission[t] EXCEPT !.state = "receipt", !.flight = "flying"]
  <2>1. r \in Rec /\ r.state = "receipt" /\ r.sent = submission[t].sent /\ r.flight = "flying"
    BY <1>1
  <2>2. submission' = [submission EXCEPT ![t] = r]
    BY <1>5 DEF Execute
  <2> HIDE DEF r
  <2> QED
    BY <1>1, <1>2, <1>5, <2>1, <2>2 DEF Execute, Sending
<1>6. CASE ExecuteFails(t)
  <2>1. PICK f \in {"none", "flying"} :
          submission' = [submission EXCEPT ![t].state = "failed", ![t].flight = f]
    BY <1>6 DEF ExecuteFails
  <2> DEFINE r == [submission[t] EXCEPT !.state = "failed", !.flight = f]
  <2>2. r \in Rec /\ r.state = "failed" /\ r.sent = submission[t].sent /\ r.flight = f
    BY <1>1
  <2>3. submission' = [submission EXCEPT ![t] = r]
    BY <2>1
  <2> HIDE DEF r
  <2> QED
    BY <1>1, <1>2, <1>6, <2>2, <2>3 DEF ExecuteFails, Sending
<1>7. CASE Consensus(t)
  <2> DEFINE r == [submission[t] EXCEPT !.flight = "landed"]
  <2>1. /\ r \in Rec /\ r.state = submission[t].state /\ r.sent = submission[t].sent
        /\ r.flight = "landed"
    BY <1>1
  <2>2. submission[t].sent + 1 \in DOMAIN CutOf[FileOf[t]]
    BY <1>1, <1>7, FilesTypes DEF Consensus, Sending, Chunks
  <2>3. [o |-> submission[t].sent, c |-> CutOf[FileOf[t]][submission[t].sent + 1]] \in Chunk
    BY <1>1, <2>2, FilesTypes DEF Chunk
  <2>4. log' \in [Topic -> Seq(Chunk \cup {Junk})]
    BY <1>1, <1>7, <2>3, FilesTypes DEF Consensus
  <2>5. submission' = [submission EXCEPT ![t] = r]
    BY <1>7 DEF Consensus
  <2> HIDE DEF r
  <2> QED
    BY <1>1, <1>2, <1>7, <2>1, <2>4, <2>5 DEF Consensus, Sending
<1>8. CASE ReceiptSucceeds(t)
  <2>1. PICK end \in {"waiting", "done"} :
          submission' = [submission EXCEPT ![t] =
            [state |-> IF submission[t].sent + 1 = Chunks(t) THEN end ELSE "chunk",
             sent |-> submission[t].sent + 1, flight |-> "none"]]
    BY <1>8 DEF ReceiptSucceeds
  <2> DEFINE r == [state |-> IF submission[t].sent + 1 = Chunks(t) THEN end ELSE "chunk",
                   sent |-> submission[t].sent + 1, flight |-> "none"]
  <2>2. submission[t].sent < Chunks(t)
    BY <1>1, <1>8 DEF ReceiptSucceeds, Sending
  <2>3. /\ r \in Rec /\ r.sent = submission[t].sent + 1 /\ r.flight = "none"
        /\ r.state # "idle" /\ (r.state \in {"chunk", "receipt"} => r.sent # Chunks(t))
    BY <1>1
  <2> HIDE DEF r
  <2>4. r.sent <= Chunks(t) /\ (r.state \in {"idle", "chunk", "receipt"} => r.sent < Chunks(t))
    BY <1>1, <2>2, <2>3
  <2>5. submission' = [submission EXCEPT ![t] = r]
    BY <2>1 DEF r
  <2> QED
    BY <1>1, <1>2, <1>8, <2>3, <2>4, <2>5 DEF ReceiptSucceeds
<1>9. CASE SeesFile(t)
  <2> DEFINE r == [submission[t] EXCEPT !.state = "done"]
  <2>1. r \in Rec /\ r.state = "done" /\ r.sent = submission[t].sent /\ r.flight = submission[t].flight
    BY <1>1
  <2> QED
    BY <1>1, <1>2, <1>9, <2>1 DEF SeesFile, Sending
<1> QED
  BY <1>3, <1>4, <1>5, <1>6, <1>7, <1>8, <1>9 DEF SubmitStep

(* Resolving, in which an answer is what the memo of the topic names.      *)
LEMMA Resolved ==
  ASSUME FilesInv, NEW v \in Resolver, NEW t \in Submitted,
         files' \in {files, [files EXCEPT ![t] = FileOf[t]]},
         Answered(v, t, FileOf[t]),
         UNCHANGED <<log, memo, submission>>
  PROVE  FilesInv'
<1>1. /\ t \in Topic /\ FileOf[t] \in File
      /\ files' \in [Topic -> File \cup {Nil}]
      /\ answers' = [answers EXCEPT ![t] = @ \cup {FileOf[t]}]
      /\ resolver' = [resolver EXCEPT ![v] = Resting]
  BY FilesTypes DEF FilesInv, TypeOK, Answered
<1>2. answers' \in [Topic -> SUBSET File]
  BY <1>1 DEF FilesInv, TypeOK
<1>3. resolver' \in [Resolver -> [topic : Topic \cup {Nil}, memo : File \cup {Nil}]]
  BY <1>1 DEF FilesInv, TypeOK, Resting
<1>4. TypeOK'
  BY <1>1, <1>2, <1>3 DEF FilesInv, TypeOK, Chunks
<1>5. \A u \in Submitted : Settled(u)' /\ Sending(u)'
  BY <1>1, FilesTypes DEF FilesInv, TypeOK, Settled, Sending, Chunks
<1>6. \A u \in AdminKeyed : Unanswered(u)'
  BY <1>1, FileAssumption DEF FilesInv, TypeOK, Unanswered, Submitted
<1>7. \A w \in Resolver : Resolves(w)'
  BY <1>1 DEF FilesInv, TypeOK, Resolves, Resting
<1> QED
  BY <1>4, <1>5, <1>6, <1>7 DEF FilesInv

LEMMA ResolveStepInv ==
  ASSUME FilesInv, NEW v \in Resolver, ResolveStep(v)
  PROVE  FilesInv'
<1>1. ASSUME NEW t \in Topic, ResolveCached(v, t) PROVE FilesInv'
  <2>1. t \in Submitted /\ files[t] = FileOf[t]
    BY <1>1, FileAssumption DEF ResolveCached, FilesInv, Settled, Unanswered, Submitted
  <2> QED
    BY <1>1, <2>1, Resolved DEF ResolveCached
<1>2. ASSUME NEW t \in Topic, BeginResolve(v, t) PROVE FilesInv'
  <2>1. t \in Submitted /\ memo[t] = FileOf[t] /\ FileOf[t] \in File
    BY <1>2, FilesTypes DEF BeginResolve, IsFileTopic, FilesInv, Settled, Submitted
  <2>2. resolver' = [resolver EXCEPT ![v] = [topic |-> t, memo |-> FileOf[t]]]
    BY <1>2, <2>1 DEF BeginResolve
  <2>3. TypeOK'
    BY <1>2, <2>1, <2>2 DEF BeginResolve, FilesInv, TypeOK, Chunks
  <2>4. \A w \in Resolver : Resolves(w)'
    BY <2>1, <2>2 DEF FilesInv, TypeOK, Resolves
  <2> QED
    BY <1>2, <2>3, <2>4 DEF BeginResolve, FilesInv, Settled, Sending, Chunks, Unanswered
<1>3. CASE FinishResolve(v)
  <2> DEFINE t == resolver[v].topic
  <2>1. t \in Submitted /\ resolver[v].memo = FileOf[t]
    BY <1>3 DEF FinishResolve, FilesInv, Resolves
  <2>2. PICK n \in 0 .. Len(log[t]) :
          \E p \in CheckedPayloads(SubSeq(log[t], 1, n), resolver[v].memo) :
            /\ files' = [files EXCEPT ![t] = p]
            /\ Answered(v, t, p)
    BY <1>3 DEF FinishResolve
  <2>3. files' = [files EXCEPT ![t] = FileOf[t]] /\ Answered(v, t, FileOf[t])
    BY <2>1, <2>2 DEF CheckedPayloads
  <2>4. UNCHANGED <<log, memo, submission>>
    BY <1>3 DEF FinishResolve
  <2> HIDE DEF t
  <2> QED
    BY <2>1, <2>3, <2>4, Resolved
<1>4. CASE ResolveFails(v)
  <2>1. TypeOK' /\ \A w \in Resolver : Resolves(w)'
    BY <1>4 DEF ResolveFails, FilesInv, TypeOK, Resolves, Resting, Chunks
  <2> QED
    BY <1>4, <2>1 DEF ResolveFails, FilesInv, Settled, Sending, Chunks, Unanswered
<1> QED
  BY <1>1, <1>2, <1>3, <1>4 DEF ResolveStep

(* Everyone else, and the cache.                                           *)
LEMMA OthersInv ==
  ASSUME FilesInv, NEW t \in Topic,
         Post(t) \/ ExpireFile(t) \/ (t \in AdminKeyed /\ ChangeMemo(t))
  PROVE  FilesInv'
<1>1. CASE Post(t)
  <2>1. Foreign \cup {Junk} \subseteq Chunk \cup {Junk}
    BY FileAssumption DEF Foreign, Chunk
  <2>2. log' \in [Topic -> Seq(Chunk \cup {Junk})]
    BY <1>1, <2>1 DEF Post, FilesInv, TypeOK
  <2>3. TypeOK'
    BY <1>1, <2>2 DEF Post, FilesInv, TypeOK, Chunks
  <2> QED
    BY <1>1, <2>3 DEF Post, FilesInv, Settled, Sending, Chunks, Unanswered, Resolves
<1>2. CASE ExpireFile(t)
  <2>1. TypeOK' /\ \A u \in Topic : files'[u] \in {files[u], Nil}
    BY <1>2 DEF ExpireFile, FilesInv, TypeOK, Chunks
  <2> QED
    BY <1>2, <2>1, FileAssumption
       DEF ExpireFile, FilesInv, Settled, Sending, Chunks, Unanswered, Resolves, Submitted
<1>3. CASE t \in AdminKeyed /\ ChangeMemo(t)
  <2>1. TypeOK' /\ \A u \in Submitted : memo'[u] = memo[u]
    BY <1>3, FilesTypes DEF ChangeMemo, FilesInv, TypeOK, Chunks, Submitted
  <2> QED
    BY <1>3, <2>1 DEF ChangeMemo, FilesInv, Settled, Sending, Chunks, Unanswered, Resolves
<1> QED
  BY <1>1, <1>2, <1>3

LEMMA FilesStep == FilesInv /\ [Next]_vars => FilesInv'
<1> SUFFICES ASSUME FilesInv, [Next]_vars PROVE FilesInv'
  OBVIOUS
<1>1. CASE UNCHANGED vars
  BY <1>1 DEF vars, FilesInv, TypeOK, Settled, Sending, Chunks, Unanswered, Resolves
<1>2. CASE Next
  BY <1>2, SubmitStepInv, ResolveStepInv, OthersInv, FileAssumption DEF Next
<1> QED
  BY <1>1, <1>2

THEOREM Invariance == Spec => []FilesInv
<1> QED
  BY FilesInitially, FilesStep, PTL DEF Spec

(* All state is of its type, for any files and topics.                     *)
THEOREM TypeCorrect == Spec => []TypeOK
<1>1. FilesInv => TypeOK
  BY DEF FilesInv
<1> QED
  BY <1>1, Invariance, PTL

(* All answers anyone ever gets for a topic are one file, and for a topic  *)
(* that submit_file made, the file that was submitted.                     *)
THEOREM FilesSettled == Spec => []FilesAreFinal
<1>1. ASSUME FilesInv PROVE FilesAreFinal
  <2>1. ASSUME NEW S, NEW f, S \subseteq {f} PROVE Cardinality(S) <= 1
    <3>1. S = {} \/ S = {f}
      BY <2>1
    <3>2. Cardinality({}) = 0 /\ Cardinality({f}) = 1
      BY FS_EmptySet, FS_Singleton
    <3> QED
      BY <3>1, <3>2
  <2>2. ASSUME NEW t \in Submitted
        PROVE  answers[t] \subseteq {FileOf[t]} /\ Cardinality(answers[t]) <= 1
    BY <1>1, <2>1 DEF FilesInv, Settled
  <2>3. ASSUME NEW t \in AdminKeyed PROVE Cardinality(answers[t]) <= 1
    BY <1>1, <2>1 DEF FilesInv, Unanswered
  <2> QED
    BY <2>2, <2>3 DEF FilesAreFinal, Submitted
<1> QED
  BY <1>1, Invariance, PTL

(***************************************************************************)
(* Acknowledged chunks are on the topic, and sort to where they were cut.  *)
(***************************************************************************)
Piece(t, i) == [o |-> i - 1, c |-> CutOf[FileOf[t]][i]]

(* The chunks that have a receipt, and the one that is to have one.        *)
Landed(t) == submission[t].sent + (IF submission[t].flight = "landed" THEN 1 ELSE 0)

OnTopic(t) == \A i \in 1 .. Landed(t) : \E j \in DOMAIN log[t] : log[t][j] = Piece(t, i)

AckInv == \A t \in Submitted : OnTopic(t)

(* Nothing that is on a topic goes away.                                   *)
LEMMA LogGrows ==
  ASSUME FilesInv, [Next]_vars, NEW t \in Topic
  PROVE  \A j \in DOMAIN log[t] : j \in DOMAIN log[t]' /\ log[t]'[j] = log[t][j]
<1>1. log \in [Topic -> Seq(Chunk \cup {Junk})]
  BY DEF FilesInv, TypeOK
<1>2. ASSUME NEW u \in Topic, NEW m \in Chunk \cup {Junk},
             log' = [log EXCEPT ![u] = Append(@, m)]
      PROVE  \A j \in DOMAIN log[t] : j \in DOMAIN log[t]' /\ log[t]'[j] = log[t][j]
  <2>1. log[t]' \in {log[t], Append(log[t], m)} /\ log[t] \in Seq(Chunk \cup {Junk})
    BY <1>1, <1>2
  <2> QED
    BY <2>1
<1>3. ASSUME NEW u \in Submitted, Consensus(u)
      PROVE  \A j \in DOMAIN log[t] : j \in DOMAIN log[t]' /\ log[t]'[j] = log[t][j]
  <2>1. /\ submission[u].sent \in Nat
        /\ submission[u].sent + 1 \in DOMAIN CutOf[FileOf[u]]
    BY <1>3, FilesTypes DEF FilesInv, TypeOK, Consensus, Sending, Chunks
  <2>2. [o |-> submission[u].sent, c |-> CutOf[FileOf[u]][submission[u].sent + 1]] \in Chunk
    BY <2>1, FilesTypes DEF Chunk
  <2> QED
    BY <1>2, <1>3, <2>2, FilesTypes DEF Consensus
<1>4. ASSUME NEW u \in Topic, Post(u)
      PROVE  \A j \in DOMAIN log[t] : j \in DOMAIN log[t]' /\ log[t]'[j] = log[t][j]
  <2>1. Foreign \cup {Junk} \subseteq Chunk \cup {Junk}
    BY FileAssumption DEF Foreign, Chunk
  <2> QED
    BY <1>2, <1>4, <2>1 DEF Post
<1>5. \/ UNCHANGED log
      \/ \E u \in Submitted : Consensus(u)
      \/ \E u \in Topic : Post(u)
  BY DEF Next, vars, SubmitStep, ResolveStep, CreateTopic, CreateFails, Execute, ExecuteFails,
         ReceiptSucceeds, ReceiptFails, SeesFile, WaitTimesOut, ResolveCached, BeginResolve,
         FinishResolve, ResolveFails, ExpireFile, ChangeMemo
<1> QED
  BY <1>3, <1>4, <1>5

(* Only a chunk that reaches the topic counts as one that has.             *)
LEMMA LandedCounts ==
  ASSUME FilesInv, [Next]_vars, NEW t \in Submitted
  PROVE  Landed(t)' <= Landed(t) \/ Consensus(t)
<1>1. submission \in [Submitted ->
         [state : {"idle", "chunk", "receipt", "waiting", "done", "failed"},
          sent : Nat, flight : {"none", "flying", "landed"}]]
  BY DEF FilesInv, TypeOK
<1>2. \/ submission'[t] = submission[t]
      \/ SubmitStep(t)
      \/ Consensus(t)
  <2>1. ASSUME NEW u \in Submitted, u # t, SubmitStep(u) \/ Consensus(u)
        PROVE  submission'[t] = submission[t]
    BY <1>1, <2>1 DEF SubmitStep, CreateTopic, CreateFails, Execute, ExecuteFails, Consensus,
                      ReceiptSucceeds, ReceiptFails, SeesFile, WaitTimesOut
  <2>2. ASSUME \/ \E v \in Resolver : ResolveStep(v)
               \/ \E u \in Topic : Post(u) \/ ExpireFile(u)
               \/ \E u \in AdminKeyed : ChangeMemo(u)
               \/ UNCHANGED vars
        PROVE  submission' = submission
    BY <2>2 DEF ResolveStep, ResolveCached, BeginResolve, FinishResolve, ResolveFails,
                Post, ExpireFile, ChangeMemo, vars
  <2> QED
    BY <2>1, <2>2 DEF Next
<1>3. CASE SubmitStep(t)
  <2>1. CASE ReceiptSucceeds(t)
    <3>1. PICK end \in {"waiting", "done"} :
            submission' = [submission EXCEPT ![t] =
              [state |-> IF @.sent + 1 = Chunks(t) THEN end ELSE "chunk",
               sent |-> @.sent + 1, flight |-> "none"]]
      BY <2>1 DEF ReceiptSucceeds
    <3>2. submission'[t].sent = submission[t].sent + 1 /\ submission'[t].flight = "none"
      BY <1>1, <3>1
    <3> QED
      BY <1>1, <2>1, <3>2 DEF ReceiptSucceeds, Landed
  <2>2. CASE ~ReceiptSucceeds(t)
    <3>1. /\ submission'[t].sent = submission[t].sent
          /\ submission'[t].flight \in {"none", "flying", submission[t].flight}
      BY <1>1, <1>3, <2>2
         DEF SubmitStep, CreateTopic, CreateFails, Execute, ExecuteFails, ReceiptFails,
             SeesFile, WaitTimesOut
    <3> QED
      BY <1>1, <3>1 DEF Landed
  <2> QED
    BY <2>1, <2>2
<1>4. CASE submission'[t] = submission[t]
  BY <1>1, <1>4 DEF Landed
<1> QED
  BY <1>2, <1>3, <1>4

LEMMA AckStep == FilesInv /\ AckInv /\ [Next]_vars => AckInv'
<1> SUFFICES ASSUME FilesInv, AckInv, [Next]_vars, NEW t \in Submitted PROVE OnTopic(t)'
  BY DEF AckInv
<1>1. /\ submission \in [Submitted ->
           [state : {"idle", "chunk", "receipt", "waiting", "done", "failed"},
            sent : Nat, flight : {"none", "flying", "landed"}]]
      /\ log \in [Topic -> Seq(Chunk \cup {Junk})] /\ t \in Topic
  BY FilesTypes DEF FilesInv, TypeOK
<1>2. Landed(t) \in Nat /\ OnTopic(t)
  BY <1>1 DEF Landed, AckInv
<1>3. \A i \in 1 .. Landed(t) : \E j \in DOMAIN log'[t] : log'[t][j] = Piece(t, i)
  BY <1>1, <1>2, LogGrows DEF OnTopic
<1>4. CASE Landed(t)' <= Landed(t)
  <2>1. submission'[t].sent \in Nat
    BY FilesStep, FilesTypes DEF FilesInv, TypeOK
  <2>2. Landed(t)' \in Nat
    BY <2>1 DEF Landed
  <2>3. \A i \in 1 .. Landed(t)' : i \in 1 .. Landed(t)
    BY <1>2, <1>4, <2>2
  <2> QED
    BY <1>3, <2>3 DEF OnTopic, Piece
<1>5. CASE Consensus(t)
  <2> DEFINE n == submission[t].sent
             m == [o |-> n, c |-> CutOf[FileOf[t]][n + 1]]
  <2>1. log'[t] = Append(log[t], m)
    BY <1>1, <1>5 DEF Consensus
  <2>2. submission'[t].sent = n /\ submission'[t].flight = "landed"
    BY <1>1, <1>5 DEF Consensus
  <2>3. Landed(t)' = n + 1 /\ Landed(t) = n /\ n \in Nat
    BY <1>1, <1>5, <2>2 DEF Landed, Consensus
  <2>4. log[t] \in Seq(Chunk \cup {Junk})
    BY <1>1
  <2>5. Len(log[t]) + 1 \in DOMAIN log'[t] /\ log'[t][Len(log[t]) + 1] = m
    BY <2>1, <2>4
  <2>6. m = Piece(t, n + 1)
    BY <2>3 DEF Piece
  <2>7. \A i \in 1 .. n + 1 : \E j \in DOMAIN log'[t] : log'[t][j] = Piece(t, i)
    BY <1>3, <2>3, <2>5, <2>6
  <2> QED
    BY <2>3, <2>7 DEF OnTopic, Piece
<1> QED
  BY <1>4, <1>5, LandedCounts

LEMMA AckInitially == Init => AckInv
BY FilesTypes DEF Init, AckInv, OnTopic, Landed

(***************************************************************************)
(* When the chunks of a file are the only ones, each index is there once:  *)
(* sorting them gives the order in which the file was cut.                 *)
(***************************************************************************)
LEMMA SortedChunks ==
  ASSUME FilesInv, NEW t \in Submitted,
         \A i \in 1 .. Chunks(t) : \E j \in DOMAIN log[t] : log[t][j] = Piece(t, i)
  PROVE  /\ Cardinality(ChunksIn(log[t])) >= Chunks(t)
         /\ Cardinality(ChunksIn(log[t])) = Chunks(t) => Contents(log[t]) = CutOf[FileOf[t]]
<1> DEFINE ms == log[t]
           N == Chunks(t)
           C == ChunksIn(ms)
           cut == CutOf[FileOf[t]]
<1>1. /\ ms \in Seq(Chunk \cup {Junk}) /\ N \in Nat /\ cut \in Seq(Content)
      /\ DOMAIN cut = 1 .. N
  BY FilesTypes DEF FilesInv, TypeOK, Chunks
<1> DEFINE pos == [i \in 1 .. N |-> CHOOSE j \in DOMAIN ms : ms[j] = Piece(t, i)]
<1>2. ASSUME NEW i \in 1 .. N
      PROVE  /\ pos[i] \in C /\ pos[i] \in Nat
             /\ ms[pos[i]].o = i - 1 /\ ms[pos[i]].c = cut[i]
  <2>1. pos[i] \in DOMAIN ms /\ ms[pos[i]] = Piece(t, i)
    OBVIOUS
  <2>2. Piece(t, i) \in Chunk
    BY <1>1, FilesTypes DEF Piece, Chunk
  <2>3. DOMAIN ms \subseteq Nat
    BY <1>1
  <2> HIDE DEF pos
  <2> QED
    BY <2>1, <2>2, <2>3, FileAssumption DEF Piece, ChunksIn
<1> HIDE DEF pos
<1>3. pos \in Injection(1 .. N, C)
  <2>1. pos \in [1 .. N -> C]
    BY <1>2 DEF pos
  <2>2. \A i, k \in 1 .. N : pos[i] = pos[k] => i = k
    <3> SUFFICES ASSUME NEW i \in 1 .. N, NEW k \in 1 .. N, pos[i] = pos[k] PROVE i = k
      OBVIOUS
    <3>1. ms[pos[i]].o = i - 1 /\ ms[pos[i]].o = k - 1
      BY <1>2
    <3> QED
      BY <1>1, <3>1
  <2> QED
    BY <2>1, <2>2 DEF Injection, IsInjective
<1>4. IsFiniteSet(C)
  <2>1. C \subseteq 1 .. Len(ms) /\ Len(ms) \in Nat
    BY <1>1 DEF ChunksIn
  <2>2. IsFiniteSet(1 .. Len(ms))
    BY <2>1, FS_Interval
  <2> HIDE DEF C, ms
  <2> QED
    BY <2>1, <2>2, FS_Subset
<1>5. IsFiniteSet(1 .. N) /\ Cardinality(1 .. N) = N
  BY <1>1, FS_Interval
<1>6. N <= Cardinality(C) /\ (Cardinality(C) = N => pos \in Surjection(1 .. N, C))
  BY <1>3, <1>4, <1>5, FS_Injection
<1>7. ASSUME Cardinality(C) = N PROVE Contents(ms) = cut
  <2>1. \A k \in C : \E i \in 1 .. N : pos[i] = k
    BY <1>6, <1>7 DEF Surjection
  <2>2. ASSUME NEW i \in 1 .. N PROVE Position(ms, pos[i]) = i
    <3> DEFINE S == {k \in C : ms[k].o < ms[pos[i]].o \/ (ms[k].o = ms[pos[i]].o /\ k <= pos[i])}
               low == [j \in 1 .. i |-> pos[j]]
    <3>1. i \in Nat /\ i <= N
      BY <1>1
    <3>2. \A j \in 1 .. N : pos[j] \in S <=> j <= i
      <4>1. ASSUME NEW j \in 1 .. N PROVE pos[j] \in S <=> j <= i
        <5>1. /\ pos[j] \in C /\ ms[pos[j]].o = j - 1 /\ ms[pos[i]].o = i - 1
              /\ pos[j] \in Nat
          BY <1>2
        <5>2. j = i => pos[j] = pos[i]
          OBVIOUS
        <5> QED
          BY <1>1, <5>1, <5>2
      <4> QED
        BY <4>1
    <3>3. low \in [1 .. i -> S]
      BY <1>1, <3>1, <3>2
    <3>4. \A k \in S : \E j \in 1 .. i : low[j] = k
      BY <1>1, <2>1, <3>1, <3>2
    <3>5. \A j, k \in 1 .. i : low[j] = low[k] => j = k
      BY <1>1, <1>3, <3>1 DEF Injection, IsInjective
    <3> HIDE DEF low, S
    <3>6. low \in Bijection(1 .. i, S)
      BY <3>3, <3>4, <3>5 DEF Bijection, Injection, Surjection, IsInjective
    <3>7. Cardinality(S) = Cardinality(1 .. i) /\ Cardinality(1 .. i) = i
      BY <3>1, <3>6, FS_Bijection, FS_Interval DEF ExistsBijection
    <3> QED
      BY <3>7 DEF Position, S
  <2>3. ASSUME NEW i \in 1 .. N
        PROVE  (CHOOSE j \in C : Position(ms, j) = i) = pos[i]
    <3>1. \A j \in C : Position(ms, j) = i => j = pos[i]
      BY <2>1, <2>2
    <3>2. pos[i] \in C /\ Position(ms, pos[i]) = i
      BY <1>2, <2>2
    <3> HIDE DEF C, ms
    <3> QED
      BY <3>1, <3>2
  <2>4. Contents(ms) = [i \in 1 .. N |-> ms[CHOOSE j \in C : Position(ms, j) = i].c]
    BY <1>7 DEF Contents
  <2>5. Contents(ms) = [i \in 1 .. N |-> cut[i]]
    <3>1. \A i \in 1 .. N : ms[CHOOSE j \in C : Position(ms, j) = i].c = cut[i]
      BY <1>2, <2>3
    <3> HIDE DEF C, ms, cut, N
    <3> QED
      BY <2>4, <3>1
  <2> QED
    BY <1>1, <2>5
<1> QED
  BY <1>1, <1>4, <1>6, <1>7, FS_CardinalityType

(* A file whose submission was acknowledged can be read by anyone who reads*)
(* the whole topic, however many messages others put between its chunks.   *)
THEOREM FilesReadable == Spec => []AckedFileReadable
<1>1. ASSUME FilesInv, AckInv PROVE AckedFileReadable
  <2> SUFFICES ASSUME NEW t \in Submitted, submission[t].sent = Chunks(t)
               PROVE  /\ Cardinality(ChunksIn(log[t])) >= Chunks(t)
                      /\ Cardinality(ChunksIn(log[t])) = Chunks(t)
                           => Payloads(log[t]) = {FileOf[t]}
    BY DEF AckedFileReadable
  <2>1. \A i \in 1 .. Chunks(t) : i \in 1 .. Landed(t)
    BY FilesTypes DEF Landed
  <2>2. \A i \in 1 .. Chunks(t) : \E j \in DOMAIN log[t] : log[t][j] = Piece(t, i)
    BY <1>1, <2>1 DEF AckInv, OnTopic
  <2>3. CutOf[FileOf[t]] \in DOMAIN Decoded /\ Decoded[CutOf[FileOf[t]]] = FileOf[t]
    BY FilesTypes, FileAssumption
  <2> QED
    BY <1>1, <2>2, <2>3, SortedChunks DEF Payloads
<1> QED
  BY <1>1, FilesInitially, FilesStep, AckInitially, AckStep, PTL DEF Spec
================================================================================
