------------------------------- MODULE HcsFile -------------------------------
(***************************************************************************)
(* Files on topics (hcs/src/hcs/file.rs).  A file is compressed, cut into  *)
(* chunks, and submitted chunk by chunk to a topic of its own whose memo   *)
(* is the hash of the file and which only the holder of the submit key     *)
(* writes.  Whoever resolves it reads the topic, puts together what is     *)
(* there, and compares the hash.  A file stands for its hash.  What a chunk*)
(* carries may belong to several files: parts of a compressed file may be  *)
(* a compressed file themselves.                                           *)
(***************************************************************************)
EXTENDS Integers, Sequences, FiniteSets

CONSTANTS
  Topic,
  File,
  Nil,          \* no file, or no topic
  FileOf,       \* what submit_file is called with, per topic it creates
  AdminKeyed,   \* topics with an admin key and a memo, made by others
  Resolver,     \* tasks that call resolve_file
  Content,      \* what chunks carry
  CutOf,        \* per file: the contents of the chunks it is cut into
  Decoded,      \* what the contents of chunks, put together, are when they
                \* are a file
  Junk,         \* a message that is no chunk
  Garbled,      \* what other bytes decode to, if they decode
  MaxPosts      \* bound: others post to a topic of fewer messages than this

Submitted == Topic \ AdminKeyed

Chunk == [o : Nat, c : Content]
Chunks(t) == Len(CutOf[FileOf[t]])

ASSUME FileAssumption ==
  /\ AdminKeyed \subseteq Topic
  /\ FileOf \in [Submitted -> File]
  /\ CutOf \in [File -> Seq(Content) \ {<<>>}]
  /\ Decoded \in [DOMAIN Decoded -> File]
  /\ \A f \in File : CutOf[f] \in DOMAIN Decoded /\ Decoded[CutOf[f]] = f
  /\ MaxPosts \in Nat
  /\ Garbled \notin File
  /\ Nil \notin File
  /\ Junk \notin Chunk

VARIABLES
  log,          \* per topic: its messages, in consensus order
  files,        \* per topic: the "file" entry of the cache, or Nil
  memo,         \* per topic: the file its memo names; Nil: no such topic or memo
  submission,   \* per file: how far submit_file has come
  resolver,     \* per task: the topic it resolves and the memo it has read
  answers       \* per topic: all that resolve_file ever returned for it

vars == <<log, files, memo, submission, resolver, answers>>

Resting == [topic |-> Nil, memo |-> Nil]

Init ==
  /\ log = [t \in Topic |-> <<>>]
  /\ files = [t \in Topic |-> Nil]
  /\ memo = [t \in Topic |-> Nil]
  /\ submission = [t \in Submitted |-> [state |-> "idle", sent |-> 0, flight |-> "none"]]
  /\ resolver = [v \in Resolver |-> Resting]
  /\ answers = [t \in Topic |-> {}]

(***************************************************************************)
(* submit_file                                                             *)
(***************************************************************************)

CreateTopic(t) ==
  /\ submission[t].state = "idle"
  /\ memo' = [memo EXCEPT ![t] = FileOf[t]]
  /\ submission' = [submission EXCEPT ![t].state = "chunk"]
  /\ UNCHANGED <<log, files, resolver, answers>>

(* The topic is not created, or its id does not come back.                 *)
CreateFails(t) ==
  /\ submission[t].state = "idle"
  /\ submission' = [submission EXCEPT ![t].state = "failed"]
  /\ UNCHANGED <<log, files, memo, resolver, answers>>

Execute(t) ==
  /\ submission[t].state = "chunk"
  /\ submission' = [submission EXCEPT ![t].state = "receipt", ![t].flight = "flying"]
  /\ UNCHANGED <<log, files, memo, resolver, answers>>

(* Fault: a chunk that was not submitted is skipped.                       *)
SkipChunk(t) ==
  /\ submission[t].state = "chunk"
  /\ submission' = [submission EXCEPT ![t].sent = @ + 1,
       ![t].state = IF submission[t].sent + 1 = Chunks(t) THEN "waiting" ELSE @]
  /\ UNCHANGED <<log, files, memo, resolver, answers>>

(* The first error ends the call; the chunk may be on its way all the same.*)
ExecuteFails(t) ==
  /\ submission[t].state = "chunk"
  /\ \E f \in {"none", "flying"} :
       submission' = [submission EXCEPT ![t].state = "failed", ![t].flight = f]
  /\ UNCHANGED <<log, files, memo, resolver, answers>>

(* The chunk reaches consensus, also after the call has given up.          *)
Consensus(t) ==
  /\ submission[t].flight = "flying"
  /\ log' = [log EXCEPT ![t] = Append(@,
       [o |-> submission[t].sent, c |-> CutOf[FileOf[t]][submission[t].sent + 1]])]
  /\ submission' = [submission EXCEPT ![t].flight = "landed"]
  /\ UNCHANGED <<files, memo, resolver, answers>>

ReceiptSucceeds(t) ==
  /\ submission[t].state = "receipt"
  /\ submission[t].flight = "landed"
  /\ \E end \in {"waiting", "done"} :   \* wait_for_visibility, or not
       submission' = [submission EXCEPT ![t] =
         [state |-> IF @.sent + 1 = Chunks(t) THEN end ELSE "chunk",
          sent |-> @.sent + 1, flight |-> "none"]]
  /\ UNCHANGED <<log, files, memo, resolver, answers>>

(* Fault: a chunk without a receipt is sent again.                         *)
SendAgain(t) ==
  /\ submission[t].state = "receipt"
  /\ submission' = [submission EXCEPT ![t].state = "chunk", ![t].flight = "none"]
  /\ UNCHANGED <<log, files, memo, resolver, answers>>

ReceiptFails(t) ==
  /\ submission[t].state = "receipt"
  /\ submission' = [submission EXCEPT ![t].state = "failed"]
  /\ UNCHANGED <<log, files, memo, resolver, answers>>

(***************************************************************************)
(* resolve_file                                                            *)
(***************************************************************************)

ChunksIn(ms) == {j \in DOMAIN ms : ms[j] # Junk}

(* Sorted by their index; those of one index stay as they came.            *)
Position(ms, j) ==
  Cardinality({k \in ChunksIn(ms) :
    ms[k].o < ms[j].o \/ (ms[k].o = ms[j].o /\ k <= j)})
Contents(ms) ==
  [i \in 1 .. Cardinality(ChunksIn(ms)) |->
    ms[CHOOSE j \in ChunksIn(ms) : Position(ms, j) = i].c]

(* build_payload_from_chunks: anything but a file fails to decode, or it   *)
(* decodes to something else.                                              *)
Payloads(ms) ==
  IF Contents(ms) \in DOMAIN Decoded THEN {Decoded[Contents(ms)]}
  ELSE {Nil, Garbled}

(* Fault: the file is not compared with the memo.                          *)
UncheckedPayloads(ms, f) == Payloads(ms) \ {Nil}

(* is_valid_hcs1_checksum.                                                 *)
CheckedPayloads(ms, f) == {p \in Payloads(ms) \ {Nil} : p = f}

(* Fault: topics that can be changed are accepted.                         *)
AnyFileTopic(t) == memo[t] # Nil

(* A topic that exists, has an HCS-1 memo and nobody can change.           *)
IsFileTopic(t) == memo[t] # Nil /\ t \notin AdminKeyed

Answered(v, t, p) ==
  /\ answers' = [answers EXCEPT ![t] = @ \cup {p}]
  /\ resolver' = [resolver EXCEPT ![v] = Resting]

ResolveCached(v, t) ==
  /\ resolver[v] = Resting
  /\ files[t] # Nil
  /\ Answered(v, t, files[t])
  /\ UNCHANGED <<log, files, memo, submission>>

(* No file in the cache: the topic's memo is read and checked.             *)
BeginResolve(v, t) ==
  /\ resolver[v] = Resting
  /\ files[t] = Nil
  /\ IsFileTopic(t)
  /\ resolver' = [resolver EXCEPT ![v] = [topic |-> t, memo |-> memo[t]]]
  /\ UNCHANGED <<log, files, memo, submission, answers>>

(* The read from the epoch came as far as message n.                       *)
FinishResolve(v) ==
  LET t == resolver[v].topic IN
  /\ t # Nil
  /\ \E n \in 0 .. Len(log[t]) :
       \E p \in CheckedPayloads(SubSeq(log[t], 1, n), resolver[v].memo) :
         /\ files' = [files EXCEPT ![t] = p]
         /\ Answered(v, t, p)
  /\ UNCHANGED <<log, memo, submission>>

(* The read fails, or there is no file, or it is not the one of the memo.  *)
ResolveFails(v) ==
  /\ resolver[v].topic # Nil
  /\ resolver' = [resolver EXCEPT ![v] = Resting]
  /\ UNCHANGED <<log, files, memo, submission, answers>>

(* wait_for_visibility resolves the file, without the cache, until it gets *)
(* the one it submitted, or for as long as its timeout lasts.              *)
SeesFile(t) ==
  /\ submission[t].state = "waiting"
  /\ \E n \in 0 .. Len(log[t]) : FileOf[t] \in CheckedPayloads(SubSeq(log[t], 1, n), memo[t])
  /\ submission' = [submission EXCEPT ![t].state = "done"]
  /\ UNCHANGED <<log, files, memo, resolver, answers>>

WaitTimesOut(t) ==
  /\ submission[t].state = "waiting"
  /\ submission' = [submission EXCEPT ![t].state = "failed"]
  /\ UNCHANGED <<log, files, memo, resolver, answers>>

(***************************************************************************)
(* Everyone else: holders of the submit key post to the topic, holders of  *)
(* the admin key change the memo.                                          *)
(***************************************************************************)

Foreign == [o : 0 .. MaxPosts - 1, c : Content]

Post(t) ==
  /\ memo[t] # Nil
  /\ Len(log[t]) < MaxPosts
  /\ \E m \in Foreign \cup {Junk} : log' = [log EXCEPT ![t] = Append(@, m)]
  /\ UNCHANGED <<files, memo, submission, resolver, answers>>

ChangeMemo(t) ==
  /\ \E f \in File \cup {Nil} : memo' = [memo EXCEPT ![t] = f]
  /\ UNCHANGED <<log, files, submission, resolver, answers>>

(* Time to live, capacity, or a new entry for the topic's messages.        *)
ExpireFile(t) ==
  /\ files[t] # Nil
  /\ files' = [files EXCEPT ![t] = Nil]
  /\ UNCHANGED <<log, memo, submission, resolver, answers>>

SubmitStep(t) ==
  \/ CreateTopic(t)
  \/ CreateFails(t)
  \/ Execute(t)
  \/ ExecuteFails(t)
  \/ ReceiptSucceeds(t)
  \/ ReceiptFails(t)
  \/ SeesFile(t)
  \/ WaitTimesOut(t)

ResolveStep(v) ==
  \/ \E t \in Topic : ResolveCached(v, t) \/ BeginResolve(v, t)
  \/ FinishResolve(v)
  \/ ResolveFails(v)

Next ==
  \/ \E t \in Submitted : SubmitStep(t) \/ Consensus(t)
  \/ \E v \in Resolver : ResolveStep(v)
  \/ \E t \in Topic : Post(t) \/ ExpireFile(t)
  \/ \E t \in AdminKeyed : ChangeMemo(t)

(* A call of submit_file is a task of its own that is never starved.       *)
Spec == Init /\ [][Next]_vars /\ \A t \in Submitted : WF_vars(SubmitStep(t))

-----------------------------------------------------------------------------
TypeOK ==
  /\ log \in [Topic -> Seq(Chunk \cup {Junk})]
  /\ files \in [Topic -> File \cup {Nil}]
  /\ memo \in [Topic -> File \cup {Nil}]
  /\ submission \in [Submitted ->
       [state : {"idle", "chunk", "receipt", "waiting", "done", "failed"},
        sent : Nat, flight : {"none", "flying", "landed"}]]
  /\ \A t \in Submitted : submission[t].sent <= Chunks(t)
  /\ resolver \in [Resolver -> [topic : Topic \cup {Nil}, memo : File \cup {Nil}]]
  /\ answers \in [Topic -> SUBSET File]

(* What a topic resolves to is settled once and for all: every answer that *)
(* any caller ever gets for it, from the network or from the cache, is the *)
(* same file, and for a topic made by submit_file it is the file that was  *)
(* submitted, whatever holders of the keys do (file.rs 129-196).           *)
FilesAreFinal ==
  \A t \in Topic :
    /\ Cardinality(answers[t]) <= 1
    /\ t \in Submitted => answers[t] \subseteq {FileOf[t]}

(* When all receipts were good, all chunks are on the topic, so a read of  *)
(* the whole topic gives the file until someone else posts a chunk; posts  *)
(* that are no chunks do no harm (file.rs 84-96, 180-188).                 *)
AckedFileReadable ==
  \A t \in Submitted :
    submission[t].sent = Chunks(t) =>
      /\ Cardinality(ChunksIn(log[t])) >= Chunks(t)
      /\ Cardinality(ChunksIn(log[t])) = Chunks(t) => Payloads(log[t]) = {FileOf[t]}

(* submit_file comes to an end: no error is retried and the wait for       *)
(* visibility has a timeout (file.rs 84-124).                              *)
SubmissionsReturn ==
  \A t \in Submitted : <>(submission[t].state \in {"done", "failed"})
================================================================================
