# A formal model of hiero-did-sdk-rs

`hiero-did-sdk-rs` writes and reads `did:hedera` identifiers. A DID is a public key plus a
topic of the Hedera Consensus Service; its document is whatever a resolver makes of the
messages on that topic. There is no server: everything that must hold between a writer and a
reader has to hold through an append-only log that anyone may post to, that is written by
transactions whose fate may stay unknown, and that is read by code which shares no state with
the writer. That is what this project specifies (TLA+), model-checks (TLC) and proves (TLAPS).

All paths below are relative to the repository.

## 1. Inventory

| Component | State | Operations | Talks to | What is hard | What makes it correct |
|---|---|---|---|---|---|
| document builder `resolver/src/builder.rs`, `messages/src/events.rs` | the fold's locals: controlling key, methods, relationship buckets, services, controller, times, `deactivated`, `exists` | one round per message: filter, decode, verify, apply; tombstone; final document | topic readers | authority depends on all earlier messages; early exits in the middle of an update; hostile or repeated messages | only the controlling key has effects; documents are complete or absent; nothing is taken back |
| readers and polling `resolver/src/{mirror,grpc_reader,hcs_topic_reader,resolve}.rs`, `sdk/src/sdk.rs`, `utils/src/polling.rs` | cursor, deadline, quiet counter | fetch, page, subscribe, wait until stable | mirror node | truncated reads, deadlines racing answers | a reader returns a prefix; a wait ends when its requests do |
| own-key registrar `registrar/src/{create,update,deactivate}.rs` | position in the batch, try counter | `create_did`, `update_did`, `deactivate_did` | hcs, lifecycle, signer | unknown receipts, retries, half-written batches, orphaned topics | order, no blind retry, no DID lost, truthful verdicts |
| client-side signing `registrar/src/{csm,create_csm,update_csm,deactivate_csm}.rs` | signing and submit requests, kept by the application | prepare, `into_submit_request`, submit, batch | hcs, the application | requests are values that are stored, copied and replayed; expiry during a batch | only authentic, unexpired batches are written; resubmission repairs |
| hcs topics `hcs/src/hcs/topic.rs`, `signing.rs`, `shared/awaiter.rs` | slot for signing errors | create, update, delete, get_info, submit | the network, signer | one signature per node tried; execute/receipt split; visibility timeouts | success is true; an error says what may have happened; every call ends |
| hcs messages, cache, files `hcs/src/hcs/{message,file}.rs`, `hcs/src/cache`, `service.rs` | cache entries per network name and topic | choose a network, read with cache, submit and resolve files | client, the network | read–await–write of the cache; several names for one network; idle timeout; chunks | a read gets one network's messages; the cache holds prefixes; a file is whole or an error |
| lifecycle `lifecycle/src` | step index, status, signature | process, resume | registrars | resume twice, pause in the middle | every step runs once, in order |
| signer `signer/src` | cached public key | make a signer, sign, verify | Vault | rotation behind the cache, also while a signer is being made | signatures verify under the announced key |
| client `client/src` | configuration | look up networks, build clients | hcs | aliases that name two networks | one name, one network |
| anoncreds `anoncreds/src` | revocation lists on topics | register, resolve | hcs files and messages | read–diff–append by two writers | no revocation is lost |
| messages `messages/src` | none | write events and envelopes, decode them | registrars, resolver | events are untagged: what is missing decides what a message is | a message is read as what was asked for |
| sdk `sdk/src/sdk.rs` | none | forwards; `resolve_did_until` | all | – | a wait ends |
| core, method `core/src`, `method/src` | none | parse, validate, encode | all | – | round trips |

### Interaction

A registrar call builds messages, has them signed (lifecycle and signer), and hands each to
`HcsTopic::submit`, which awaits `execute()` (a node took the transaction in) and
`get_receipt()` (consensus). Between any two awaits other calls, and the network, take steps.
A resolver reads the topic in consensus order and folds it. Writer and reader share nothing
but the topic.

## 2. Modules

```
DidKeys ──── DidDocument ── DidResolver ── DidStrangers          (reader)
   │              │             ├── ControlledDid   (abstract, refined by DidResolver)
   │              │             └── DidResolver_proofs (and DidStrangers' theorem)
   │         DidMessages                                          (how messages are written and read)
   │              │   └── DidDocument_proofs (used by the proofs for DidResolver, DidSystem, CsmSystem)
   └ TopicLedger ─┼── DidRegistrar                                (own-key writer)
         │        │        ├── OrderedPublisher     (abstract, refined by both writers)
         │        ├─────── DidSystem ── DidSystem_proofs          (writer + reader; both modules)
         └── CsmFlow ── CsmSystem ── CsmFlow_proofs               (external signing; with reader)

Options ──┬── TopicMessages ─────┐                                (gRPC reads and their cache)
          ├── ClientService ─────┼── HcsService ──┐               (one service for all networks)
          │     ┌── TopicAdmin ──┘                ├── HcsCallers ── HcsService_proofs
          ├ VaultSigner                           │               (its callers, and pipelines)
          │     └── LifecycleRunner ──────────────┘               (pipelines)

MirrorWaits ── MirrorWaits_proofs          (REST reads and polling)
HcsFile ── HcsFile_proofs                  (files on topics)
RevocationRegistry ── RevocationRegistry_proofs   (status lists on a topic)
```

The last three stand alone: files and status lists have topics to themselves, and what
`DidDocument` needs of the readers is that a read is a prefix of the topic, which is what
`TopicMessages` and `MirrorWaits` are about.

| Module | Models | State and actions against the code |
|---|---|---|
| `DidKeys` | parameters shared by writers and readers | `Key`, `Nil` |
| `DidDocument` | the loop body of `DidDocumentBuilder::resolve` and its result | `State` is the tuple of locals at `builder.rs` 59–72; `Counts` the filters and the signature test; `Effect` the match; one `Apply…` operator per applicator; `Outcome` the returned document; `Folded` the loop over a whole sequence. Constant-level, so that others can compose it |
| `DidResolver` | a topic anyone posts to, and the fold over every prefix | `Receive(m)` is one round of the loop; the state after n messages is what a call that reads n messages computes |
| `ControlledDid` | what a DID promises its readers | `Edit`, `Establish`, `HandOver`, `End`, `Ignored` |
| `DidStrangers` | two readings of a topic: everything, and insiders' posts only | a self-composition: `doc` and `heard` take the same step or only `doc` does |
| `TopicLedger` | the network (external) | transactions taken in (`opening`, `pending`), open topics (`doors`) with their submit keys, and `log`; `Decide` appends or drops |
| `OrderedPublisher` | what a batch call promises its caller | `Begin`, `Send`, `Appear`, `Vanish`, `Succeed`, `Fail` |
| `DidRegistrar` | create / update / deactivate with an own key | one action per await outcome: `TopicTaken`, `TopicFails`, `TopicConfirmed`, `TopicUnconfirmed`, `SignItem`, `SignFails`, `ExecuteTaken`, `ExecuteFails`, `ReceiptSucceeds`, `ReceiptFails`, and the three entries with their early returns |
| `DidSystem` | registrar calls and the resolver over the topics they write | `doc[t]` is `DidDocument`'s fold over `log[t]` |
| `CsmFlow` | prepare – sign – submit, with a clock | sessions (signing requests) and calls (submissions) are separate: one request may be submitted several times |
| `CsmSystem` | CSM and the resolver | signatures become the key a message verifies under |
| `DidMessages` | what each registrar operation puts into its envelope, and how `DIDEvent` tells events apart | constant-level. `Payload` writes an operation as an object's name and its members; `KindOf` takes the first variant whose required members are there; `ReadBack` is the two in a row. `DidSystem` and `CsmSystem` fold what is read back, never what was asked for |
| `TopicMessages` | `get_topic_messages_with_cache` by several readers of a shared cache | one action per point where a read awaits something (`BeginRead`, `Deliver`) and per way it ends (`StreamFails`, `FinishRead`); `Expire` is the cache's eviction. A message is its topic and sequence number |
| `ClientService` | which configurations are accepted, which network a name means, and when a call gets no client | `Acceptable`, `ResolveNetworkConfig`, `GetClient` |
| `VaultSigner` | a signer's public key, read once, and the key in Vault | `NewSigner` may be answered with any of the versions that were not trimmed; `Rotate` is Vault's; `Signatures(s)` what a request to sign may return |
| `TopicAdmin` | create, update and delete of topics | one action per await outcome: a node takes the transaction, does not answer, or refuses it; receipt; poll. `Lands` is consensus, also after the caller gave up; `OthersChange` another holder of the admin key |
| `HcsService` | `HederaHcsService`: reads and topic calls on the networks of one configuration, through one cache | `GetTopicMessages`, `NoClient`, `TopicCall` choose the network and go on to the modules above |
| `HcsCallers` | one process: the callers of a service, and the tasks that run pipelines | `CallersNext`: a step of the service or one of a run; they share the signers only |
| `LifecycleRunner` | `process` and `resume` of a pipeline | one action per step kind, for hooks, for failures and for the catch step; `kept` are the `RunnerState`s that were handed out, each of which may be resumed any number of times |
| `MirrorWaits` | `poll_until` and the three calls built on it, over the paged REST reader | `Serve` is the mirror node answering one page, `NextPage` the `while let`; a poll ends in `PollSucceeds`, `PollContinues` or `TimesOut`, or, on an error, `ReadFails`. `now` is the clock |
| `HcsFile` | `submit_file` and `resolve_file` | one action per await outcome of the submission; `BeginResolve` reads the memo, `FinishResolve` the messages and does all that follows; `SeesFile`, `WaitTimesOut` are the visibility wait (`awaiter.rs`) |
| `RevocationRegistry` | `register_revocation_status_list` and `resolve_revocation_status_list` | `Register`, then the read (`ReadCurrent`, `ReadFails`, `RejectLength`), then the append (`Lands`, `SubmitFails`, `ReceiptSucceeds`, `ReceiptFails`); a failed append may land later (`LateEntry`) |

`Options` has the value that stands for `None`. `MC…` modules fix the constants;
`MCRevocationRegistry` also has the entry-by-entry loop that `RevokedBy` summarises, and assumes
that the two agree on all short topics (`LoopAgrees`, which TLC evaluates). Definitions under "Fault:" comments are not part of the
specifications: each is a plausible mistake in the definition that follows it, kept so that
every property can be seen to fail when the code is wrong in that way. Nothing uses them.

### Abstractions

* **Keys and signatures.** A message carries the key its signature verifies under, or none.
  `OffCurve` is 32 bytes that are not a curve point, `Garbled` an encoding that does not decode:
  the two failures of `effective_key_bytes` and `InternalVerifier::from_bytes` differ in what the
  loop has already done.
* **Fragment ids** fall in the classes the guards tell apart: the root key's id, the DID's own,
  ids of a DID whose string extends this one, all others. Root keys' ids of such DIDs are left
  out: events about methods are refused for every id that ends like one (`builder.rs` 338).
* **Bytes, base64, JSON** are abstracted to an object's name and its members (`DidMessages`), and
  in `DidResolver`, where anyone posts, to the decoded event. `DIDEvent` is an untagged enum, so
  an add event that lacks a member *is* a remove event by the time it is applied.
* **execute() and get_receipt().** An `execute()` that fails may have been taken in all the same
  (`TxOf(c, FALSE)`). The comment at `create.rs:186` says nothing was sent; the model does not
  rely on it, and `DuplicatesHarmless` shows why it need not be true.
* **Consensus** takes pending transactions in any order, one at a time, or never.
* **Backoff** is not timed; only the number of tries matters.
* **Streams** (`TopicMessages`) deliver messages in order and without a gap, and may end, idle
  out or fail after any of them. Retries below the SDK are not visible to this code.
* **Compression, base64 and hashes** (`HcsFile`) are abstracted to what a sequence of chunk
  contents decodes to; a prefix of one file's chunks may be another file. A file is its hash.
* **Status lists** (`RevocationRegistry`) are sets of revoked indices with a length;
  accumulators are the numbers of the registrations, so that they are never empty: a list with
  an empty accumulator is appended by the code and ignored by all its readers. The timestamp of
  a list bounds what the registration reads, and every bound is a possible `n` of
  `ReadCurrent`. Nothing in `anoncreds` writes the message cache (all its reads have a start and
  an end time), so the cache is left out.
* **Keys of topics** (`TopicAdmin`): a creation with an admin signer may have a submit signer
  too; the two are signed alike and one `keyed` stands for both. Expiration times behave like
  auto-renew periods.
* **Networks** (`ClientService`) are known by their place in the configuration; a client is known
  by its network.
* **Versions of a key** (`VaultSigner`) are numbers, and a signature is the version that made it.
* **Pipelines** (`LifecycleRunner`): a message is known by what was done to it; callbacks and
  hooks may succeed or fail, and otherwise leave the run alone. Every call brings a signature of
  its own, or none.
* **Time** (`MirrorWaits`) is an integer that any step may find advanced; sleeps last at least
  as long as they were asked to.
* **Parsing the topic id** out of the DID fails before anything else happens; DIDs in the model
  parse.

## 3. Runs

| Run | Shows |
|---|---|
| `resolver` | On a topic where two keys that may control the DID and a stranger post any message in any order, and any number of them: the document's shape; complete or absent (`EstablishedTogether`); dereferencing the root key's id gives the controlling key (`RootKeyControls`); immediate redelivery is inert; nothing is taken back (`OutcomeStable`); what strangers post, or what is about other DIDs, cannot be noticed by any reader (`StrangersInert`); the fold implements `ControlledDid` |
| `registrar` | A create and two further calls (update, deactivate; right key, wrong key, unparsable key; valid and malformed items), two paying accounts, two tries: `NoBlindRetry`, `NoLostDid`, `AckedDidResolves`, `TombstoneFinal`, `DuplicatesHarmless`, refinement of `OrderedPublisher`, every call returns |
| `csm` | A create session and an update or delete session with an expiry, three submissions, of each message with any signature (the right one, another message's, another key's), a clock: `OnlyAuthentic`, `ExpiredStaysOut`, `ResubmissionHeals` (over messages as they are written and decoded), refinement of `OrderedPublisher`, every submission returns |
| `topic_reads` | A service for each of several configurations. Two readers of growing topics with equal ids on two networks, with the requests and network names that callers use: a read gets the messages of the network it went to (`NetworksApart`), reads from the epoch that found no cache entry are prefixes (`EpochReadsArePrefixes`), no cache entry is replaced by one that holds less than its writer found there (`WritesKeepSnapshot`). An administrator of a topic with a Vault signer, and others who change the topic: `OkMeansDone`, `TopicCallsReturn`. Two tasks that run and resume pipelines: `RunsAreWhole`, `SignedAsAnnounced` |
| `mirror_waits` | One wait of each kind against a lagging mirror node: `QuietOnMirror`, `TimeoutsAreTruthful`, every wait ends unless one of its requests is left open for ever (`WaitsReturn`) |
| `files` | A submission of two chunks and resolvers of it and of a changeable topic, while others post: `FilesAreFinal`, `AckedFileReadable`, every submission ends (`SubmissionsReturn`) |
| `revocation` | Two processes and three registrations over stale, truncated and failed reads: `RevocationSticks`, `FreshListWins`; and `LoopAgrees` for the summary of the loop, an assumption that is evaluated before the run |
| `both_encodings` | counterexample, see 6 |
| `sibling_fragments` | counterexample, see 6 |
| `submit_key` | counterexample, see 6 |
| `csm_expiry` | counterexample, see 6 |
| `own_writes` | counterexample, see 6 |

### Bounds, and why they are enough

* `resolver`: no bound on the length of the topic. The fold's state is finite, and
  TLC visits all of it. Two keys distinguish "the controller" from "another"; a third is added
  where strangers and successors must differ. Two stamps distinguish "the first" from "a later"
  one. One id of each class: the applicators treat ids independently. Messages for another DID
  are restricted to the kinds that would do most harm (`MCDidResolver`).
* `registrar`: three calls. The protocol relates a call to its topic, and at most one call
  creates a topic, so one creator and two interfering callers cover the pairs. `MaxTries = 2`
  (the code has 3) gives a first, a last and no middle try; the proofs are for every
  `MaxTries`. Batches have at most two items: a first and a last.
* `csm`: `Horizon = 1` gives "before" and "after" the expiry. Two submissions of one session
  interfere; the third is the creation. The update batch is one in which order matters (add a
  method, then an alias of it), and of two items, so that a list of signatures may be right in
  the first place and wrong in the second. Submissions bring every list over `Signer`; one of
  the two that interfere has no signatures of another key (`MCSigner`), which the creation and
  the other submission have. The theorems are for all requests and all `Signer`.
* `topic_reads`: a behaviour is about readers, or the administrator, or the tasks (`scope`).
  These share no variable but the signer's, which neither reads nor writes anything of the
  others: every interleaving of the three projects to one behaviour of each, and the properties
  are about one each, so nothing is lost by checking them apart. `CallersSpec` (`HcsCallers`) is the
  whole composition, and the theorems hold of it (`CallersAreSafe`). Three messages (`MaxTail`) give a cached prefix, a
  hole and a fresh end; on the second network one message suffices to be taken for the first
  one's. Two readers are enough for one to overwrite the other's entry, for which the second must
  be of the kind that caches. The configurations are a single network with the name of the cache
  entries of nameless calls, two with it second, two with a clash of aliases, one that is
  unusable, and the two that are refused. Two nodes (`MaxNodes`) are a first and a last one, and
  so are two polls (`MaxPolls`). Two versions of the key (`MaxVersion`) are before and after a
  rotation. Four calls (`MaxRuns`) start a run, pause it, and resume one state twice, in any order
  of two tasks.
* `mirror_waits`: three messages with pages of two give a full and a short page, one of each
  before and after a wait begins. The window is two intervals, the timeout three; the horizon
  leaves room for a call that begins at 0 and for its last sleep.
* `files`: two chunks are a first and a last one; two foreign posts may come before, between and
  after them, and may themselves be the chunks of another file.
* `revocation`: two credentials, so that an entry may revoke one and un-revoke the other; three
  registrations, since a difference is taken against the result of two others at most.

### Fairness

`FairSpec` and `SysSpec` assume weak fairness of a call's own steps, and nothing else: a future
that a caller awaits is polled until it completes, and the SDK's network requests are answered
or time out, so that a call that waits for an outcome gets one (`ReceiptFails` included). No
fairness is assumed of consensus (`Network`), of the application (`Enter`, `Submit`) or of the
clock. `CallsReturn` therefore says that a dead network cannot keep a call from returning.
`HcsFile` assumes the same of `submit_file`, and `MCHcsService` of the steps of a topic call
(`CallStep`): `TopicCallsReturn` does not lean on consensus, since a receipt may fail, nor on
queries, since each poll looks at the clock. `MirrorWaits` assumes that the call takes the steps
that are its own (`Proceed`: the next page, the verdict of a poll, waking up) and that time
passes. Nothing makes the mirror node take messages in, answer a request or let it fail: the
`reqwest` clients of `mirror.rs` 40–60 have no timeout, and `polling.rs` 18 awaits a poll for as
long as it takes. `WaitsReturn` therefore has a premise, that no request stays open for ever
(`EveryRequestEnds`); without it TLC finds the wait that hangs in a request. `TopicMessages`
claims no liveness: every message starts a new idle time, so a read of a topic that is posted to
without pause never ends. Pipelines claim none either: callbacks are the caller's.

`CHECK_DEADLOCK FALSE` is used where a behaviour may end: every call has returned and the
ledger is settled; in `topic_reads`, tasks have made `MaxRuns` calls.

## 4. What is proved

For every value of the constants that satisfies the modules' named assumptions:

* `DidDocument_proofs` is about one round of the resolver's loop, from any state and for any
  message. `StepType` gives one lemma per applicator; `StepCases` says that a round leaves the
  state, edits it without touching what owners establish, establishes an owner, or ends the DID;
  `RedeliveryIsInert` that a message read twice in a row is a message read once. The fold over
  a topic (`Folded`) is a recursive function; what is shown of it for every topic is shown by a
  least counterexample. `RereadBatch` is about a batch of edits that stands whole at the end of a
  topic, after messages of the same batch in any number and order (what broken-off and repeated
  submissions left): the document is the one that the batch alone would have made. The reason is
  an algebra of edits: for each component of the document the last edit that writes it decides
  (`Overwritten`), and the batch has an edit of every component that the messages before it wrote.
* `DidResolver_proofs`: `TypeCorrect`, `Established`, `AnchorFirst`, `RootKeyIsController`,
  `OutcomesAreStable`, `RedeliveryAlwaysInert`, and `Refinement` (the fold implements
  `ControlledDid`). The inductive invariant adds to `TypeOK` that control stays with the anchor
  until an owner event is accepted: without it, an off-curve key in a first owner event could
  not be excluded, because `exists` is set before the key is looked at (`builder.rs` 163–167).
  `RootKeyIsController` assumes that no owner event carries two encodings; `both_encodings`
  shows that the assumption is needed. `StrangersAreInert` holds for any set of insiders that
  never hands the DID to an outsider.
* `DidSystem_proofs`, first half: the registrar's calls. `Invariance` of `IInv`, for any calls,
  batches, retry bound and operators; from it `TypeCorrect`, `RetriesAreNotBlind`,
  `DidsAreNotLost`. `NoBlindRetry` alone is not inductive: it needs that all copies of a call's
  current item have tries up to the current one, that there are none with the current try before
  its `execute()`, and that a copy that was heard exists only in the phases after it (`Sends`);
  `Shape` ties a call's fields to its phase, `Kept` says that items before the current one are on
  the topic. This is also all that `Refinement` of `OrderedPublisher` needs (`Progress`): of each
  call the items before the one it is at are on topics, that one may be there or have copies
  under way, and later ones are nowhere.
* `DidSystem_proofs`, second half: the calls and their readers together. `AckedDidsResolve` and
  `TombstonesAreFinal`, for any number of DIDs, calls, tries and wrong keys. The argument has
  three parts. What a call writes is read as it was meant (`Meaning`: through `Payload`, the
  first variant of `DIDEvent` that fits, and `Decoded`). A topic is written by its creator and by
  calls that learned of it from a creator who is done (`Sited`); hence no tombstone can precede
  the owner message that a `create_did` still waits for. And what readers have is held against
  what was posted (`Faithful`): a posted tombstone of the owner has ended the document, a posted
  owner message of a creator that has not failed has established it. `SystemAssumption` says what
  the three calls make of their arguments; in particular none of them writes a rotation.
  `RepeatsAreHarmless` (`DuplicatesHarmless`) holds the document against the one with every
  message sent once (`OnceInv`): only the owner message of a creation is ever sent again (`Once`), and
  a copy of one finds the DID established, so that nothing but the time changes (`Settled`). `DocumentsAreFolds` says that what the model keeps step by step is what
  a reader computes who starts over.
* `CsmFlow_proofs`: `Invariance` of `IInv`, for any sessions, submissions and clock, and
  lists in which right and wrong signatures are mixed in any way; from it `TypeCorrect`, `AuthenticOnly`, `ExpiredSendsNothing`. A message that was
  accepted stays authentic until it goes out because sessions never change once they are prepared
  (`Origin`). `Refinement` of `OrderedPublisher` adds `AccountInv`: where the items of each
  submission are, by how far it has come. `ResubmissionsHeal` (`ResubmissionHeals`) is about
  sessions and resolver together: `LineInv` says that the items a submission sent stand on the
  topic in line; hence, once it succeeds with nothing after it, its whole batch stands at the end
  (`BatchStands`); what is read there is what was meant (`Meant`); and before it are only items of
  the same batch (`ReadOnTopic`). The rest is `RereadBatch`. The hypotheses on the session's
  requests are in `CsmSystemAssumption`.
* `DocumentsKeepThePromise`, in `DidSystem_proofs` and in `CsmFlow_proofs`, puts the writers and
  `ControlledDid` together: what successive readers of a topic are told is, topic by topic, a
  behaviour of the abstract DID, whatever the calls, submissions and the network do. The two
  follow from `StepEvolves` (what one message may do to a DID), which also gives the refinement
  of `DidResolver`, and from the fact that what was sent is always read alike. It is stated as
  `Promise(t)!Init` of every topic and `[][Promise(t)!Next]` of all topics, which is the
  conjunction of the topics' specifications. TLC does not check this one in any run; it has
  gone through the state space of `registrar` without a counterexample.
* `HcsFile_proofs`: `TypeCorrect`, `FilesSettled` from `FilesInv` (the memo of a topic without
  admin key is written once; entries of the cache and answers are the file of that memo), and
  `FilesReadable` from `AckInv` (the chunks that a submission has receipts for are on the topic in
  order).
* `HcsService_proofs`: `ReadInv` (an entry of the cache is about one topic of one network,
  whatever names its readers use for it; a read collects messages of its topic) gives
  `NetworksStayApart`, `PrefixesAreRead` and `SnapshotsAreKept`, with `TypedInv` also `ReadTypes`;
  `AdminInv` gives `TopicTypes` and `SuccessIsTrue`, for any number of nodes and polls;
  `PipelineInv` gives `SignaturesVerify`, for any pipelines and any number of rotations; `WholeInv`
  gives `RunsGoThroughTheirSteps` (`RunsAreWhole`), however often a state is resumed. It says of a
  run, and of every state that was kept, that what was done to the message is what the steps
  `Before` the current one do, and by whom a signature under way was given. Each is a theorem
  about one part; `CallersTypes` and `CallersAreSafe` carry them over to the composition, since a
  step of one part is a stuttering step of the others, or, for runs, at most a rotation.
* `RevocationRegistry_proofs`. `Invariance` of `IInv`, for any lists, any size of the registry,
  any number of processes and of registrations; from it `TypeCorrect`, `RevocationsStick`,
  `FreshListsWin`. What makes `RevocationSticks` inductive is a fact about entries under way: a
  credential that a list revokes is named by its entry, or was revoked on the part of the topic
  that was read (`seen`), and then is so still unless a later entry un-revoked it. The lemmas
  `AppendedEntry` and `ReadStays` say what one more entry does to the status of a credential.
* `MirrorWaits_proofs`. `Invariance` of `IInv`, for any page size, interval, window and timeout;
  from it `TypeCorrect`, `StableMeansQuiet`, `TimeoutsTellTheTruth`. The strengthening says when
  the mirror node took in what the window began with (`Counted`) and what a complete read did not
  find (`Unseen`), and with which fields a call ends (`Ended`).

Only model-checked: liveness under fairness (`CallsReturn`, `TopicCallsReturn`, `WaitsReturn`,
`SubmissionsReturn`), which is out of the prover's reach, and `LoopAgrees`, which is about a fold
that is defined with the operators of the community modules. Every safety property that a run
checks and that holds is proved.

## 5. Hazards and properties

`PROJECT.json` lists each place where this code can go wrong in a way that a unit test would
hardly reach, and the properties that watch it. Two examples of what the properties say:

* `TombstoneFinal` relates a writer's verdict to every later reader: after `deactivate_did`
  returned, late copies of the creation (a retried `execute()` that had gone through) may still
  be appended, and must not bring the document back.
* `ResubmissionHeals` is the reason why a CSM batch that broke off can simply be submitted
  again: whatever mixture of copies is on the topic, a last complete submission makes the
  document what a single undisturbed one would have made.

## 6. Findings

* `both_encodings`: an owner event with both `publicKeyMultibase` and `publicKeyBase58` is
  controlled by the one and published under the other (`messages/src/events.rs` 54–81).
* `sibling_fragments`: the `starts_with` test accepts ids of a DID whose topic number extends
  this DID's (`resolver/src/builder.rs` 338, 412).
* `submit_key`: `create_did_topic` makes the owner key the submit key, but `HcsTopic::submit`
  signs with the operator only: unless the two keys are the same, the owner's messages are
  refused (`registrar/src/create.rs` 47–51, `hcs/src/hcs/topic.rs` 362).
* `csm_expiry`: a batch may be rejected as expired after its first messages were submitted
  (`registrar/src/csm.rs` 448–450, `docs/csm.md` 116).
* `own_writes`: `wait_for_mirror` is satisfied by any message, so after a deactivation it does
  not wait for anything (`resolver/src/mirror.rs` 63–64 and 77, `docs/resolve-did.md` 56).
  `wait_for_mirror_stable` has the same weakness when the mirror node lags by more than the
  window, which a comment in `sdk/tests/integration_sdk.rs` 95–96 notes; `resolve_did_until`
  does not.

Noted while modelling, without a document that says otherwise:

* Concurrent registrations, and reads of the previous list that fail or idle out early, never
  lose a revocation, but may lose an un-revocation without an error (`registry.rs` 189–197); the
  first list of a registry is accepted with any length.
* `HcsTopicReader` asks for no start time, and so gets what is posted after it subscribed
  (`grpc_reader.rs` 69–73 explains this for the other reader), merged with the cache: through a
  warm cache the result may have holes. Of two readers at a time, the later overwrites what the
  earlier put into the cache. A cached topic is subscribed to all the same, although
  `hcs_topic_reader.rs` 19–20 says that it does not hit the network.
* Requests to the mirror node have no timeout, and the deadline of a wait is looked at only
  between polls: a request that is never answered keeps `wait_for_mirror`, which polls "or timeout"
  (`mirror.rs` 63; so `polling.rs` 9), beyond its timeout.
* The admin-key check of `resolve_file` matters: without it, a topic could resolve to one file
  and later, with more chunks and another memo, to another (the fault `AnyFileTopic`).
* The wait after deleting a topic ends when a query says that the topic is not found
  (`topic.rs`, modelled by `PollSees` of `TopicAdmin`); a query of a deleted topic may fail otherwise, and
  then the call reports a timeout although the topic is gone.
* The AnonCreds getters read without a network name (`registry.rs` 65, 108, 171): with more than
  one network configured they fail, as any call without a name does.
* Errors of the hooks of a pause leave `process` without passing the catch step.
* A custom network called `local` is never reached when a local node is configured before it:
  the first network that a name fits is taken.
* `update.rs` 47 and 61 show ids of the form `#key-1`. Such an event is signed, submitted and
  acknowledged, and then ignored by every reader, since the id does not start with the DID
  (`StartsWithDid`).
* Nothing reads or writes the cache's entries for topic information (`cache/mod.rs` 33–50).

## 7. Not modelled, and why

* **Representations** (`resolver/src/representation.rs`): renderings of a resolved document. They
  have no state, and a property would restate the format.
* **`core`, `method`**: parsing of DIDs and topic ids, key codecs, error types. Pure conversions;
  the models have the sets of values these keep apart, and start where they have succeeded.
* **The internal signer** holds one key for its lifetime; the registrar modules know its
  signatures by that key. The state that can go wrong is Vault's, in `VaultSigner`.
* **The facade** (`sdk/src/sdk.rs`) forwards; its one loop, `resolve_did_until`, is in
  `MirrorWaits`.
* **Schemas, credential definitions, registry definitions** (`anoncreds`): one `submit_file` or
  `resolve_file` each, as in `HcsFile`.
* **Liveness of message reads**: there is none (see Fairness).
* **Rotation in client-side signing**: the expected key is the one in the DID string, so after a
  rotation nothing that counts could be signed; but no call of the SDK writes a rotation, so no
  composition of its calls gets there.
* **The waits over documents**: `MirrorWaits` counts messages. `own_writes` is about counts, and
  that a prefix of a topic may resolve to an older document is what `DidResolver` shows.
* The wire formats of Hedera and Vault, gRPC retries and node selection are the SDK's below.

`PROJECT.json` names the lines behind every definition: about 39 % of the implementation's lines.
The rest is what is listed here, configuration and builders, and constructors and accessors
without decisions.
