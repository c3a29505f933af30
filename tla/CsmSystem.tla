------------------------------- MODULE CsmSystem -------------------------------
(***************************************************************************)
(* Client-side signing and what a resolver makes of the topics it writes.  *)
(* The items of a signing request are operations of DidMessages; a message *)
(* verifies under the key that signed it, if the signature was made over   *)
(* that message.                                                           *)
(***************************************************************************)
EXTENDS CsmFlow, DidMessages

(* What the sessions make of their arguments: a create session asks for    *)
(* one owner event with the key as multibase (create_csm.rs), an update    *)
(* session for edits, a delete session for the tombstone.  An event that   *)
(* is written is not an absent one.                                        *)
ASSUME CsmSystemAssumption ==
  /\ Expected = Anchor
  /\ \A s \in Session : \A r \in Request[s] : \A i \in 1..Len(r.items) :
       /\ [r.items[i] EXCEPT !.signer = Anchor] \in AnyMessage
       /\ r.items[i].did = "this"
       /\ r.items[i].kind # "delete" => Payload(r.items[i]).event # Nil
       /\ r.kind = "create" => /\ r.items[i].kind = "owner"
                               /\ r.items[i].id = "this" /\ r.items[i].base58 = Nil
       /\ r.kind = "update" => r.items[i].kind \in EditKind
       /\ r.kind = "delete" => r.items[i].kind = "delete"
       /\ r.items[i] \in Malformed <=> TurnedDown(r.items[i])

SessionOf(post) == call[post.call].session

MessageOf(post) ==
  ReadBack(Messages(SessionOf(post))[post.item],
           IF post.signature.over = post.item THEN post.signature.by ELSE Nil)

Resolved(messages) == Folded(messages, {})

ReadAll(posts) == [i \in 1..Len(posts) |-> MessageOf(posts[i])]

(* What the operations mean, signed as they should be.                     *)
Clean(s) ==
  [i \in 1..Len(Messages(s)) |-> [Messages(s)[i] EXCEPT !.signer = Expected]]

(* Submission x ran after all others of its session: its posts end the     *)
(* topic, and before them stand those of other submissions of the session, *)
(* in any state of completion, and before these whatever was there.        *)
RanLast(x, first, base) ==
  LET posts == log[session[call[x].session].topic]
      n == Len(posts)
  IN  /\ base < first /\ first <= n
      /\ \A i \in 1..n : SessionOf(posts[i]) = call[x].session <=> i > base
      /\ \A i \in 1..n : posts[i].call = x <=> i >= first

(* The remedy for a batch that broke off half-way, or whose fate is not    *)
(* known, is to submit it again as a whole.  A resubmission that succeeds  *)
(* and runs last heals the document: it is the one that the operations     *)
(* mean, also after they were written as events that are told apart by     *)
(* their members only (csm.rs 442-463, events.rs 8-18, builder.rs 139-224).*)
ResubmissionHeals ==
  \A x \in Call :
    call[x].verdict = "ok" =>
      LET posts == log[session[call[x].session].topic]
      IN  \A first, base \in 0..Len(posts) :
            RanLast(x, first, base)
              => Resolved(ReadAll(posts))
                   = Resolved(ReadAll(SubSeq(posts, 1, base))
                                \o Clean(call[x].session))
================================================================================
