--------------------------- MODULE ReviewBatches ---------------------------
(***************************************************************************)
(* How a review run cuts an assessment into provider calls, and what it    *)
(* makes of the replies: questions are grouped by domain and the groups    *)
(* cut into chunks; a chunk is one batch call, each question the batch     *)
(* left open gets a call of its own; answers from elsewhere go along as    *)
(* peers, so that a contradiction across domains can be noticed.           *)
(***************************************************************************)
EXTENDS Aggregate

\* What a provider may leave out.
NoReply == [score |-> -1]

\* Mutant: a domain met again starts its group afresh.
RegroupOnReturn(questions) ==
  LET order == DomainOrder(questions)
      of(d) == OfDomain(questions, d)
  IN  [i \in DOMAIN order |-> <<of(order[i])[Len(of(order[i]))]>>]

GroupByDomain(questions) ==
  LET order == DomainOrder(questions) IN
  [i \in DOMAIN order |-> OfDomain(questions, order[i])]

ChunkQuestions(questions, size) ==
  LET s   == IF size < 1 THEN 1 ELSE size
      len == Len(questions)
      end(c) == IF c * s > len THEN len ELSE c * s
  IN  [c \in 1 .. ((len + s - 1) \div s) |-> SubSeq(questions, (c - 1) * s + 1, end(c))]

\* The calls of a run, in order.
Chunks(questions, size) ==
  LET groups == GroupByDomain(questions) IN
  FlattenSeq([i \in DOMAIN groups |-> ChunkQuestions(groups[i], size)])

\* Every step-th answer from the first one on, at most limit of them.
BuildPeers(questions, limit) ==
  LET answered == Sublist(questions, {i \in DOMAIN questions : ~questions[i].blank})
      n    == Len(answered)
      step == IF n > limit /\ limit > 0 THEN n \div limit ELSE 1
      all  == (n + step - 1) \div step
  IN  [k \in 1 .. (IF all > limit THEN limit ELSE all) |-> answered[(k - 1) * step + 1]]

\* Mutant: the chunk is shown its own answers as peers.
ExcludeNobody(peers, chunk) == peers

ExcludeSelf(peers, chunk) ==
  Sublist(peers, {k \in DOMAIN peers : \A i \in DOMAIN chunk : chunk[i].id # peers[k].id})

(***************************************************************************)
(* The replies                                                             *)
(***************************************************************************)
NeedsFollowUp(reply) == \/ reply = NoReply
                        \/ ~reply.sure
                        \/ ~reply.draft

\* Mutant: a question whose follow-up failed has failed, whatever the batch said.
SettleOnSingle(batch, single) ==
  IF NeedsFollowUp(batch) THEN single ELSE batch

\* The batch's reply if it will do; else the single call's; else, for want of
\* a better one, the batch's again.  NoReply: the question has failed.
Settle(batch, single) ==
  IF NeedsFollowUp(batch) /\ single # NoReply THEN single ELSE batch

\* Mutant: a question without a reply keeps that of the question before it.
RepliesCarriedOver(chunk, batch, single) ==
  LET own(k)     == Settle(batch[chunk[k].id], single[chunk[k].id])
      replied(i) == {k \in 1 .. i : own(k) # NoReply}
  IN  [i \in DOMAIN chunk |->
         IF replied(i) = {} THEN NoReply
         ELSE own(CHOOSE k \in replied(i) : \A j \in replied(i) : j <= k)]

\* What a chunk's calls make of its questions: a reply to store, or none.
ReviewChunkReplies(chunk, batch, single) ==
  [i \in DOMAIN chunk |-> Settle(batch[chunk[i].id], single[chunk[i].id])]
=============================================================================
