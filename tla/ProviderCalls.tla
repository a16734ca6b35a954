---------------------------- MODULE ProviderCalls ----------------------------
(***************************************************************************)
(* A review run and its AI provider: the calls made for each chunk of      *)
(* questions, their retries, the second try after a reply that could not   *)
(* be read, the calls for single questions the batch left open, and what   *)
(* is stored in the end.  Whose the run is and what becomes of its job is  *)
(* ReviewQueue's subject, the summary's freshness Summary's.               *)
(***************************************************************************)
EXTENDS Payload

CONSTANTS
  Sheets,           \* the questionnaires, sequences of [id, domain, blank]
  BatchSize,
  PeerSampleSize,
  TopFindingLimit,
  MaxRetries,
  Providers,        \* [client, rejects]: rejects says that it refuses response_format
  Says,             \* what may be said of a question
  Usual             \* one of them

ASSUME BoundAssumption == BatchSize \in Nat \ {0} /\ MaxRetries \in Nat /\ PeerSampleSize \in Nat \ {0}
ASSUME FindingsAssumption == TopFindingLimit \in Nat
ASSUME UsualAssumption == Usual \in Says
\* A run has questions to review (review/service.go:284-286); ids are primary keys.
ASSUME SheetAssumption ==
  /\ Sheets \subseteq Seq([id : Ids, domain : STRING, blank : BOOLEAN])
  /\ \A s \in Sheets : s # <<>> /\ \A i, k \in DOMAIN s : s[i].id = s[k].id => i = k
\* The other client sends no response_format that could be refused.
ASSUME ProviderAssumption == \A p \in Providers :
  p.rejects \in BOOLEAN /\ (p.rejects => p.client = "openaicompat")

VARIABLES
  sheet,      \* the assessment's questions
  provider,
  chunk,      \* the number of the chunk under review
  call,       \* the call under way, or NoCall between two chunks
  batch,      \* the batch's replies by question of the chunk
  singles,    \* the single calls' replies so far
  stored,     \* review_results of this run by question
  progress,   \* the job's done and failed counts
  expired,    \* the job's context is over
  status,     \* of the run
  requests,   \* ghost: requests sent for this chunk
  heard,      \* ghost: the scores legibly and completely said of the chunk's questions
  vague,      \* ghost: those last answered by a reply cut short or of the wrong shape
  unlucky     \* ghost: something went wrong besides a refused response_format

vars == <<sheet, provider, chunk, call, batch, singles, stored, progress, expired, status,
          requests, heard, vague, unlucky>>

SheetIds  == {sheet[i].id : i \in DOMAIN sheet}
ChunksOf  == [s \in Sheets |-> Chunks(s, BatchSize)]
ChunkList == ChunksOf[sheet]
Current   == ChunkList[chunk]
IdsOf(c)  == {c[i].id : i \in DOMAIN c}
Past      == UNION {IdsOf(ChunkList[k]) : k \in 1 .. (chunk - 1)}

Call(kind, at) == [kind |-> kind, at |-> at, round |-> 1, attempt |-> 0, json |-> TRUE]
NoCall         == Call("none", 0)
Silent(c)      == [q \in IdsOf(c) |-> NoReply]

Init ==
  /\ sheet \in Sheets /\ provider \in Providers
  /\ chunk = 1 /\ call = Call("batch", 0)
  /\ batch = Silent(Current) /\ singles = Silent(Current)
  /\ stored = [q \in SheetIds |-> NoReply] /\ progress = [done |-> 0, failed |-> 0]
  /\ expired = FALSE /\ status = "running"
  /\ requests = 0 /\ heard = [q \in SheetIds |-> {}] /\ vague = {} /\ unlucky = FALSE

(***************************************************************************)
(* What goes over the wire                                                 *)
(***************************************************************************)
\* What may go wrong: no connection; 429 or 5xx; 400; another status; a body that is
\* no completion.
Failures  == {"transport", "busy", "bad request", "refused", "garbled"}

Retryable(o) == o \in {"transport", "busy", "bad request"}

\* The peers that go along with the chunk's calls.
PeersSent == ExcludeSelf(BuildPeers(sheet, PeerSampleSize), Current)

\* What a model writes about a question, a bracket and a quote in its prose.
Item(id, say) ==
  <<"{", "question_id:", Quote, id, Quote, ",", "risk_score:", say.score, ",">>
  \o <<"completeness:", Quote, say.completeness, Quote, ",", "flags:", "[">>
  \o (IF say.flagged THEN <<"{", "kind:", Quote, "vague", Quote, "}">> ELSE <<>>)
  \o <<"]", ",", "assessor_feedback:", Quote>>
  \o (IF say.feedback THEN <<"}", Backslash, Quote, "text">> ELSE <<>>)
  \o <<Quote, ",", "confidence:", say.confidence, "}">>

Listed(said, n) ==
  FlattenSeq([i \in 1 .. n |-> (IF i = 1 THEN <<>> ELSE <<",">>) \o Item(said[i].id, said[i].say)])

\* What stands before the first item, and after the last one.
Lead(r) == (CASE r.wrap = "fenced"  -> <<Fence>>
              [] r.wrap = "thought" -> <<"{", "text", ThoughtEnd>>
              [] r.wrap = "cited"   -> <<"text", "[", "1", "]">>
              [] OTHER              -> <<>>)
           \o (CASE r.shape = "results" -> <<"{", "results:", "[">>
                 [] r.shape = "array"   -> <<"[">>
                 [] r.shape = "object"  -> <<>>)
Trail(r) == (CASE r.shape = "results" -> <<"]", "}">>
              [] r.shape = "array"   -> <<"]">>
              [] r.shape = "object"  -> <<>>)
           \o (IF r.wrap = "fenced" THEN <<Fence>> ELSE <<>>)

Whole(r) == Lead(r) \o Listed(r.said, Len(r.said)) \o Trail(r)
Text(r)  == IF r.cut = 0 THEN Whole(r) ELSE SubSeq(Whole(r), 1, r.cut)

Reply(said, shape, wrap) == [said |-> said, shape |-> shape, wrap |-> wrap, cut |-> 0]

\* Every question is answered somehow, or the last is forgotten; or it is said in
\* another shape or dressing, or not to the end.
BatchReplies(c) ==
  LET about(f) == [i \in DOMAIN c |-> [id |-> c[i].id, say |-> f[i]]]
      usual    == about([i \in DOMAIN c |-> Usual])
      plain    == Reply(usual, "results", "plain")
  IN  {Reply(about(f), "results", "plain") : f \in [DOMAIN c -> Says]}
      \cup {Reply(Front(usual), "results", "plain"), Reply(usual, "array", "plain")}
      \cup {Reply(usual, "results", wrap) : wrap \in {"fenced", "thought", "cited"}}
      \cup {[plain EXCEPT !.cut = n] : n \in 1 .. (Len(Whole(plain)) - 1)}

SingleReplies(q) ==
  LET usual == <<[id |-> q, say |-> Usual]>> IN
  {Reply(<<[id |-> q, say |-> say]>>, "object", "plain") : say \in Says}
  \cup {Reply(usual, shape, "plain") : shape \in {"results", "array"}}
  \cup {Reply(usual, "object", "fenced")}
  \cup {[Reply(usual, "object", "plain") EXCEPT !.cut = n] : n \in 1 .. (Len(Item(q, Usual)) - 1)}

\* The items a reply says to the end, in a dressing that is looked through.
SaidInFull(r) ==
  {i \in DOMAIN r.said : /\ r.wrap # "cited"
                         /\ r.cut = 0 \/ Len(Lead(r)) + Len(Listed(r.said, i)) <= r.cut}

\* What there is to be said and what is read of it, looked up by chunk and by question.
AllChunks   == UNION {ToSet(ChunksOf[s]) : s \in Sheets}
BatchTalk   == [c \in AllChunks |-> BatchReplies(c)]
SingleTalk  == [q \in Ids |-> SingleReplies(q)]
BatchRead   == [r \in UNION {BatchTalk[c] : c \in AllChunks} |-> [taken |-> ParseBatch(Text(r)), full |-> SaidInFull(r)]]
SingleRead  == [r \in UNION {SingleTalk[q] : q \in Ids} |-> ParseSingle(Text(r))]

\* What the proofs ask of the reading, a contract checked on the instance: of a batch,
\* an item said in full is read, with its score, and an answer to a question of the
\* chunk was said, in full or not; a single reply said in full is read too.
ReaderKeeps ==
  /\ \A c \in AllChunks : \A r \in BatchTalk[c] :
       LET p    == BatchRead[r].taken
           full == BatchRead[r].full
       IN  /\ full # {} => p.read
           /\ \A i \in full : r.said[i].id \in DOMAIN p.replies
           /\ \A q \in DOMAIN p.replies \cap IdsOf(c) : \E i \in DOMAIN r.said :
                /\ r.said[i].id = q
                /\ i \in full => p.replies[q].score = ClampRiskScore(Numeral[r.said[i].say.score])
  /\ \A q \in Ids : \A r \in SingleTalk[q] : r.shape = "object" /\ r.cut = 0 =>
       /\ SingleRead[r] # NoReply
       /\ SingleRead[r].score = ClampRiskScore(Numeral[r.said[1].say.score])

\* Another one, proved in ProviderCallsProofs: the flags of a result that is read are counted.
FlagsAreCounted ==
  /\ \A c \in AllChunks : \A r \in BatchTalk[c] :
       \A q \in DOMAIN BatchRead[r].taken.replies : BatchRead[r].taken.replies[q].flags \in Nat
  /\ \A q \in Ids : \A r \in SingleTalk[q] : SingleRead[r] # NoReply => SingleRead[r].flags \in Nat

(***************************************************************************)
(* Calls                                                                   *)
(***************************************************************************)
\* The questions the batch left open, after the i-th.
OpenAfter(replies, i) == {k \in DOMAIN Current : k > i /\ NeedsFollowUp(replies[Current[k].id])}

\* The next single call of the chunk, if there is one.
GoOn(replies, i) ==
  call' = IF OpenAfter(replies, i) = {} THEN NoCall
          ELSE Call("single", FirstOf(OpenAfter(replies, i)))

\* The call is over without a reply.
GiveUp ==
  /\ GoOn(batch, call.at)
  /\ UNCHANGED <<batch, singles>>

\* Mutant: the next attempt asks for JSON mode again.
StillInJSON(o) == call.json

\* A backend that knows no response_format is asked without it from then on.
JSONMode(o) == call.json /\ ~(provider.client = "openaicompat" /\ o = "bad request")

\* Mutant: one attempt too many.
OneMoreAttempt == call.attempt <= MaxRetries

AttemptsLeft == call.attempt < MaxRetries

\* An attempt fails.  Over time, there is no waiting for another one.
Fail(o) ==
  /\ status = "running" /\ call # NoCall
  /\ expired => o = "transport"
  /\ requests' = requests + 1
  /\ IF Retryable(o) /\ AttemptsLeft /\ ~expired
     THEN /\ call' = [call EXCEPT !.attempt = @ + 1, !.json = JSONMode(o)]
          /\ UNCHANGED <<batch, singles>>
     ELSE GiveUp
  /\ unlucky' = (unlucky \/ ~(provider.rejects /\ call.json /\ o = "bad request"))
  /\ UNCHANGED <<sheet, provider, chunk, stored, progress, expired, status, heard, vague>>

Understands == ~expired /\ ~(provider.rejects /\ call.json)

\* A batch reply that cannot be read is asked for once more.
SayBatch(r, p, full) ==
  LET replies == [q \in IdsOf(Current) |-> IF q \in DOMAIN p.replies THEN p.replies[q] ELSE NoReply]
  IN
  /\ status = "running" /\ call.kind = "batch" /\ Understands
  /\ requests' = requests + 1
  /\ CASE p.read ->
            batch' = replies /\ GoOn(replies, 0)
       [] ~p.read /\ call.round = 1 ->
            call' = [Call("batch", 0) EXCEPT !.round = 2] /\ UNCHANGED batch
       [] ~p.read /\ call.round # 1 ->
            GoOn(batch, 0) /\ UNCHANGED batch
  /\ heard' = [q \in SheetIds |-> heard[q] \cup
                 {Numeral[r.said[i].say.score] : i \in {k \in full : r.said[k].id = q}}]
  /\ vague' = vague \cup {r.said[i].id : i \in DOMAIN r.said \ full}
  /\ unlucky' = (unlucky \/ Cardinality(full) < Len(Current)
                         \/ \E i \in DOMAIN r.said : r.said[i].say # Usual)
  /\ UNCHANGED <<sheet, provider, chunk, singles, stored, progress, expired, status>>

SaySingle(r) ==
  LET q    == Current[call.at].id
      full == r.shape = "object" /\ r.cut = 0
  IN
  /\ status = "running" /\ call.kind = "single" /\ Understands
  /\ requests' = requests + 1
  /\ singles' = [singles EXCEPT ![q] = SingleRead[r]]
  /\ GoOn(batch, call.at)
  /\ heard' = IF full THEN [heard EXCEPT ![q] = @ \cup {Numeral[r.said[1].say.score]}] ELSE heard
  /\ vague' = IF full THEN vague \ {q} ELSE vague \cup {q}
  /\ unlucky' = (unlucky \/ ~full)
  /\ UNCHANGED <<sheet, provider, chunk, batch, stored, progress, expired, status>>

\* The job's deadline, or its cancellation.
Expire ==
  /\ status = "running" /\ ~expired
  /\ expired' = TRUE /\ unlucky' = TRUE
  /\ UNCHANGED <<sheet, provider, chunk, call, batch, singles, stored, progress, status, requests, heard, vague>>

(***************************************************************************)
(* Chunks                                                                  *)
(***************************************************************************)
\* The replies of the chunk are stored and counted; or nothing is, over time.
EndChunk ==
  LET out     == ReviewChunkReplies(Current, batch, singles)
      usable  == {i \in DOMAIN out : out[i] # NoReply}
      kept    == [q \in SheetIds |->
                    IF \E i \in usable : Current[i].id = q
                    THEN NormalizeResult(out[CHOOSE i \in usable : Current[i].id = q]) ELSE stored[q]]
      none    == \A q \in SheetIds : kept[q] = NoReply
      next    == ChunkList[chunk + 1]
  IN
  /\ status = "running" /\ call = NoCall
  /\ IF expired
     THEN /\ status' = "failed"
          /\ UNCHANGED <<chunk, call, batch, singles, stored, progress, requests, heard, vague>>
     ELSE /\ stored' = kept
          /\ progress' = [done |-> progress.done + Cardinality(usable),
                          failed |-> progress.failed + Len(out) - Cardinality(usable)]
          /\ chunk' = chunk + 1
          /\ heard' = [q \in SheetIds |-> {}] /\ vague' = {}
          /\ IF chunk < Len(ChunkList)
             THEN /\ call' = Call("batch", 0) /\ batch' = Silent(next) /\ singles' = Silent(next)
                  /\ requests' = 0
                  /\ UNCHANGED status
             ELSE /\ status' = IF none THEN "failed" ELSE "reviewed"
                  /\ UNCHANGED <<call, batch, singles, requests>>
  /\ UNCHANGED <<sheet, provider, expired, unlucky>>

Over == status # "running" /\ UNCHANGED vars

Next ==
  \/ \E o \in Failures : Fail(o)
  \/ call.kind = "batch" /\ \E r \in BatchTalk[Current] : SayBatch(r, BatchRead[r].taken, BatchRead[r].full)
  \/ call.kind = "single" /\ \E r \in SingleTalk[Current[call.at].id] : SaySingle(r)
  \/ Expire \/ EndChunk \/ Over

Spec == Init /\ [][Next]_vars

(***************************************************************************)
(* Properties                                                              *)
(***************************************************************************)
Stored == {q \in SheetIds : stored[q] # NoReply}
Results == [q \in SheetIds |-> IF stored[q] = NoReply THEN NoResult ELSE stored[q]]
Drafted == [i \in DOMAIN sheet |->
              LET q == sheet[i] IN
              [id |-> q.id, domain |-> q.domain, blank |-> q.blank,
               status |-> IF stored[q.id] # NoReply /\ Results[q.id].draft THEN "ai_drafted" ELSE "pending"]]
Figures == Aggregate(Drafted, Results)

\* The peers sent along are other questions, answered ones, none twice, and not more
\* than the sample allows (review/service.go:568-614).
PeersAreOthers ==
  /\ Len(PeersSent) <= PeerSampleSize
  /\ \A i, k \in DOMAIN PeersSent : PeersSent[i].id = PeersSent[k].id => i = k
  /\ \A i \in DOMAIN PeersSent : ~PeersSent[i].blank /\ PeersSent[i].id \notin IdsOf(Current)

\* A chunk costs a bounded number of requests, whatever the provider answers: a batch
\* call, the second one after a reply that could not be read, and one per question,
\* each with its retries (openaicompat.go:60-81 and 123-151, review/service.go:420-439);
\* and each request carries a bounded sample of other answers.
CallsAreBounded ==
  status = "running" => requests <= (MaxRetries + 1) * (2 + Len(Current)) /\ PeersAreOthers

\* Every question of the chunks behind is counted once, as done with its result on
\* record or as failed without one, a run is `reviewed` only when that is all of them,
\* and an unfinished chunk leaves nothing behind (review/service.go:298-366).
EveryQuestionIsAccountedFor ==
  /\ progress.done = Cardinality(Stored)
  /\ Stored \subseteq Past
  /\ progress.done + progress.failed = Cardinality(Past)
  /\ status = "reviewed" => Past = SheetIds /\ Stored # {}

\* What was said in full is not lost, neither with the rest of a reply that was cut
\* short ("so the complete prefix is still usable", helper/jsonx.go:82-84), nor when
\* the follow-up call fails: such a question has a result once its chunk is stored.
AnswersAreNotLost ==
  [][chunk' # chunk => \A q \in IdsOf(Current) : heard[q] # {} => stored'[q] # NoReply]_vars

\* A stored score is one the provider gave that question, brought into the scale; the
\* exceptions are a reply cut short within the question's own item, and a single
\* question answered in the shape of a batch, of which the code stores what it could
\* read, or else the lowest score.
ScoresAreSaid ==
  [][\A q \in SheetIds : stored'[q] # stored[q] =>
       q \in vague \/ \E x \in heard[q] : stored'[q].score = ClampRiskScore(x)]_vars

\* "A backend that rejects response_format outright should still be usable"
\* (aiclient/openaicompat.go:142-143): if nothing else goes wrong, no question fails.
RejectingBackendIsUsable ==
  provider.rejects /\ ~unlucky => progress.failed = 0 /\ status # "failed"

\* The aggregate lies between the mean and the worst score, and a result that got
\* worse never makes it better ("a straight average is the wrong summary for a
\* security assessment", review/aggregate.go:20-24).
BadNewsCounts == status = "reviewed" =>
  LET figures == Figures IN
  /\ 100 * figures.worst >= figures.overall /\ figures.overall >= figures.mean
  /\ \A q \in Stored : Results[q].score < RiskMax =>
       Aggregate(Drafted, [Results EXCEPT ![q].score = @ + 1]).overall >= figures.overall

\* The domains' lines add up to the assessment's, and whatever scores as a finding is
\* counted as one.
CountsAddUp(figures, lines) ==
  /\ Total([i \in DOMAIN lines |-> lines[i].questions]) = figures.questions
  /\ Total([i \in DOMAIN lines |-> lines[i].scored]) = figures.scored
  /\ Total([i \in DOMAIN lines |-> lines[i].flagged]) = figures.flagged
  /\ Total([i \in DOMAIN lines |-> lines[i].incomplete]) = figures.incomplete
  /\ figures.flagged >= Cardinality({q \in Stored : stored[q].score >= RiskFlagThreshold})
  /\ figures.scored = Cardinality(Stored)

\* No finding left out of the summary is worse than one in it.
WorstFindingsAreShown ==
  LET top == TopFindings(Drafted, Results, TopFindingLimit)
      shown == {top[i].id : i \in DOMAIN top}
  IN  /\ Cardinality(shown) = Len(top)
      /\ \A q \in shown, k \in Stored \ shown : stored[k].score <= stored[q].score
      /\ Stored \subseteq shown \/ Len(top) = TopFindingLimit

\* The figures of a reviewed assessment leave nothing out: not a domain, not a
\* question, not the worst of the findings (review/aggregate.go:31-117 and 159-198).
FiguresAddUp == status = "reviewed" => CountsAddUp(Figures, Figures.domains) /\ WorstFindingsAreShown

\* Whatever the risk matrix, an aggregate is in the band of the whole score nearest to
\* it, the worse one half way ("still falls on the side a reviewer would expect",
\* helper/risk.go:86-91).
BandsAgree == status = "reviewed" =>
  LET overall == Figures.overall IN
  \A m \in [{"medium", "high", "critical"} -> Scale] : ValidRiskMatrix(m) =>
    BandFromFloat(overall, m) = Band((overall + 50) \div 100, m)
=============================================================================
