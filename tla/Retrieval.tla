-------------------------------- MODULE Retrieval ------------------------------
(***************************************************************************)
(* The knowledge bases a conversation searches, and a search of them: the  *)
(* set is chosen by requests that may overlap, bases are deleted, and a    *)
(* search reads four stores one after another.                             *)
(***************************************************************************)
EXTENDS Integers, Sequences, FiniteSets, SequencesExt

CONSTANTS Bases,
          Embeddings,     \* embedding models
          Chunks,         \* passages; each is a document of its own
          BaseOf,         \* passage -> the base it is indexed in
          Dense,          \* passage -> cosine similarity to the question, in hundredths
          Lexical,        \* passage -> ts_rank_cd, unbounded; 0 where no term matches
          Editors,        \* requests that create the conversation or change it
          Edits,          \* what they ask for
          Searches,       \* what is searched for: mode, scope, whether to rerank
          TopK, Threshold, VectorWeight,   \* the bases' settings, in hundredths
          MinCandidates,  \* MIN_CANDIDATES; CANDIDATE_MULTIPLIER is 5
          None

VARIABLES base,           \* base -> its embedding model, None before there is a row,
                          \* Gone after
          passages,       \* rows of passages
          vectors,        \* points of passages in the vector store
          thread,         \* the conversation: primary base and additional ones
          editor,         \* requests between their check and their writes
          search          \* one search in progress

rtvVars == <<base, passages, vectors, thread, editor, search>>

Gone == "gone"
Live(b) == base[b] \in Embeddings
NoThread == [primary |-> None, extra |-> {}, exists |-> FALSE]
Idle == [at |-> "idle"]

RtvInit ==
  /\ base = [b \in Bases |-> None]
  /\ passages = {} /\ vectors = {} /\ thread = NoThread
  /\ editor = [e \in Editors |-> Idle] /\ search = Idle

--------------------------------------------------------------------------------
(* The scoring half, on scores in hundredths.                              *)
Best(lexical) == CHOOSE n \in {0} \cup {Lexical[c] : c \in lexical} :
                   \A c \in lexical : Lexical[c] <= n

(* normalise: against the best of this result set.                         *)
TermScore(c, lexical) ==
  IF c \in lexical /\ Best(lexical) > 0 THEN (100 * Lexical[c]) \div Best(lexical) ELSE 0

Score(c, dense, lexical, weight) ==
  ((IF c \in dense THEN Dense[c] * weight ELSE 0) + TermScore(c, lexical) * (100 - weight))
    \div 100

Cut(s, n) == SubSeq(s, 1, IF Len(s) < n THEN Len(s) ELSE n)

(* fuse: what either half found, above the threshold, best first, no more  *)
(* than a limit; equals in any order.                                      *)
Fuse(dense, lexical, weight, threshold, limit) ==
  LET kept == {c \in dense \cup lexical : Score(c, dense, lexical, weight) >= threshold}
      BestFirst(s) == \A i, j \in DOMAIN s : i < j =>
        Score(s[i], dense, lexical, weight) >= Score(s[j], dense, lexical, weight)
  IN  {Cut(s, limit) : s \in {s \in SetToSeqs(kept) : BestFirst(s)}}

(* What a search uses: a mode that switches a half off, then the turn's or *)
(* the thread's own setting, then the base's.                              *)
Weight(mode) == CASE mode = "vector" -> 100 [] mode = "keyword" -> 0 [] OTHER -> VectorWeight
CandidateLimit(topK) == IF 5 * topK > MinCandidates THEN 5 * topK ELSE MinCandidates

--------------------------------------------------------------------------------
(* createBase: the embedding model, asked for or the workspace's of that   *)
(* moment, is resolved once and pinned on the row.                         *)
CreateBase(b, embedding) ==
  /\ base[b] = None
  /\ base' = [base EXCEPT ![b] = embedding]
  /\ UNCHANGED <<passages, vectors, thread, editor, search>>

(* A document is indexed, or its passages are replaced (the module of      *)
(* ingestion has the steps): rows and points of a base that exists.        *)
Index(c) ==
  /\ Live(BaseOf[c])
  /\ passages' = passages \cup {c} /\ vectors' = vectors \cup {c}
  /\ UNCHANGED <<base, thread, editor, search>>

(* deleteBase, the points, and then the row, whatever was indexed between  *)
(* the two: passages and the places in a conversation's set go with it, a  *)
(* conversation's first base is set to null, and the points stay.          *)
DeleteVectors(b) ==
  /\ Live(b)
  /\ vectors' = {c \in vectors : BaseOf[c] # b}
  /\ UNCHANGED <<base, passages, thread, editor, search>>
DeleteBase(b) ==
  /\ Live(b)
  /\ base' = [base EXCEPT ![b] = Gone]
  /\ passages' = {c \in passages : BaseOf[c] # b}
  /\ thread' = [thread EXCEPT !.primary = IF @ = b THEN None ELSE @, !.extra = @ \ {b}]
  /\ UNCHANGED <<vectors, editor, search>>

--------------------------------------------------------------------------------
(* assertBasesSearchableTogether.                                          *)
SearchableTogether(bs) ==
  /\ \A b \in bs : Live(b)
  /\ \A a, b \in bs : base[a] = base[b]

Primaries(b) == {b} \ {None}
(* createConversation and updateConversation, up to the check.  A request  *)
(* names the first base, the additional ones, both or neither; what it     *)
(* does not name is checked as it is read here and not written.            *)
StartEdit(e, edit) ==
  LET named == edit.named
      primary == edit.primary
      extra == edit.extra
      first == IF "primary" \in named THEN primary ELSE thread.primary
      others == IF "extra" \in named THEN extra ELSE thread.extra
  IN  /\ editor[e] = Idle
      /\ thread.exists \/ named = {"primary", "extra"}
      /\ SearchableTogether(Primaries(first) \cup others)
      /\ editor' = [editor EXCEPT ![e] = [at |-> "checked", named |-> named,
                      primary |-> primary, extra |-> extra \ {first}]]
      /\ UNCHANGED <<base, passages, vectors, thread, search>>

(* The row; the base is a foreign key.                                     *)
WriteThread(e) ==
  LET edit == editor[e]
  IN  /\ edit.at = "checked"
      /\ IF edit.primary # None /\ ~Live(edit.primary)
           THEN UNCHANGED thread /\ editor' = [editor EXCEPT ![e] = Idle]
           ELSE /\ thread' = [thread EXCEPT !.exists = TRUE,
                                !.primary = IF "primary" \in edit.named THEN edit.primary
                                            ELSE @]
                /\ editor' = [editor EXCEPT ![e] =
                                IF "extra" \in edit.named THEN [@ EXCEPT !.at = "written"]
                                ELSE Idle]
      /\ UNCHANGED <<base, passages, vectors, search>>

(* setConversationBaseIds: the set is replaced in one transaction, which a *)
(* base that is gone makes fail.                                           *)
SetConversationBaseIds(e) ==
  /\ editor[e].at = "written"
  /\ thread' = IF \A b \in editor[e].extra : Live(b)
                 THEN [thread EXCEPT !.extra = editor[e].extra] ELSE thread
  /\ editor' = [editor EXCEPT ![e] = Idle]
  /\ UNCHANGED <<base, passages, vectors, search>>

--------------------------------------------------------------------------------
(* Mutant: the set is trusted, since whoever chose it was checked. *)
Refused_Never(bs) == \E b \in bs : ~Live(b)
(* retrieve, the bases: one that is gone or two that cannot be compared    *)
(* end the search.                                                         *)
Refused(bs) == ~SearchableTogether(bs)

(* documentIds: the passages the question is narrowed to, {} for all.      *)
StartSearch(mode, scope, rerank) ==
  LET bs == Primaries(thread.primary) \cup thread.extra
  IN  /\ search = Idle /\ thread.exists /\ bs # {} /\ ~Refused(bs)
      /\ search' = [at |-> "bases", bases |-> bs, mode |-> mode, scope |-> scope,
                    rerank |-> rerank, ranked |-> <<>>, rows |-> {},
                    embedded |-> {base[b] : b \in bs}]
      /\ UNCHANGED <<base, passages, vectors, thread, editor>>

(* The restriction of both halves.                                         *)
InScope(c) == BaseOf[c] \in search.bases /\ (search.scope = {} \/ c \in search.scope)

(* Both halves, and the fusion: as many survivors as a reranker can use,   *)
(* or as many as the answer takes.                                         *)
Rank ==
  LET weight == Weight(search.mode)
      dense == IF weight > 0
                 THEN {c \in vectors : BaseOf[c] \in search.bases
                                       /\ (search.scope = {} \/ c \in search.scope)}
                 ELSE {}
      lexical == IF weight < 100 THEN {c \in passages : InScope(c) /\ Lexical[c] > 0} ELSE {}
      limit == IF search.rerank THEN CandidateLimit(TopK) ELSE TopK
  IN  /\ search.at = "bases"
      /\ \E order \in Fuse(dense, lexical, weight, Threshold, limit) :
           search' = [search EXCEPT !.at = "ranked", !.ranked = order]
      /\ UNCHANGED <<base, passages, vectors, thread, editor>>

(* findChunksByIds: a point whose row is gone is dropped.                  *)
Readable(c) == c \in passages

(* The rows are read.  A reranker answers with places among them, in its   *)
(* order, and may leave some out or name one twice; where it fails, or     *)
(* names none, the fused order stands.                                     *)
InOrder(s) == \A i, j \in DOMAIN s, k, l \in DOMAIN search.ranked :
  i < j /\ s[i] = search.ranked[k] /\ s[j] = search.ranked[l] => k < l
Answer ==
  LET candidates == {c \in ToSet(search.ranked) : Readable(c)}
      fused == {order \in SetToSeqs(candidates) : InOrder(order)}
      reranked == UNION {[1..n -> candidates] : n \in 1..TopK}
  IN  /\ search.at = "ranked"
      /\ \E order \in fused \cup (IF search.rerank THEN reranked ELSE {}) :
           search' = [search EXCEPT !.at = "answered", !.ranked = Cut(order, TopK),
                        !.rows = passages]
      /\ UNCHANGED <<base, passages, vectors, thread, editor>>

EndSearch ==
  /\ search.at = "answered" /\ search' = Idle
  /\ UNCHANGED <<base, passages, vectors, thread, editor>>

RtvNext ==
  \/ \E b \in Bases, m \in Embeddings : CreateBase(b, m)
  \/ \E c \in Chunks : Index(c)
  \/ \E b \in Bases : DeleteVectors(b) \/ DeleteBase(b)
  \/ \E e \in Editors, edit \in Edits : StartEdit(e, edit)
  \/ \E e \in Editors : WriteThread(e) \/ SetConversationBaseIds(e)
  \/ \E s \in Searches : StartSearch(s.mode, s.scope, s.rerank)
  \/ Rank \/ Answer \/ EndSearch

RtvSpec == RtvInit /\ [][RtvNext]_rtvVars

--------------------------------------------------------------------------------
RtvTypeOK ==
  /\ \A b \in Bases : base[b] \in Embeddings \cup {None, Gone}
  /\ \A c \in passages : Live(BaseOf[c])
  /\ thread.primary \in Bases \cup {None} /\ thread.extra \subseteq Bases

(* Passages of two embedding models are never ranked against each other,   *)
(* even where overlapping edits left a conversation with both.             *)
OneModelOnly == search.at # "idle" => Cardinality(search.embedded) = 1

(* The order is of numbers that can be compared: whatever weights and      *)
(* scores, a fused score stays within the cosine's range, so that no one   *)
(* half can outweigh its share, and a half that is switched off has none.  *)
FusionIsBounded ==
  \A dense, lexical \in SUBSET Chunks, weight \in {0, 30, 70, 100} :
    \A c \in dense \cup lexical :
      LET score == Score(c, dense, lexical, weight)
      IN  /\ score <= 100
          /\ weight = 100 => score = IF c \in dense THEN Dense[c] ELSE 0
          /\ c \in dense /\ c \in lexical => score >= Score(c, dense, {}, weight)

(* What an answer rests on: passages that exist when they are read, of the *)
(* bases asked and of the documents the question was narrowed to, not more *)
(* than top K, and each once unless a reranker named one twice.            *)
RetrievalIsSound ==
  /\ RtvTypeOK /\ OneModelOnly
  /\ search.at = "answered" =>
       /\ Len(search.ranked) <= TopK
       /\ search.rerank \/ IsInjective(search.ranked)
       /\ \A c \in ToSet(search.ranked) :
            /\ c \in search.rows
            /\ BaseOf[c] \in search.bases
            /\ search.scope = {} \/ c \in search.scope
================================================================================
