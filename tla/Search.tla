------------------------------- MODULE Search -------------------------------
(***************************************************************************)
(* The search service.  A request is admitted if its token is valid and    *)
(* below its rate; every index is then embedded for and searched by a task *)
(* of its own, which never fails but reports; when all have ended the hits *)
(* are merged, unless the request is strict or its time is over.           *)
(*                                                                         *)
(* A hit is an ID and a score; scores are integers in units of 1/One, the  *)
(* shares of reciprocal rank fusion in units of 1/RrfScale.  One request is *)
(* searched at a time (the tasks of two share nothing but secrets).        *)
(***************************************************************************)
EXTENDS Integers, Sequences, FiniteSets, SequencesExt, FiniteSetsExt

CONSTANTS Tokens,        \* of the store: scope and limit of each
          AcceptAdmin,   \* SEARCH_ACCEPT_ADMIN_TOKEN
          GlobalLimit,   \* SEARCH_RATE_LIMIT_RPM, 0 for none
          Window,        \* of the rate, in ticks
          MaxClock,      \* bound
          Requests,      \* words, image, indexes, strategy, per_index, top_k, strict
          Corpus,        \* rows of each index and the values its store gives, nearest first
          RrfK, RrfScale,
          One,           \* similarity of equal vectors, in the unit of the scores
          MaxTerms       \* SEARCH_FTS_MAX_TERMS

VARIABLES ticks,      \* the clock
          token,      \* of each token: its state, and the times the limiter keeps
          admitted,   \* all admissions: token and time, numbered
          search,     \* request under way, or NoSearch
          response,   \* to the last request, until anything else happens
          secret      \* versions of the key in the vault and in the cache
searchVars == <<ticks, token, admitted, search, response, secret>>

\* What a store gives comes nearest first in its own measure: Cosmos DB and the
\* product of Garnet state similarities, all others distances.  Of Cosmos DB this
\* is assumed: an index may state the metric "l2", and search_cosmos takes what
\* VectorDistance gives for a similarity whatever the metric.
NearestFirst(ix) ==
    \A r, q \in DOMAIN Corpus[ix.id] : r < q =>
        IF ix.store = "cosmosdb" \/ (ix.store = "garnet" /\ ix.metric = "dot")
        THEN Corpus[ix.id][r].value >= Corpus[ix.id][q].value
        ELSE Corpus[ix.id][r].value <= Corpus[ix.id][q].value

\* the labels of the indexes of a request, by which the response tells them
\* apart, differ; the code does not check them
ASSUME SearchAssumption ==
    /\ {GlobalLimit} \cup {Tokens[t].limit : t \in DOMAIN Tokens} \subseteq Int
    /\ {Window, MaxClock, RrfK, RrfScale} \subseteq Nat /\ One \in Nat \ {0}
    /\ \A c \in DOMAIN Corpus : Corpus[c] \in Seq(ToSet(Corpus[c])) /\ \A row \in ToSet(Corpus[c]) : row.value \in Int
    /\ \A req \in Requests :
        /\ req.per_index \in Nat \ {0} /\ req.top_k \in Nat \ {0}
        /\ req.indexes \in Seq(ToSet(req.indexes)) /\ IsInjective([i \in DOMAIN req.indexes |-> req.indexes[i].id])
        /\ \A ix \in ToSet(req.indexes) :
            /\ ix.limit \in Nat /\ ix.id \in DOMAIN Corpus /\ ix.store \in {"cosmosdb", "pgvector", "garnet"}
            /\ ix.policy # "fts" => NearestFirst(ix)
            /\ ix.store = "pgvector" /\ ix.metric = "l2" => \A row \in ToSet(Corpus[ix.id]) : row.value \in Nat

NoSearch == [on |-> FALSE]
NoResponse == [code |-> 0]

SearchInit ==
    /\ ticks = 0
    /\ token = [t \in DOMAIN Tokens |-> [state |-> "active", times |-> <<>>]]
    /\ admitted = {} /\ search = NoSearch /\ response = NoResponse
    /\ secret = [vault |-> 1, cached |-> 0]

-----------------------------------------------------------------------------
(* Admission.                                                               *)

\* the bootstrap and internal tokens are of scope "search"; the store knows the
\* others, and a lookup that fails is as good as an unknown token
ValidateToken(t) ==
    /\ token[t].state = "active"
    /\ Tokens[t].scope \in {"search", "admin"}
    /\ Tokens[t].scope = "admin" => AcceptAdmin

\* a token's own limit, if it has one; negative ones are ignored
EffectiveLimit(t) == IF Tokens[t].limit < 0 THEN GlobalLimit ELSE Tokens[t].limit
\* a bug: entries at the edge of the window go, too
ExpiredEarly(t) ==
    LET times == token[t].times
    IN  Min({k \in 0 .. Len(times) : k = Len(times) \/ ticks - times[k + 1] < Window})

\* the oldest entries go, until one is in the window
Expired(t) ==
    LET times == token[t].times
    IN  Min({k \in 0 .. Len(times) : k = Len(times) \/ ticks - times[k + 1] <= Window})
InWindow(t) == SubSeq(token[t].times, Expired(t) + 1, Len(token[t].times))
CheckRateLimit(t) == EffectiveLimit(t) <= 0 \/ Len(InWindow(t)) < EffectiveLimit(t)

Denied(t) == IF ~ValidateToken(t) THEN 401 ELSE IF Tokens[t].scope # "search" THEN 403 ELSE 429

\* what the query of a request asks for: its words, an image, or both
Searchable(words) ==
    LET distinct == FoldLeft(LAMBDA seen, w : IF w \in ToSet(seen) THEN seen ELSE Append(seen, w), <<>>, words)
    IN  SubSeq(distinct, 1, Min({MaxTerms, Len(distinct)}))

\* full text needs words and a container of Cosmos DB, and no embedding
FullTextRefused(req, ix) == ix.store # "cosmosdb" \/ Searchable(req.words) = <<>>

Ended(hits, error) == [phase |-> "done", hits |-> hits, error |-> error]
Task(req, ix) ==
    IF ix.policy # "fts" THEN [phase |-> "embed", hits |-> <<>>, error |-> FALSE]
    ELSE IF FullTextRefused(req, ix) THEN Ended(<<>>, TRUE) ELSE [phase |-> "search", hits |-> <<>>, error |-> FALSE]

\* uncapped tokens leave no trace in the limiter
SearchEndpoint(t, req) ==
    /\ search = NoSearch
    /\ IF ValidateToken(t) /\ Tokens[t].scope = "search" /\ CheckRateLimit(t)
       THEN /\ token' = IF EffectiveLimit(t) <= 0 THEN token ELSE [token EXCEPT ![t].times = Append(InWindow(t), ticks)]
            /\ admitted' = IF EffectiveLimit(t) <= 0 THEN admitted
                           ELSE admitted \cup {[token |-> t, at |-> ticks, n |-> Cardinality(admitted)]}
            /\ search' = [on |-> TRUE, req |-> req, tasks |-> [i \in DOMAIN req.indexes |-> Task(req, req.indexes[i])]]
            /\ response' = NoResponse
       ELSE /\ response' = [code |-> Denied(t)]
            /\ UNCHANGED <<token, admitted, search>>
    /\ UNCHANGED <<ticks, secret>>

Tick ==
    /\ ticks < MaxClock /\ search = NoSearch
    /\ ticks' = ticks + 1 /\ response' = NoResponse
    /\ UNCHANGED <<token, admitted, search, secret>>

\* bound: one token ends or the secret is rotated
Undisturbed == secret.vault = 1 /\ \A t \in DOMAIN Tokens : token[t].state = "active"

\* an administrator revokes a token, or it expires, or the store is not reached
TokenEnds(t) ==
    /\ Undisturbed /\ search = NoSearch
    /\ token' = [token EXCEPT ![t].state = "ended"] /\ response' = NoResponse
    /\ UNCHANGED <<ticks, admitted, search, secret>>

-----------------------------------------------------------------------------
(* One task per index.                                                      *)

Ready(i, phase) == search.on /\ i \in DOMAIN search.tasks /\ search.tasks[i].phase = phase
SetTask(i, task) == search' = [search EXCEPT !.tasks[i] = task]
\* a vector of the request needs nothing; images are embedded from the image or
\* from the words, texts from words alone
EmbedRefused(req, ix) ==
    CASE ix.policy = "precomputed" -> FALSE
      [] ix.policy = "image" -> ~req.image /\ req.words = <<>>
      [] OTHER -> req.words = <<>>

\* the vector must have the dimensions of the index
EmbedQuery(i) ==
    LET ix == search.req.indexes[i] IN
    /\ Ready(i, "embed")
    /\ SetTask(i, IF EmbedRefused(search.req, ix) \/ ~ix.fits THEN Ended(<<>>, TRUE)
                  ELSE [search.tasks[i] EXCEPT !.phase = "search"])
    /\ UNCHANGED <<ticks, token, admitted, response, secret>>

\* the key is resolved once and kept for the life of the process
Resolved == IF secret.cached = 0 THEN secret.vault ELSE secret.cached
Unlocked(ix) == ix.auth = "key" => Resolved = secret.vault

\* What the stores answer with, and the score the code makes of it.  A store
\* lists its rows nearest first; One is the similarity of equal vectors.
Limit(req, ix) == IF ix.limit = 0 THEN req.per_index ELSE ix.limit
Rows(req, ix) == SubSeq(Corpus[ix.id], 1, Min({Limit(req, ix), Len(Corpus[ix.id])}))

\* similarity as the store states it
CosmosHits(req, ix) == [r \in DOMAIN Rows(req, ix) |-> [id |-> Rows(req, ix)[r].id, score |-> Rows(req, ix)[r].value]]
\* rank alone: a missing score sorts as 0
FullTextHits(req, ix) == [r \in DOMAIN Rows(req, ix) |-> [id |-> Rows(req, ix)[r].id, score |-> 0]]

\* the operator <#> is the negative product, the others are distances
PgScore(metric, distance) ==
    CASE metric = "l2" -> (One * One) \div (One + distance) [] metric = "dot" -> -distance [] OTHER -> One - distance
PgHits(req, ix) ==
    [r \in DOMAIN Rows(req, ix) |-> [id |-> Rows(req, ix)[r].id, score |-> PgScore(ix.metric, Rows(req, ix)[r].value)]]

\* VSIM answers with the product itself
GarnetScore(metric, distance) ==
    CASE metric = "dot" -> distance [] metric = "l2" -> (One * One) \div (One + Max({0, distance})) [] OTHER -> One - distance
GarnetHits(req, ix) ==
    [r \in DOMAIN Rows(req, ix) |-> [id |-> Rows(req, ix)[r].id, score |-> GarnetScore(ix.metric, Rows(req, ix)[r].value)]]

\* parameters of a filter: by name for Cosmos DB, by position for PostgreSQL,
\* none for Garnet
FilterRefused(ix) == (ix.store = "pgvector" /\ ix.params = "named") \/ (ix.store = "garnet" /\ ix.params # "none")

StoreHits(req, ix) ==
    IF ix.policy = "fts" THEN FullTextHits(req, ix)
    ELSE CASE ix.store = "cosmosdb" -> CosmosHits(req, ix) [] ix.store = "pgvector" -> PgHits(req, ix)
           [] OTHER -> GarnetHits(req, ix)

SearchIndex(i) ==
    LET ix == search.req.indexes[i] IN
    /\ Ready(i, "search")
    /\ secret' = IF ix.auth = "key" THEN [secret EXCEPT !.cached = Resolved] ELSE secret
    /\ SetTask(i, IF Unlocked(ix) /\ ~FilterRefused(ix) THEN Ended(StoreHits(search.req, ix), FALSE) ELSE Ended(<<>>, TRUE))
    /\ UNCHANGED <<ticks, token, admitted, response>>

\* an error or a timeout of the embedding or of the search
TaskFails(i) ==
    /\ Ready(i, "embed") \/ Ready(i, "search")
    /\ SetTask(i, Ended(<<>>, TRUE))
    /\ UNCHANGED <<ticks, token, admitted, response, secret>>

RotateSecret ==
    /\ Undisturbed
    /\ secret' = [secret EXCEPT !.vault = 2] /\ response' = NoResponse
    /\ UNCHANGED <<ticks, token, admitted, search>>

-----------------------------------------------------------------------------
(* Merging.  found: for each index its ID, its fusion group and its hits.   *)

Tag(ids, hits) == [r \in DOMAIN hits |-> [index |-> ids, id |-> hits[r].id, score |-> hits[r].score]]
\* all entries of all indexes, in the order of the request
Pool(found) == FlattenSeq([i \in DOMAIN found |-> Tag(found[i].id, found[i].hits)])

\* stable, highest first
Before(s, i, j) == s[i].score > s[j].score \/ (s[i].score = s[j].score /\ i < j)
Sorted(s) ==
    [p \in DOMAIN s |-> s[CHOOSE i \in DOMAIN s : Cardinality({j \in DOMAIN s : Before(s, j, i)}) = p - 1]]
Top(s, k) == SubSeq(s, 1, Min({k, Len(s)}))

\* a score of 0 stands for a missing one
MergeScore(found, k) == Top(Sorted(Pool(found)), k)

Contribution(rank) == RrfScale \div (RrfK + rank)
Ranked(f) == [r \in DOMAIN f.hits |-> [index |-> f.group, id |-> f.hits[r].id, score |-> Contribution(r)]]

\* a bug: what another index has found already is dropped
FirstOnly(entries, e) ==
    IF \E i \in DOMAIN entries : entries[i].index = e.index /\ entries[i].id = e.id THEN entries ELSE Append(entries, e)

\* the entry of a key that is there gains the contribution, a new one is added
Fuse(entries, e) ==
    LET same == {i \in DOMAIN entries : entries[i].index = e.index /\ entries[i].id = e.id} IN
    IF same = {} THEN Append(entries, e) ELSE [entries EXCEPT ![Min(same)].score = @ + e.score]

MergeRrf(found, k) ==
    Top(Sorted(FoldLeft(Fuse, <<>>, FlattenSeq([i \in DOMAIN found |-> Ranked(found[i])]))), k)

\* one hit of each index that has any left, in turn
Deepest(found) == Max({Len(found[i].hits) : i \in DOMAIN found} \cup {0})
Lap(found, r) ==
    FlattenSeq([i \in DOMAIN found |->
        IF r <= Len(found[i].hits) THEN <<Tag(found[i].id, found[i].hits)[r]>> ELSE <<>>])
MergeRoundRobin(found, k) == Top(FlattenSeq([r \in 1 .. Deepest(found) |-> Lap(found, r)]), k)

MergeHits(strategy, found, k) ==
    CASE strategy = "per_index" -> Pool(found) [] strategy = "rrf" -> MergeRrf(found, k)
      [] strategy = "round_robin" -> MergeRoundRobin(found, k) [] OTHER -> MergeScore(found, k)

-----------------------------------------------------------------------------
(* The response.                                                            *)

Gathered == search.on /\ \A i \in DOMAIN search.tasks : search.tasks[i].phase = "done"
Errors == {i \in DOMAIN search.tasks : search.tasks[i].error}
Found == [i \in DOMAIN search.tasks |->
            [id |-> search.req.indexes[i].id, group |-> search.req.indexes[i].group, hits |-> search.tasks[i].hits]]

Respond ==
    /\ Gathered
    /\ response' = IF search.req.strict /\ Errors # {} THEN [code |-> 422]
                   ELSE [code |-> 200, req |-> search.req, failed |-> {search.req.indexes[i].id : i \in Errors},
                         results |-> MergeHits(search.req.strategy, Found, search.req.top_k)]
    /\ search' = NoSearch
    /\ UNCHANGED <<ticks, token, admitted, secret>>

\* the time for the whole request is over; what the tasks found is lost
TotalTimeout ==
    /\ search.on /\ ~Gathered
    /\ response' = [code |-> 504] /\ search' = NoSearch
    /\ UNCHANGED <<ticks, token, admitted, secret>>

SearchNext ==
    \/ (\E t \in DOMAIN Tokens, req \in Requests : SearchEndpoint(t, req))
    \/ (\E t \in DOMAIN Tokens : TokenEnds(t))
    \/ Tick \/ RotateSecret \/ Respond \/ TotalTimeout
    \/ (search.on /\ \E i \in DOMAIN search.tasks : EmbedQuery(i) \/ SearchIndex(i) \/ TaskFails(i))

SearchSpec == SearchInit /\ [][SearchNext]_searchVars

-----------------------------------------------------------------------------
(* Properties.  r is a response, i an index of its request.                 *)

\* the indexes that did not fail, and what they have found
Returned(r) == {i \in DOMAIN r.req.indexes : r.req.indexes[i].id \notin r.failed}
HitsOf(r, i) == StoreHits(r.req, r.req.indexes[i])
\* how many of the first p results are of index i
Listed(r, i, p) == Cardinality({q \in 1 .. p : r.results[q].index = r.req.indexes[i].id})

\* the fused score of a document, from the definition of reciprocal rank fusion
SumOf(numbers) == FoldLeft(LAMBDA sum, n : sum + n, 0, numbers)
Share(r, i, id) == SumOf([p \in DOMAIN HitsOf(r, i) |-> IF HitsOf(r, i)[p].id = id THEN Contribution(p) ELSE 0])
Fused(r, group, id) ==
    SumOf([i \in DOMAIN r.req.indexes |->
            IF i \in Returned(r) /\ r.req.indexes[i].group = group THEN Share(r, i, id) ELSE 0])
Known(r) == UNION {{<<r.req.indexes[i].group, HitsOf(r, i)[p].id>> : p \in DOMAIN HitsOf(r, i)} : i \in Returned(r)}

\* Under fusion every document is listed once, with the sum of its shares, the
\* best first, and none is left out that has more than one listed.
FusionExact(r) ==
    LET listed == {<<r.results[p].index, r.results[p].id>> : p \in DOMAIN r.results} IN
    /\ Cardinality(listed) = Len(r.results) /\ listed \subseteq Known(r)
    /\ \A p \in DOMAIN r.results : r.results[p].score = Fused(r, r.results[p].index, r.results[p].id)
    /\ \A p, q \in DOMAIN r.results : p < q => r.results[p].score >= r.results[q].score
    /\ \A d \in Known(r) \ listed :
        Len(r.results) = r.req.top_k /\ \A p \in DOMAIN r.results : r.results[p].score >= Fused(r, d[1], d[2])

\* The hits of an index are the nearest ones of its store, in its order, and
\* complete but for the length of the response.
NearestListed(r) ==
    /\ \A p \in DOMAIN r.results : \E i \in Returned(r) :
        LET n == Listed(r, i, p) IN
        r.results[p].index = r.req.indexes[i].id /\ n \in DOMAIN HitsOf(r, i) /\ r.results[p].id = HitsOf(r, i)[n].id
    /\ \A i \in Returned(r) : Listed(r, i, Len(r.results)) < Len(HitsOf(r, i)) =>
        r.req.strategy # "per_index" /\ Len(r.results) = r.req.top_k

\* no index is two ahead of one that has hits left
TakenInTurn(r) ==
    \A p \in DOMAIN r.results, i, j \in Returned(r) :
        Listed(r, j, p) < Len(HitsOf(r, j)) => Listed(r, i, p) <= Listed(r, j, p) + 1

\* the best ones of all indexes, in order
BestListed(r) ==
    /\ \A p, q \in DOMAIN r.results : p < q => r.results[p].score >= r.results[q].score
    /\ \A i \in Returned(r), p \in DOMAIN r.results :
        LET n == Listed(r, i, Len(r.results)) IN
        n < Len(HitsOf(r, i)) => r.results[p].score >= HitsOf(r, i)[n + 1].score

\* Whatever tasks fail or end last, the response is what the strategy promises
\* for the indexes that did not fail, whatever the measures of their stores are;
\* a strict request gets either everything or an error (_merge, run_search).
SearchFaithful ==
    response.code = 200 =>
        /\ response.req.strict => response.failed = {}
        /\ response.req.strategy # "per_index" => Len(response.results) <= response.req.top_k
        /\ IF response.req.strategy = "rrf" THEN FusionExact(response) ELSE NearestListed(response)
        /\ response.req.strategy = "round_robin" => TakenInTurn(response)
        /\ response.req.strategy = "score" => BestListed(response)

\* No token is admitted more often than its limit in any window, at its edges
\* neither (check_rate_limit).
RateKept ==
    \A t \in DOMAIN Tokens, from \in 0 .. MaxClock : EffectiveLimit(t) > 0 =>
        Cardinality({a \in admitted : a.token = t /\ a.at \in from .. (from + Window)}) <= EffectiveLimit(t)
=============================================================================
