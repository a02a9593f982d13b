----------------------------- MODULE StorageReads -----------------------------
(***************************************************************************)
(* Reading rated data: the dataframes and summary resources of the API     *)
(* over the drivers of Elasticsearch (OpenSearch's is the same), InfluxDB  *)
(* in its two versions, and Loki, while points are pushed and deleted.  A  *)
(* client lists data points page by page, or asks for totals by groups.    *)
(* One answer may take several queries, each of which sees what is stored  *)
(* by then.                                                                *)
(***************************************************************************)
EXTENDS Integers, FiniteSets, Sequences, SequencesExt

CONSTANTS
  Points,     (* data points: the start of a period, a type, the groupby   *)
              (* and metadata, and a price                                 *)
  Frames,     (* sets of points that may be pushed together                *)
  Requests,   (* what is asked for: a window, and filters as they come in  *)
              (* the URL, a sequence of pairs                              *)
  Groupbys,   (* sequences of attributes                                   *)
  Users,      (* Admin, or a project                                       *)
  Admin,
  ScopeKey,   (* [collect] scope_key                                       *)
  Values,     (* the values of attributes: sequences of letters            *)
  Limits,
  Chunk,      (* documents or buckets of an answer, points of a write      *)
  ShardLen,   (* [storage_loki] shard_days, in periods                     *)
  BufferSize, (* [storage_loki] buffer_size                                *)
  Budget      (* bounds: how often one pushes; deletes or is refused       *)

Backends == {"elasticsearch", "influxdb", "influxdb2", "loki"}

ASSUME StorageReadsAssumption ==
  /\ Frames \subseteq SUBSET Points
  /\ \A n \in Limits \cup {Chunk, ShardLen, BufferSize} : n \in Nat \ {0}
  /\ \A p \in Points : DOMAIN p.groupby \cap DOMAIN p.metadata = {}

VARIABLES
  backend, (* the driver in use: it never changes                          *)
  docs,    (* the points stored, in the order of the backend's answers     *)
  frame,   (* the points of the push in progress                           *)
  todo,    (* those it has still to add                                    *)
  client,  (* the points added to the client and not sent                  *)
  pushed,  (* history: the points that are to be stored                    *)
  job,     (* the request of the reader                                    *)
  why,     (* history: what may excuse the answer                          *)
  spent

writeVars == <<frame, todo, client>>
vars == <<backend, docs, writeVars, pushed, job, why, spent>>

NoJob == [pc |-> "idle"]

Init ==
  /\ backend \in Backends
  /\ docs = <<>>
  /\ frame = {} /\ todo = <<>> /\ client = <<>>
  /\ pushed = {}
  /\ job = NoJob
  /\ why = {}
  /\ spent = [push |-> 0, other |-> 0]

Influx == backend \in {"influxdb", "influxdb2"}

Min2(a, b) == IF a < b THEN a ELSE b

(* Python's s[from:to]                                                     *)
Slice(s, from, to) == SubSeq(s, from + 1, Min2(to, Len(s)))

-----------------------------------------------------------------------------
(***************************************************************************)
(* Writing: a push adds the points of a frame to the client, one by one.   *)
(***************************************************************************)
(* InfluxDB keeps one point for a time and a set of tags.                  *)
SameSeries(p, r) ==
  p.start = r.start /\ p.type = r.type /\ p.groupby = r.groupby

Replaced(p, points) == Influx /\ \E r \in points \ {p} : SameSeries(p, r)

(* A worker's push, or POST /v2/dataframes.                                *)
Push(f) ==
  /\ frame = {} /\ f # {}
  /\ f \cap pushed = {}
  /\ spent.push < Budget.push
  /\ spent' = [spent EXCEPT !.push = @ + 1]
  /\ frame' = f
  /\ todo' \in SetToSeqs(f)
  /\ pushed' = {p \in pushed \cup f : ~Replaced(p, f)}
  /\ UNCHANGED <<backend, docs, client, job, why>>

(* Where a batch comes in the answers is the backend's choice.             *)
Send(batch) ==
  LET new == ToSet(batch)
      rest == SelectSeq(docs, LAMBDA p : ~Replaced(p, new))
      last == SelectSeq(batch, LAMBDA p :
                          ~Influx \/ \A i, j \in DOMAIN batch :
                             batch[i] = p /\ SameSeries(p, batch[j]) => j <= i)
  IN  /\ \E i \in 0..Len(rest) :
           docs' = Slice(rest, 0, i) \o last \o Slice(rest, i, Len(rest))
      /\ why' = why \cup {"moved"}
                    \cup (IF rest = docs THEN {} ELSE {"removed"})

(* Loki's client sends all once a project has buffer_size points, the      *)
(* others once they hold a chunk.                                          *)
Full(points) ==
  IF backend = "loki"
  THEN \E v \in Values :
         Cardinality({i \in DOMAIN points : points[i].groupby[ScopeKey] = v})
           >= BufferSize
  ELSE Len(points) >= Chunk

(* The backend answers a request with an error status.                     *)
Refuse ==
  /\ spent.other < Budget.other
  /\ spent' = [spent EXCEPT !.other = @ + 1]

AddPoint ==
  LET points == Append(client, Head(todo))
  IN  /\ todo # <<>>
      /\ todo' = Tail(todo)
      /\ IF Full(points)
         THEN Send(points) /\ client' = <<>>
         ELSE client' = points /\ UNCHANGED <<docs, why>>
      /\ UNCHANGED <<backend, frame, pushed, job, spent>>

(* Loki's client logs that a push was refused, keeps the points and tries  *)
(* again with the next one.                                                *)
PushRefused ==
  LET points == Append(client, Head(todo))
  IN  /\ backend = "loki" /\ todo # <<>> /\ Full(points)
      /\ Refuse
      /\ todo' = Tail(todo)
      /\ client' = points
      /\ UNCHANGED <<backend, docs, frame, pushed, job, why>>

(* Faulty variant: the push returns before the last points are sent.       *)
EndPushUnsent ==
  /\ frame # {} /\ todo = <<>>
  /\ frame' = {}
  /\ UNCHANGED <<backend, docs, todo, client, pushed, job, why, spent>>

(* The end of push: Loki's sends no more, and keeps what it has not sent   *)
(* for the next push.                                                      *)
EndPush ==
  /\ frame # {} /\ todo = <<>>
  /\ frame' = {}
  /\ IF client = <<>> \/ backend = "loki"
     THEN UNCHANGED <<docs, client, why>>
     ELSE Send(client) /\ client' = <<>>
  /\ UNCHANGED <<backend, todo, pushed, job, spent>>

(* delete(begin, None, {ScopeKey: v})                                      *)
Deletes(p, v, begin) ==
  CASE backend = "elasticsearch" -> p.start >= begin
    [] backend = "loki" -> p.start + 1 >= begin /\ p.groupby[ScopeKey] = v
    [] OTHER -> p.start >= begin /\ p.groupby[ScopeKey] = v

Delete(v, begin) ==
  /\ spent.other < Budget.other
  /\ spent' = [spent EXCEPT !.other = @ + 1]
  /\ docs' = SelectSeq(docs, LAMBDA p : ~Deletes(p, v, begin))
  /\ pushed' = {p \in pushed : p \in ToSet(docs) => ~Deletes(p, v, begin)}
  /\ why' = why \cup {"moved", "removed"}
  /\ UNCHANGED <<backend, writeVars, job>>

-----------------------------------------------------------------------------
(***************************************************************************)
(* What a query selects.                                                   *)
(***************************************************************************)
Missing == <<>>

Attribute(p, k) ==
  CASE k = "type" -> p.type
    [] k \in DOMAIN p.groupby -> p.groupby[k]
    [] k \in DOMAIN p.metadata -> p.metadata[k]
    [] OTHER -> Missing

(* The reference: every filter is met.  (For Loki a period is where it     *)
(* ends.)                                                                  *)
Wanted(p, q) ==
  /\ LET time == IF backend = "loki" THEN p.start + 1 ELSE p.start
     IN  q.begin <= time /\ time < q.end
  /\ q.types # <<>> => p.type \in ToSet(q.types)
  /\ \A k \in DOMAIN q.filters : Attribute(p, k) \in ToSet(q.filters[k])

(* _build_must: a document within the window, of one of the types.         *)
Must(p, q) ==
  /\ p.start >= q.begin /\ p.start + 1 <= q.end
  /\ q.types # <<>> => p.type \in ToSet(q.types)

(* Faulty variant: one filter is enough.                                   *)
ShouldMatchOnce(p, q) ==
  DOMAIN q.filters = {} \/
  \E k \in DOMAIN q.filters : Attribute(p, k) = q.filters[k][1]

(* _build_should: two terms for a filter, and half of all have to match.   *)
Should(p, q) ==
  LET met(attributes) ==
        {k \in DOMAIN q.filters \cap DOMAIN attributes :
           attributes[k] = q.filters[k][1]}
      terms == 2 * Cardinality(DOMAIN q.filters)
  IN  Cardinality(met(p.groupby)) + Cardinality(met(p.metadata)) >= terms \div 2

(* _get_time_query, _get_type_query and _get_filter_query                  *)
InfluxSelects(p, q) ==
  /\ q.begin <= p.start /\ p.start < q.end
  /\ q.types # <<>> => \E i \in DOMAIN q.types : p.type = q.types[i]
  /\ \A k \in DOMAIN q.filters :
       \E i \in DOMAIN q.filters[k] : Attribute(p, k) = q.filters[k][i]

(* get_group_filters_query: a filter compares tags, and the metadata are   *)
(* fields.                                                                 *)
FluxSelects(p, q) ==
  /\ q.begin <= p.start /\ p.start < q.end
  /\ q.types # <<>> => p.type \in ToSet(q.types)
  /\ \A k \in DOMAIN q.filters :
       k \in DOMAIN p.groupby /\ p.groupby[k] \in ToSet(q.filters[k])

(* The first of several types or values is taken, and a filter looks at    *)
(* the groupby alone.                                                      *)
LokiSelects(p, q) ==
  /\ q.types # <<>> => p.type = q.types[1]
  /\ \A k \in DOMAIN q.filters :
       k \in DOMAIN p.groupby /\ p.groupby[k] = q.filters[k][1]

Selects(p, q) ==
  CASE backend = "elasticsearch" -> Must(p, q) /\ Should(p, q)
    [] backend = "loki" -> LokiSelects(p, q)
    [] backend = "influxdb" -> InfluxSelects(p, q)
    [] backend = "influxdb2" -> FluxSelects(p, q)

Hits(q) == SelectSeq(docs, LAMBDA p : Selects(p, q))

(* A log line bears the time of the end of its period.                     *)
ShardHits(q, from) ==
  LET to == IF q.end - q.begin > ShardLen THEN Min2(from + ShardLen, q.end)
                                          ELSE q.end
  IN  SelectSeq(Hits(q), LAMBDA p : from <= p.start + 1 /\ p.start + 1 < to)

(***************************************************************************)
(* Requests.                                                               *)
(***************************************************************************)
(* Who is no administrator only reads the own project.                     *)
Own(q, user) ==
  IF user = Admin THEN q
  ELSE [q EXCEPT !.filters = (ScopeKey :> <<user>>) @@ @]

(* What must be stored: all that a finished push was given, but Loki's     *)
(* client may hold some of it.                                             *)
Settled ==
  pushed \ (frame \cup (IF backend = "loki" THEN ToSet(client) ELSE {}))

Ask(kind, q, groupby, offset, limit) ==
  /\ job = NoJob
  /\ job' = [pc |-> "fetch", kind |-> kind, q |-> q, groupby |-> groupby,
             offset |-> offset, limit |-> limit, skip |-> offset,
             from |-> q.begin, key |-> 0, total |-> 0, out |-> <<>>, seen |-> <<>>,
             settled |-> Settled, before |-> docs, after |-> <<>>,
             unread |-> {}]
  /\ why' = {}
  /\ UNCHANGED <<backend, docs, writeVars, pushed, spent>>

(* MultiDictQueryParam: the values of a key, in their order.               *)
DictQueryParam(tokens) ==
  [k \in {tokens[i][1] : i \in DOMAIN tokens} |->
     LET those == SelectSeq(tokens, LAMBDA t : t[1] = k)
     IN  [i \in DOMAIN those |-> those[i][2]]]

(* The types that are asked for come among the filters.                    *)
Parsed(r) ==
  LET params == DictQueryParam(r.tokens)
  IN  [begin |-> r.begin, end |-> r.end,
       types |-> IF "type" \in DOMAIN params THEN params["type"] ELSE <<>>,
       filters |-> [k \in DOMAIN params \ {"type"} |-> params[k]]]

(* SingleDictQueryParam: one value for a filter and one type.              *)
Single(q) ==
  /\ Len(q.types) < 2
  /\ \A k \in DOMAIN q.filters : Len(q.filters[k]) = 1

(* GET /v2/dataframes, from the first page to the last.                    *)
AskList(q, user, limit) ==
  /\ Single(q)
  /\ Ask("list", Own(q, user), <<>>, 0, limit)

(* GET /v2/summary, and the totals of /v1/report.  (A term of              *)
(* Elasticsearch has one value: the filters it is sent as lists are left   *)
(* out.)                                                                   *)
AskTotal(q, user, groupby, offset, limit) ==
  /\ backend = "elasticsearch" =>
       Single(q) /\ DOMAIN q.filters \subseteq {ScopeKey}
  /\ Ask("total", Own(q, user), groupby, offset, limit)

Fetching(kind) == job.pc = "fetch" /\ job.kind = kind

Answer(rows, total) ==
  job' = [job EXCEPT !.pc = "done", !.out = rows, !.total = total,
                     !.after = docs]

Quiet == UNCHANGED <<backend, docs, writeVars, pushed, spent>>

(* Some clients take a query that was refused for one that found nothing.  *)
TakenForEmpty(points, newJob) ==
  /\ Refuse
  /\ job' = [newJob EXCEPT !.unread = @ \cup ToSet(points)]
  /\ UNCHANGED <<backend, docs, writeVars, pushed, why>>

(* DataFrame.add_point: the points of a period, type by type.              *)
Frame(points) ==
  LET types == FoldLeft(LAMBDA seen, p : IF p.type \in ToSet(seen) THEN seen
                                         ELSE Append(seen, p.type), <<>>, points)
  IN  FlattenSeq([i \in DOMAIN types |->
                    SelectSeq(points, LAMBDA p : p.type = types[i])])

(* _build_dataframes: a frame for each period, in their order.             *)
BuildDataframes(points) ==
  LET starts == SetToSortSeq({p.start : p \in ToSet(points)}, <)
  IN  FlattenSeq([i \in DOMAIN starts |->
                    Frame(SelectSeq(points, LAMBDA p : p.start = starts[i]))])

(* The reader asks for the next page until the total is reached.           *)
GotPage(page, total) ==
  LET next == job.offset + job.limit
  IN  /\ job' = [job EXCEPT !.pc = IF next >= total THEN "done" ELSE @,
                            !.seen = @ \o BuildDataframes(page), !.out = <<>>, !.total = 0,
                            !.offset = next, !.from = job.q.begin]
      /\ why' = why \cup (IF Len(page) > job.limit THEN {"overflow"} ELSE {})

-----------------------------------------------------------------------------
(***************************************************************************)
(* Elasticsearch.                                                          *)
(***************************************************************************)
Chunks(hits, size) ==
  [i \in 1..((Len(hits) + size - 1) \div size) |->
     Slice(hits, (i - 1) * size, i * size)]

(* _get_chunk_size                                                         *)
ChunkSize(offset, limit) ==
  IF offset + limit < Chunk THEN offset + limit ELSE Chunk

(* What the loops of retrieve and total do with a chunk.                   *)
TakeChunk(acc, chunk, limit) ==
  [out |-> acc.out \o Slice(chunk, acc.skip, acc.skip + limit),
   skip |-> IF Len(chunk) > acc.skip THEN 0 ELSE acc.skip - Len(chunk)]

(* retrieve: the scroll keeps to what the first query saw.  A page that    *)
(* begins in one chunk and ends in another takes too much of the second.   *)
Scroll(hits, offset, limit) ==
  LET take(acc, chunk) ==
        IF Len(acc.out) >= limit THEN acc ELSE TakeChunk(acc, chunk, limit)
  IN  FoldLeft(take, [out |-> <<>>, skip |-> offset],
               Chunks(hits, ChunkSize(offset, limit))).out

FetchScroll ==
  /\ backend = "elasticsearch" /\ Fetching("list")
  /\ LET hits == Hits(job.q)
     IN  GotPage(Scroll(hits, job.offset, job.limit), Len(hits))
  /\ Quiet

GroupOf(p, groupby) ==
  [i \in DOMAIN groupby |->
     IF groupby[i] \in DOMAIN p.groupby \cup {"type"}
     THEN Attribute(p, groupby[i]) ELSE Missing]

Types == {p.type : p \in Points}

(* The order of the groups, any one.                                       *)
Order == FoldSet(LAMBDA g, order : Append(order, g), <<>>,
                 UNION {[1..Len(groupby) -> Values \cup Types \cup {Missing}] :
                          groupby \in Groupbys})
Rank(g) == CHOOSE i \in DOMAIN Order : Order[i] = g
InOrder(groups) == SetToSortSeq(groups, LAMBDA g, h : Rank(g) < Rank(h))

Price(points, g, groupby) ==
  FoldLeft(LAMBDA sum, p : IF GroupOf(p, groupby) = g THEN sum + p.price ELSE sum,
           0, points)

Rows(points, groupby, groups) ==
  LET sorted == InOrder(groups)
  IN  [i \in DOMAIN sorted |->
         [group |-> sorted[i], price |-> Price(points, sorted[i], groupby)]]

GroupsIn(points, groupby) == {GroupOf(p, groupby) : p \in ToSet(points)}

(* Without groups, one row whatever the page is.                           *)
FetchSum ==
  /\ backend = "elasticsearch" /\ Fetching("total") /\ job.groupby = <<>>
  /\ Answer(Rows(Hits(job.q), <<>>, {<<>>}), 1)
  /\ Quiet /\ UNCHANGED why

(* Faulty variant: the page is cut out of the collected rows once more.    *)
FetchBucketsCutTwice ==
  LET hits == Hits(job.q)
      groups == {g \in GroupsIn(hits, job.groupby) :
                   /\ Missing \notin ToSet(g)
                   /\ Rank(g) > job.key}
      chunk == Slice(Rows(hits, job.groupby, groups), 0, Chunk)
      taken == TakeChunk([out |-> job.out, skip |-> job.skip], chunk, job.limit)
  IN  /\ backend = "elasticsearch" /\ Fetching("total") /\ job.groupby # <<>>
      /\ IF chunk = <<>>
         THEN Answer(Slice(job.out, job.offset, job.offset + job.limit), job.total)
         ELSE job' = [job EXCEPT !.out = taken.out, !.skip = taken.skip,
                                 !.total = @ + Len(chunk),
                                 !.key = Rank(chunk[Len(chunk)].group)]
      /\ Quiet /\ UNCHANGED why

(* Composite buckets, a chunk for a query: each begins after the last key  *)
(* of the one before, in what is stored by then.  A document without one   *)
(* of the attributes is in no bucket.                                      *)
FetchBuckets ==
  LET hits == Hits(job.q)
      groups == {g \in GroupsIn(hits, job.groupby) :
                   /\ Missing \notin ToSet(g)
                   /\ Rank(g) > job.key}
      chunk == Slice(Rows(hits, job.groupby, groups), 0, Chunk)
      taken == TakeChunk([out |-> job.out, skip |-> job.skip], chunk, job.limit)
  IN  /\ backend = "elasticsearch" /\ Fetching("total") /\ job.groupby # <<>>
      /\ IF chunk = <<>>
         THEN Answer(Slice(job.out, job.skip, job.skip + job.limit), job.total)
         ELSE job' = [job EXCEPT !.out = taken.out, !.skip = taken.skip,
                                 !.total = @ + Len(chunk),
                                 !.key = Rank(chunk[Len(chunk)].group)]
      /\ Quiet /\ UNCHANGED why

-----------------------------------------------------------------------------
(***************************************************************************)
(* InfluxDB.                                                               *)
(***************************************************************************)
(* The count and the page, in one query.                                   *)
FetchPage ==
  /\ backend = "influxdb" /\ Fetching("list")
  /\ LET hits == Hits(job.q)
     IN  GotPage(Slice(hits, job.offset, job.offset + job.limit), Len(hits))
  /\ Quiet

Concatenation(g) == FoldLeft(LAMBDA word, v : word \o v, <<>>, g)

(* FluxResponseHandler: the rows are merged by their groups, whose values  *)
(* are strung together; the last value of a field stays.                   *)
Merged(rows) ==
  LET merge(acc, row) ==
        LET same == {i \in DOMAIN acc :
                       Concatenation(acc[i].group) = Concatenation(row.group)}
        IN  IF same = {} THEN Append(acc, row)
            ELSE [i \in DOMAIN acc |->
                    IF i \in same THEN [acc[i] EXCEPT !.price = row.price]
                                  ELSE acc[i]]
  IN  FoldLeft(merge, <<>>, rows)

(* total: a row for each group there is, then the page.                    *)
AnswerPage(rows) ==
  Answer(Slice(rows, job.offset, job.offset + job.limit), Len(rows))

FetchRows ==
  LET hits == Hits(job.q)
  IN  /\ backend = "influxdb" /\ Fetching("total")
      /\ AnswerPage(Rows(hits, job.groupby, GroupsIn(hits, job.groupby)))
      /\ Quiet /\ UNCHANGED why

FetchFluxRows ==
  LET hits == Hits(job.q)
  IN  /\ backend = "influxdb2" /\ Fetching("total")
      /\ AnswerPage(Merged(Rows(hits, job.groupby, GroupsIn(hits, job.groupby))))
      /\ Quiet /\ UNCHANGED why

(* A listing with Flux looks at no types, and its answer is never points:  *)
(* it fails at the first field that is no number, and without a filter the *)
(* query is malformed and its error is taken for an empty answer.          *)
ProcessWildcard(rows) == IF rows = <<>> THEN {} ELSE {"failed"}

FetchWildcard ==
  /\ backend = "influxdb2" /\ Fetching("list")
  /\ job' = [job EXCEPT !.pc = "done"]
  /\ why' = why \cup ProcessWildcard(Hits([job.q EXCEPT !.types = <<>>]))
  /\ Quiet

(* The status of the answer is not looked at, and an error reads as a      *)
(* table without rows.                                                     *)
FluxRefused ==
  /\ backend = "influxdb2" /\ job.pc = "fetch"
  /\ TakenForEmpty(Hits(job.q), [job EXCEPT !.pc = "done", !.after = docs])

-----------------------------------------------------------------------------
(***************************************************************************)
(* Loki.                                                                   *)
(***************************************************************************)
(* retrieve: a query for each shard of the window, with the limit of the   *)
(* request and no offset.                                                  *)
NextShard ==
  IF job.q.end - job.q.begin > ShardLen
  THEN Min2(job.from + ShardLen, job.q.end) ELSE job.q.end

FetchShard ==
  LET hits == ShardHits(job.q, job.from)
      some == Slice(hits, 0, job.limit)
  IN  /\ backend = "loki" /\ job.pc = "fetch" /\ job.from < job.q.end
      /\ job' = [job EXCEPT !.out = @ \o some, !.total = @ + Len(some),
                            !.from = NextShard]
      /\ why' = IF some = hits THEN why ELSE why \cup {"cut"}
      /\ Quiet

(* search logs an error status and answers nothing, which is a shard       *)
(* without lines.                                                          *)
ShardRefused ==
  /\ backend = "loki" /\ job.pc = "fetch" /\ job.from < job.q.end
  /\ TakenForEmpty(ShardHits(job.q, job.from), [job EXCEPT !.from = NextShard])

Shards == backend = "loki" /\ job.from >= job.q.end

FetchLogs ==
  /\ Fetching("list") /\ Shards
  /\ GotPage(job.out, job.total)
  /\ Quiet

(* LokiClient.total: the retrieved lines are added up, group by group; the *)
(* offset is ignored.                                                      *)
GroupRows(points, groupby) ==
  Rows(points, groupby, IF groupby = <<>> THEN {<<>>}
                        ELSE GroupsIn(points, groupby))

FetchGroups ==
  LET rows == GroupRows(job.out, job.groupby)
  IN  /\ Fetching("total") /\ Shards
      /\ Answer(rows, Len(rows))
      /\ Quiet /\ UNCHANGED why

-----------------------------------------------------------------------------
Write ==
  \/ \E f \in Frames : Push(f)
  \/ AddPoint \/ PushRefused \/ EndPush
  \/ \E p \in Points : Delete(p.groupby[ScopeKey], p.start)

Read ==
  \/ \E r \in Requests, user \in Users, limit \in Limits :
       \/ AskList(Parsed(r), user, limit)
       \/ \E groupby \in Groupbys, offset \in 0..1 :
            AskTotal(Parsed(r), user, groupby, offset, limit)
  \/ FetchScroll \/ FetchSum \/ FetchBuckets \/ FetchPage \/ FetchRows
  \/ FetchFluxRows \/ FetchWildcard \/ FluxRefused
  \/ FetchShard \/ ShardRefused \/ FetchLogs \/ FetchGroups

(* A bound: one request is followed to its answer.                         *)
Next == job.pc # "done" /\ (Write \/ Read)

Spec == Init /\ [][Next]_vars

-----------------------------------------------------------------------------
Done(kind) == job.pc = "done" /\ job.kind = kind

(* Loki's driver takes one value for a filter and one type; it and         *)
(* InfluxDB 2's filter on the groupby.                                     *)
Unable(q) ==
  \/ backend = "loki" /\ ~Single(q)
  \/ /\ backend \in {"loki", "influxdb2"}
     /\ \E k \in DOMAIN q.filters, p \in Points : k \in DOMAIN p.metadata

(* Whoever pages through the dataframes to their end has seen every point  *)
(* whose push had returned when he began, whatever is pushed meanwhile:    *)
(* unless points were deleted, Loki had more for a shard than the limit or *)
(* still held the point in its client, InfluxDB 2's driver failed, or Loki *)
(* or InfluxDB 2 refused the query that would have answered the point.     *)
NothingSkipped ==
  Done("list") /\ why \cap {"removed", "cut", "failed"} = {} /\ ~Unable(job.q)
    => \A p \in job.settled \ job.unread :
         Wanted(p, job.q) => p \in ToSet(job.seen)

(* He has seen nothing that he did not ask for, and nothing twice, unless  *)
(* points came or went, or a page overflowed its limit: at the end of a    *)
(* chunk, or because Loki has it for every shard.                          *)
ListedOnce ==
  Done("list") =>
    /\ \A p \in ToSet(job.seen) : Wanted(p, job.q)
    /\ why \cap {"moved", "overflow"} = {} =>
         \A i, j \in DOMAIN job.seen : job.seen[i] = job.seen[j] => i = j

(* Two groups that InfluxDB 2's driver takes for one.                      *)
Ambiguous(groups) ==
  /\ backend = "influxdb2"
  /\ \E g, h \in groups : g # h /\ Concatenation(g) = Concatenation(h)

(* A total counts every point that was stored when it was asked for once,  *)
(* but those that a refused query of Loki or InfluxDB 2 would have         *)
(* answered, and none that was not stored when it was answered, with one   *)
(* row for a group; if nothing changes meanwhile the page holds the groups *)
(* that its offset and limit say.                                          *)
TotalsAddUp ==
  LET wanted(points) ==
        SelectSeq(points, LAMBDA p : Wanted(p, job.q) /\ p \notin job.unread)
      groups == {g \in GroupsIn(wanted(job.after), job.groupby) :
                   backend = "elasticsearch" => Missing \notin ToSet(g)}
      rows == job.out
      left == Cardinality(groups) - job.offset
  IN  /\ Done("total") /\ why \cap {"removed", "cut"} = {} /\ ~Unable(job.q)
      /\ ~Ambiguous(groups)
      => /\ \A i, j \in DOMAIN rows : rows[i].group = rows[j].group => i = j
         /\ \A i \in DOMAIN rows :
              LET price(points) == Price(wanted(points), rows[i].group, job.groupby)
              IN  /\ price(SetToSeq(job.settled)) <= rows[i].price
                  /\ rows[i].price <= price(job.after)
         /\ job.before = job.after /\ job.groupby # <<>> /\ backend # "loki"
              => /\ job.total = Cardinality(groups)
                 /\ Len(rows) = IF left < 0 THEN 0 ELSE Min2(left, job.limit)
=============================================================================
