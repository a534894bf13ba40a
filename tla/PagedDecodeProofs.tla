------------------------- MODULE PagedDecodeProofs -------------------------
(***************************************************************************)
(* The safety properties of PagedDecode hold for every set of servers,     *)
(* every set of requests and every width of the table.  The walk of a      *)
(* request through its candidates is totally ordered; RecordOK says that   *)
(* what lies before the graph of a request, chosen now or in the past, was *)
(* rejected and is not compiled, and that the last resort of one request   *)
(* never compiles what another one has walked past.                        *)
(***************************************************************************)
EXTENDS PagedDecode, TLAPS, SequenceTheorems

-----------------------------------------------------------------------------
(* The ladder. *)

Rungs(q) == {q[i] : i \in DOMAIN q}
Increasing(q) == \A i, j \in DOMAIN q : i < j => q[i] < q[j]

\* The next multiples are at or above the tokens, by less than the alignment.
LEMMA Rounding ==
  ASSUME NEW tokens \in Nat
  PROVE  \E n, m \in Nat :
           /\ RoundUp(tokens, 64) = n * 64 /\ RoundUp(tokens, 128) = m * 128
           /\ tokens <= n * 64 /\ n * 64 < tokens + 64
           /\ tokens <= m * 128 /\ m * 128 < tokens + 128
<1> DEFINE n == (tokens + 63) \div 64
           m == (tokens + 127) \div 128
<1>1. n \in Nat /\ tokens <= n * 64 /\ n * 64 < tokens + 64
  OBVIOUS
<1>2. m \in Nat /\ tokens <= m * 128 /\ m * 128 < tokens + 128
  OBVIOUS
<1>3. RoundUp(tokens, 64) = n * 64 /\ RoundUp(tokens, 128) = m * 128
  BY DEF RoundUp
<1> QED
  BY <1>1, <1>2, <1>3

\* A rung at or above the last one becomes the last one of a growing ladder.
LEMMA WiderGrows ==
  ASSUME NEW S \in SUBSET Nat, NEW q \in Seq(S), q # <<>>, Increasing(q),
         NEW rounded \in S, rounded >= q[Len(q)]
  PROVE  LET w == Wider(q, rounded)
         IN  /\ w \in Seq(S) /\ w # <<>> /\ w[1] = q[1] /\ w[Len(w)] = rounded
             /\ Increasing(w) /\ Rungs(w) = Rungs(q) \cup {rounded}
<1>1. Len(q) \in Nat \ {0} /\ DOMAIN q = 1 .. Len(q) /\ \A i \in 1 .. Len(q) : q[i] \in Nat
  <2>1. Len(q) \in Nat /\ DOMAIN q = 1 .. Len(q) /\ Len(q) # 0
    BY EmptySeq
  <2>2. \A i \in 1 .. Len(q) : q[i] \in S
    BY ElementOfSeq
  <2> QED
    BY <2>1, <2>2
<1>2. \A i \in 1 .. Len(q) : q[i] <= q[Len(q)]
  BY <1>1 DEF Increasing
<1>3. CASE rounded = q[Len(q)]
  <2>1. ~(rounded > q[Len(q)])
    BY <1>1, <1>3
  <2>2. Wider(q, rounded) = q
    BY <2>1 DEF Wider
  <2>3. rounded \in Rungs(q)
    BY <1>1, <1>3 DEF Rungs
  <2> QED
    BY <2>2, <2>3, <1>1, <1>3
<1>4. CASE rounded # q[Len(q)]
  <2> DEFINE w == Append(q, rounded)
  <2>1. Wider(q, rounded) = w
    <3>1. rounded > q[Len(q)]
      BY <1>1, <1>4
    <3>2. rounded \notin {q[i] : i \in DOMAIN q}
      BY <1>1, <1>2, <3>1
    <3> QED
      BY <3>1, <3>2 DEF Wider
  <2>2. /\ w \in Seq(S) /\ w # <<>> /\ Len(w) = Len(q) + 1 /\ DOMAIN w = 1 .. Len(q) + 1
        /\ \A i \in 1 .. Len(q) : w[i] = q[i]
        /\ w[Len(q) + 1] = rounded
    BY AppendProperties
  <2> HIDE DEF w
  <2>3. Increasing(w)
    BY <2>2, <1>1, <1>2, <1>4 DEF Increasing
  <2>4. Rungs(w) = Rungs(q) \cup {rounded}
    BY <2>2, <1>1 DEF Rungs
  <2> QED
    BY <2>1, <2>2, <2>3, <2>4, <1>1
<1> QED
  BY <1>3, <1>4

\* _paged_decode_bucket_ladder starts with the exact bucket, grows, stays
\* within the table and holds the 64- and 128-aligned buckets, capped at it.
LEMMA LadderShape ==
  ASSUME NEW width \in Nat, NEW tokens \in 1 .. width
  PROVE  /\ BucketLadder(tokens, width) \in Seq(tokens .. width)
         /\ BucketLadder(tokens, width) # <<>>
         /\ BucketLadder(tokens, width)[1] = tokens
         /\ Increasing(BucketLadder(tokens, width))
         /\ Rungs(BucketLadder(tokens, width)) =
              {tokens, Capped(RoundUp(tokens, 64), width), Capped(RoundUp(tokens, 128), width)}
<1> DEFINE near == Capped(RoundUp(tokens, 64), width)
           far == Capped(RoundUp(tokens, 128), width)
<1>1. near \in tokens .. width /\ far \in tokens .. width /\ near <= far
  <2>0. tokens \in Nat /\ tokens <= width
    OBVIOUS
  <2>1. PICK n, m \in Nat :
          /\ RoundUp(tokens, 64) = n * 64 /\ RoundUp(tokens, 128) = m * 128
          /\ tokens <= n * 64 /\ n * 64 < tokens + 64
          /\ tokens <= m * 128 /\ m * 128 < tokens + 128
    BY <2>0, Rounding, Zenon
  <2>2. n * 64 <= m * 128
    BY <2>1
  <2> QED
    BY <2>1, <2>2 DEF Capped
<1>2. BucketLadder(tokens, width) = Wider(Wider(<<tokens>>, near), far)
  BY DEF BucketLadder
<1> HIDE DEF near, far
<1> DEFINE S == tokens .. width
           first == <<tokens>>
           second == Wider(first, near)
           third == Wider(second, far)
<1>3. S \in SUBSET Nat /\ near \in S /\ far \in S
  BY <1>1
<1>4. first \in Seq(S) /\ first # <<>> /\ Len(first) = 1 /\ first[1] = tokens
      /\ Increasing(first) /\ Rungs(first) = {tokens}
  BY DEF Increasing, Rungs
<1> HIDE DEF S, first
<1>5. /\ second \in Seq(S) /\ second # <<>> /\ second[1] = tokens
      /\ second[Len(second)] = near
      /\ Increasing(second) /\ Rungs(second) = {tokens} \cup {near}
  <2>1. near >= first[Len(first)]
    BY <1>1, <1>4
  <2> QED
    BY <2>1, <1>3, <1>4, WiderGrows
<1> HIDE DEF second
<1>6. /\ third \in Seq(S) /\ third # <<>> /\ third[1] = tokens
      /\ Increasing(third) /\ Rungs(third) = ({tokens} \cup {near}) \cup {far}
  <2>1. far >= second[Len(second)]
    BY <1>1, <1>5
  <2> QED
    BY <2>1, <1>3, <1>5, WiderGrows
<1>7. third = BucketLadder(tokens, width)
  BY <1>2 DEF second, first
<1> HIDE DEF third
<1> QED
  BY <1>6, <1>7 DEF near, far, S

\* The ladder of a rung is the rest of the ladder from that rung on.
LEMMA LadderOfRung ==
  ASSUME NEW tokens \in 1 .. MaxContext, NEW rung \in Candidates(tokens),
         NEW wider \in Candidates(tokens), wider >= rung
  PROVE  rung \in 1 .. MaxContext /\ wider \in Candidates(rung)
<1> USE DecodeAssumption
<1> DEFINE Near(t) == Capped(RoundUp(t, 64), MaxContext)
           Far(t) == Capped(RoundUp(t, 128), MaxContext)
<1>1. ASSUME NEW t \in 1 .. MaxContext
      PROVE  Candidates(t) = {t, Near(t), Far(t)}
  BY LadderShape DEF Candidates, Rungs
<1>2. PICK n, m \in Nat :
        /\ RoundUp(tokens, 64) = n * 64 /\ RoundUp(tokens, 128) = m * 128
        /\ tokens <= n * 64 /\ n * 64 < tokens + 64
        /\ tokens <= m * 128 /\ m * 128 < tokens + 128
  BY Rounding
<1>3. Near(tokens) \in {n * 64, MaxContext} /\ Far(tokens) \in {m * 128, MaxContext}
      /\ n * 64 <= m * 128
      /\ (Near(tokens) # n * 64 => n * 64 > MaxContext)
      /\ (Far(tokens) # m * 128 => m * 128 > MaxContext)
      /\ Near(tokens) <= MaxContext /\ Far(tokens) <= MaxContext
  BY <1>2 DEF Capped
<1>4. rung \in {tokens, Near(tokens), Far(tokens)} /\ wider \in {tokens, Near(tokens), Far(tokens)}
  BY <1>1
<1>5. rung \in 1 .. MaxContext /\ wider \in 1 .. MaxContext
  BY <1>2, <1>3, <1>4
<1>6. CASE rung = tokens
  BY <1>6
<1>7. CASE rung = MaxContext
  <2>1. wider = rung
    BY <1>5, <1>7
  <2> QED
    BY <2>1, <1>1, <1>5
<1>8. CASE rung = n * 64 /\ rung # tokens /\ rung # MaxContext
  <2>1. PICK l, k \in Nat : /\ RoundUp(rung, 64) = l * 64 /\ RoundUp(rung, 128) = k * 128
                           /\ rung <= k * 128 /\ k * 128 < rung + 128
    BY <1>5, Rounding
  <2>2. k = m
    BY <2>1, <1>2, <1>3, <1>8
  <2>3. Far(rung) = Far(tokens)
    BY <2>1, <2>2, <1>2
  <2>4. wider = rung \/ wider = Far(tokens)
    BY <1>2, <1>3, <1>4, <1>5, <1>8
  <2> QED
    BY <2>3, <2>4, <1>1, <1>5
<1>9. CASE rung = m * 128 /\ rung # tokens /\ rung # MaxContext
  <2>1. wider = rung
    BY <1>2, <1>3, <1>4, <1>5, <1>9
  <2> QED
    BY <2>1, <1>1, <1>5
<1> QED
  BY <1>3, <1>4, <1>5, <1>6, <1>7, <1>8, <1>9

-----------------------------------------------------------------------------
(* The invariant. *)

\* The graphs a request may end up with, and the order it tries them in.
Walk(batch, tokens) ==
    {g \in Geometry : g.batch = batch /\ g.bucket \in Candidates(tokens)}
Before(h, g) ==
    \/ h.heads = "all" /\ g.heads = "one"
    \/ h.heads = g.heads /\ h.bucket < g.bucket

Rejected(r, g) == r.memo[g] = "no" /\ g \notin r.compiled
Busy(r) == r.pc \in {"consider", "probe", "compile", "launch"}
First(batch) == IF batch = "single" THEN "all" ELSE "one"
LastResort(r) ==
    /\ r.geo = Graph(r.batch, "one", r.tokens)
    /\ \A h \in Walk(r.batch, r.tokens) : Rejected(r, h)

\* Where a request is in its walk: what it has passed was rejected.  Without a
\* cache directory it takes its first candidate.
WalkOK(r, e) ==
    r.pc \in {"consider", "probe"} =>
      /\ r.todo \in Seq(Buckets) /\ Increasing(r.todo)
      /\ Rungs(r.todo) \subseteq Candidates(r.tokens)
      /\ \A h \in Walk(r.batch, r.tokens) :
           \/ h.heads = "all" /\ r.heads = "one"
           \/ h.heads = r.heads /\ h.bucket \notin Rungs(r.todo)
           => Rejected(r, h)
      /\ e # "cache" => /\ r.pc = "consider" /\ r.heads = First(r.batch)
                          /\ r.todo = BucketLadder(r.tokens, MaxContext)

\* The graph it has picked.
PickOK(r, e) ==
    /\ Busy(r) => <<r.batch, r.tokens>> \in Requests
    /\ Busy(r) /\ r.heads = "all" => r.batch = "single"
    /\ r.pc = "probe" => /\ r.todo # <<>> /\ e = "cache"
                         /\ r.geo = Graph(r.batch, r.heads, Head(r.todo))
                         /\ r.memo[r.geo] = "unknown" /\ r.geo \notin r.compiled
    /\ r.pc \in {"compile", "launch"} =>
         /\ r.geo \in Walk(r.batch, r.tokens)
         /\ \A h \in Walk(r.batch, r.tokens) : Before(h, r.geo) => Rejected(r, h)
    /\ r.pc = "compile" /\ e = "cache" =>
         r.geo \in r.compiled \/ r.memo[r.geo] = "yes" \/ LastResort(r)
    /\ r.pc = "compile" /\ e # "cache" =>
         r.geo = Graph(r.batch, First(r.batch), r.tokens)
    /\ r.pc = "launch" => r.geo \in r.compiled

\* What earlier requests were launched on.
UsedOK(r) ==
    \A req \in Requests :
        LET g == r.used[req]
        IN  g # <<>> => /\ g \in Walk(req[1], req[2]) /\ g \in r.compiled
                        /\ \A h \in Walk(req[1], req[2]) : Before(h, g) => Rejected(r, h)

\* What its probes have found.
MemoOK(r, e, d) ==
    \A g \in Geometry : /\ r.memo[g] = "yes" => g \in d
                        /\ r.memo[g] = "no" => e = "cache"

RecordOK(r, e, d) ==
    /\ WalkOK(r, e) /\ PickOK(r, e) /\ UsedOK(r) /\ MemoOK(r, e, d)
    /\ r.ready \subseteq r.compiled /\ r.compiled \subseteq r.records
    /\ r.pc = "down" => \A req \in Requests : r.used[req] = <<>>

IInv == TypeOK /\ \A s \in Servers : RecordOK(srv[s], env, disk)

-----------------------------------------------------------------------------
\* The ladder of a request, in terms of the model's buckets.
LEMMA RequestLadder ==
  ASSUME NEW req \in Requests
  PROVE  LET q == BucketLadder(req[2], MaxContext)
         IN  /\ req[1] \in {"single", "several"} /\ req[2] \in 1 .. MaxContext
             /\ q \in Seq(Buckets) /\ q # <<>> /\ Head(q) = req[2] /\ Increasing(q)
             /\ Rungs(q) = Candidates(req[2])
             /\ Candidates(req[2]) \subseteq Buckets
             /\ req[2] \in Candidates(req[2])
             /\ \A b \in Candidates(req[2]) : b \in Nat /\ req[2] <= b
<1> USE DecodeAssumption
<1> DEFINE q == BucketLadder(req[2], MaxContext)
<1>1. req[1] \in {"single", "several"} /\ req[2] \in 1 .. MaxContext
  BY DEF Requests
<1>2. /\ q \in Seq(req[2] .. MaxContext) /\ q # <<>> /\ q[1] = req[2] /\ Increasing(q)
  BY <1>1, LadderShape
<1>3. Rungs(q) = Candidates(req[2])
  BY DEF Rungs, Candidates
<1>4. Candidates(req[2]) \subseteq Buckets
  BY DEF Buckets
<1> HIDE DEF q
<1>5. DOMAIN q = 1 .. Len(q) /\ Len(q) \in Nat \ {0} /\ Head(q) = q[1]
  BY <1>2, EmptySeq
<1>6. \A b \in Rungs(q) : b \in req[2] .. MaxContext
  <2>1. \A i \in 1 .. Len(q) : q[i] \in req[2] .. MaxContext
    BY <1>2, ElementOfSeq
  <2> QED
    BY <2>1, <1>5 DEF Rungs
<1>7. q \in Seq(Buckets)
  <2>1. \A i \in 1 .. Len(q) : q[i] \in Buckets
    BY <1>3, <1>4, <1>5 DEF Rungs
  <2>2. q = [i \in 1 .. Len(q) |-> q[i]]
    BY <1>2
  <2> QED
    BY <2>1, <2>2, <1>5
<1>8. req[2] \in Rungs(q)
  BY <1>2, <1>5 DEF Rungs
<1> QED
  BY <1>1, <1>2, <1>3, <1>4, <1>5, <1>6, <1>7, <1>8 DEF q

\* Dropping the first rung of a ladder.
LEMMA RestOfLadder ==
  ASSUME NEW q \in Seq(Buckets), q # <<>>, Increasing(q), Buckets \subseteq Nat
  PROVE  /\ Head(q) \in Buckets /\ Head(q) \in Rungs(q)
         /\ Tail(q) \in Seq(Buckets) /\ Increasing(Tail(q))
         /\ Rungs(Tail(q)) \subseteq Rungs(q)
         /\ \A b \in Rungs(q) : b = Head(q) \/ b \in Rungs(Tail(q))
         /\ \A b \in Rungs(q) : Head(q) <= b
<1>1. /\ Len(q) \in Nat \ {0} /\ DOMAIN q = 1 .. Len(q) /\ Head(q) = q[1]
      /\ Head(q) \in Buckets /\ Tail(q) \in Seq(Buckets) /\ Len(Tail(q)) = Len(q) - 1
      /\ \A i \in 1 .. Len(Tail(q)) : Tail(q)[i] = q[i + 1]
  BY EmptySeq, HeadTailProperties
<1>2. DOMAIN Tail(q) = 1 .. Len(q) - 1
  BY <1>1
<1> DEFINE u == Tail(q)
<1> HIDE DEF u
<1>3. DOMAIN u = 1 .. Len(q) - 1 /\ \A i \in 1 .. Len(q) - 1 : u[i] = q[i + 1]
  BY <1>1, <1>2 DEF u
<1>4. Increasing(u)
  BY <1>3, <1>1 DEF Increasing
<1>5. Rungs(u) \subseteq Rungs(q)
  BY <1>3, <1>1 DEF Rungs
<1>6. ASSUME NEW b \in Rungs(q)
      PROVE  (b = q[1] \/ b \in Rungs(u)) /\ q[1] <= b
  <2>0. \A i \in 1 .. Len(q) : q[i] \in Nat
    <3>1. \A i \in 1 .. Len(q) : q[i] \in Buckets
      BY ElementOfSeq
    <3> QED
      BY <3>1
  <2>1. PICK i \in 1 .. Len(q) : b = q[i]
    BY <1>1 DEF Rungs
  <2>2. CASE i = 1
    BY <2>0, <2>1, <2>2, <1>1
  <2>3. CASE i # 1
    <3>1. i - 1 \in 1 .. Len(q) - 1 /\ u[i - 1] = q[i]
      BY <2>3, <1>1, <1>3
    <3>2. q[1] < q[i]
      BY <2>3, <1>1 DEF Increasing
    <3>3. q[1] \in Nat /\ q[i] \in Nat
      BY <2>0, <1>1
    <3> QED
      BY <2>1, <3>1, <3>2, <3>3, <1>3 DEF Rungs
  <2> QED
    BY <2>2, <2>3
<1> QED
  BY <1>1, <1>4, <1>5, <1>6 DEF u, Rungs

\* Buckets are numbers of tokens.
LEMMA BucketsAreNat == Buckets \subseteq Nat
  BY RequestLadder DEF Buckets

\* A step replaces the record of one server by a sound one; the cache grows.
LEMMA ServerStepKeeps ==
  ASSUME IInv, NEW s \in Servers, NEW r \in Server, Becomes(s, r), env' = env,
         disk \subseteq disk', disk' \subseteq Geometry, orphans' \subseteq Geometry,
         crashes' \in 0 .. MaxCrashes, RecordOK(r, env, disk')
  PROVE  IInv'
<1>1. TypeOK'
  BY DEF IInv, TypeOK, Becomes
<1>2. ASSUME NEW u \in Servers PROVE RecordOK(srv'[u], env', disk')
  <2>1. CASE u = s
    BY <2>1 DEF IInv, TypeOK, Becomes
  <2>2. CASE u # s
    <3>1. srv'[u] = srv[u] /\ RecordOK(srv[u], env, disk)
      BY <2>2 DEF IInv, TypeOK, Becomes
    <3> QED
      BY <3>1 DEF RecordOK, MemoOK
  <2> QED
    BY <2>1, <2>2
<1> QED
  BY <1>1, <1>2 DEF IInv

Pcs == {"idle", "consider", "probe", "compile", "launch", "down"}

LEMMA ControlTyped ==
  ASSUME NEW r \in Server, NEW pc \in Pcs, NEW batch \in {"single", "several"},
         NEW tokens \in 0 .. MaxContext, NEW heads \in {"all", "one"},
         NEW todo \in Seq(Buckets), NEW geo \in Geometry \cup {<<>>}
  PROVE  [r EXCEPT !.pc = pc, !.batch = batch, !.tokens = tokens, !.heads = heads,
                   !.todo = todo, !.geo = geo] \in Server
<1> DEFINE G == Geometry
           N == 0 .. MaxContext
           Q == Seq(Buckets)
           M == [Geometry -> {"unknown", "yes", "no"}]
           U == [Requests -> Geometry \cup {<<>>}]
<1>1. Server = [pc: Pcs, batch: {"single", "several"}, tokens: N, heads: {"all", "one"},
                todo: Q, geo: G \cup {<<>>}, memo: M, compiled: SUBSET G,
                records: SUBSET G, ready: SUBSET G, used: U]
  BY DEF Server, Pcs
<1>2. tokens \in N /\ todo \in Q /\ geo \in G \cup {<<>>}
  OBVIOUS
<1> HIDE DEF G, N, Q, M, U
<1> QED
  BY <1>1, <1>2

\* A call that ends leaves the memo, the compiled graphs and the past alone.
LEMMA RaisedIsOK ==
  ASSUME NEW r \in Server, NEW e, NEW d, RecordOK(r, e, d)
  PROVE  Raised(r) \in Server /\ RecordOK(Raised(r), e, d)
<1> DEFINE r2 == Raised(r)
<1>1. /\ r2.pc = "idle" /\ r2.memo = r.memo /\ r2.compiled = r.compiled
      /\ r2.records = r.records /\ r2.ready = r.ready /\ r2.used = r.used
  BY DEF Raised, Server
<1>2. r2 \in Server
  <2>1. <<>> \in Seq(Buckets) /\ <<>> \in Geometry \cup {<<>>} /\ 0 \in 0 .. MaxContext
    BY DecodeAssumption
  <2>2. "idle" \in Pcs
    BY DEF Pcs
  <2> QED
    BY <2>1, <2>2, ControlTyped DEF Raised
<1> HIDE DEF r2
<1> QED
  BY <1>1, <1>2 DEF r2, RecordOK, WalkOK, PickOK, UsedOK, MemoOK, Busy, Rejected

\* paged_attention_decode starts at the first rung of its first ladder.
LEMMA RequestKeeps ==
  ASSUME IInv, NEW s \in Servers, NEW req \in Requests, Request(s, req)
  PROVE  IInv'
<1> DEFINE r == srv[s]
           q == BucketLadder(req[2], MaxContext)
           r2 == [r EXCEPT !.pc = "consider", !.batch = req[1], !.tokens = req[2],
                    !.heads = IF req[1] = "single" THEN "all" ELSE "one", !.todo = q]
<1>1. r \in Server /\ RecordOK(r, env, disk)
  BY DEF IInv, TypeOK
<1>2. /\ r2.pc = "consider" /\ r2.batch = req[1] /\ r2.tokens = req[2]
      /\ r2.heads = First(req[1]) /\ r2.todo = q
      /\ r2.memo = r.memo /\ r2.compiled = r.compiled
      /\ r2.records = r.records /\ r2.ready = r.ready /\ r2.used = r.used
  BY <1>1 DEF Server, First
<1>3. /\ req[1] \in {"single", "several"} /\ req[2] \in 1 .. MaxContext
      /\ q \in Seq(Buckets) /\ Increasing(q) /\ Rungs(q) = Candidates(req[2])
      /\ <<req[1], req[2]>> = req
  BY RequestLadder DEF Requests
<1>4. r2 \in Server
  <2> HIDE DEF q
  <2>1. /\ "consider" \in Pcs /\ req[2] \in 0 .. MaxContext
        /\ (IF req[1] = "single" THEN "all" ELSE "one") \in {"all", "one"}
        /\ r.geo \in Geometry \cup {<<>>}
    BY <1>1, <1>3 DEF Pcs, Server
  <2>2. [r EXCEPT !.pc = "consider", !.batch = req[1], !.tokens = req[2],
           !.heads = IF req[1] = "single" THEN "all" ELSE "one", !.todo = q,
           !.geo = r.geo] \in Server
    BY <1>1, <1>3, <2>1, ControlTyped
  <2>3. r2 = [r EXCEPT !.pc = "consider", !.batch = req[1], !.tokens = req[2],
           !.heads = IF req[1] = "single" THEN "all" ELSE "one", !.todo = q,
           !.geo = r.geo]
    BY <1>1 DEF Server
  <2> QED
    BY <2>2, <2>3
<1>5. Becomes(s, r2)
  BY DEF Request
<1> HIDE DEF r2, q
<1>6. WalkOK(r2, env)
  <2>1. ASSUME NEW h \in Walk(req[1], req[2])
        PROVE  /\ ~(h.heads = "all" /\ r2.heads = "one")
               /\ h.bucket \in Rungs(q)
    BY <1>2, <1>3 DEF Walk, Geometry, First
  <2> QED
    BY <2>1, <1>2, <1>3 DEF WalkOK, q
<1>7. PickOK(r2, env)
  BY <1>2, <1>3 DEF PickOK, First, Busy
<1>8. UsedOK(r2)
  BY <1>1, <1>2 DEF RecordOK, UsedOK, Rejected
<1>9. RecordOK(r2, env, disk')
  BY <1>1, <1>2, <1>6, <1>7, <1>8 DEF RecordOK, MemoOK, Request
<1> QED
  <2>1. /\ env' = env /\ disk \subseteq disk' /\ disk' \subseteq Geometry
        /\ orphans' \subseteq Geometry /\ crashes' \in 0 .. MaxCrashes
    BY DEF Request, IInv, TypeOK
  <2> QED
    BY <2>1, <1>4, <1>5, <1>9, ServerStepKeeps

\* A step that only the server of a call takes, inside the call.
LEMMA QuietStepKeeps ==
  ASSUME IInv, NEW s \in Servers, NEW r \in Server, Becomes(s, r),
         UNCHANGED <<env, disk, orphans, crashes>>, RecordOK(r, env, disk)
  PROVE  IInv'
<1>1. /\ env' = env /\ disk \subseteq disk' /\ disk' \subseteq Geometry
      /\ orphans' \subseteq Geometry /\ crashes' \in 0 .. MaxCrashes
      /\ RecordOK(r, env, disk')
  BY DEF IInv, TypeOK
<1> QED
  BY <1>1, ServerStepKeeps

\* _compile_paged_decode_probed takes, skips or probes the next candidate.
LEMMA ConsiderKeeps ==
  ASSUME IInv, NEW s \in Servers, Consider(s)
  PROVE  IInv'
<1> DEFINE r == srv[s]
           g == Graph(r.batch, r.heads, Head(r.todo))
           pick == g \in r.compiled \/ env # "cache" \/ r.memo[g] = "yes"
           req == <<r.batch, r.tokens>>
<1>1. r \in Server /\ RecordOK(r, env, disk) /\ r.pc = "consider" /\ r.todo # <<>>
  BY DEF IInv, TypeOK, Consider, At
<1>2. /\ req \in Requests /\ req[1] = r.batch /\ req[2] = r.tokens
      /\ r.todo \in Seq(Buckets) /\ Increasing(r.todo)
      /\ Rungs(r.todo) \subseteq Candidates(r.tokens)
      /\ r.heads \in {"all", "one"} /\ (r.heads = "all" => r.batch = "single")
      /\ r.batch \in {"single", "several"}
  BY <1>1 DEF RecordOK, WalkOK, PickOK, Busy, Server
<1>3. /\ Head(r.todo) \in Buckets /\ Head(r.todo) \in Rungs(r.todo)
      /\ Tail(r.todo) \in Seq(Buckets) /\ Increasing(Tail(r.todo))
      /\ Rungs(Tail(r.todo)) \subseteq Rungs(r.todo)
      /\ \A b \in Rungs(r.todo) : b = Head(r.todo) \/ b \in Rungs(Tail(r.todo))
      /\ \A b \in Rungs(r.todo) : Head(r.todo) <= b
  BY <1>1, <1>2, BucketsAreNat, RestOfLadder
<1>4. /\ g \in Walk(r.batch, r.tokens) /\ g \in Geometry
      /\ g.batch = r.batch /\ g.heads = r.heads /\ g.bucket = Head(r.todo)
  BY <1>2, <1>3 DEF Walk, Geometry, Graph
<1>5. \A h \in Walk(r.batch, r.tokens) : h.bucket \in Nat /\ h.heads \in {"all", "one"}
  BY BucketsAreNat DEF Walk, Geometry
<1>6. \A h \in Walk(r.batch, r.tokens) : Before(h, g) => Rejected(r, h)
  <2>1. ASSUME NEW h \in Walk(r.batch, r.tokens), h.heads = r.heads, h.bucket < Head(r.todo)
        PROVE  h.bucket \notin Rungs(r.todo)
    <3>1. Head(r.todo) \in Nat /\ h.bucket \in Nat
      BY <1>3, <1>5, BucketsAreNat
    <3>2. ~(Head(r.todo) <= h.bucket)
      BY <3>1, <2>1
    <3> QED
      BY <3>2, <1>3
  <2> QED
    BY <2>1, <1>1, <1>4, <1>5 DEF RecordOK, WalkOK, Before
<1>7. env # "cache" => r.heads = First(r.batch) /\ Head(r.todo) = r.tokens
  BY <1>1, <1>2, RequestLadder DEF RecordOK, WalkOK
<1>8. \A r2 : /\ r2.memo = r.memo /\ r2.compiled = r.compiled /\ r2.records = r.records
               /\ r2.ready = r.ready /\ r2.used = r.used
             => /\ UsedOK(r2) /\ \A h : Rejected(r2, h) <=> Rejected(r, h)
                /\ r2.ready \subseteq r2.compiled /\ r2.compiled \subseteq r2.records
                /\ MemoOK(r2, env, disk)
  BY <1>1 DEF RecordOK, UsedOK, Rejected, MemoOK
<1> HIDE DEF g
<1>9. CASE pick
  <2> DEFINE r2 == [r EXCEPT !.pc = "compile", !.geo = g]
  <2>1. Becomes(s, r2)
    BY <1>9 DEF Consider, g
  <2>2. r2 \in Server
    BY <1>1, <1>4 DEF Server
  <2>3. /\ r2.pc = "compile" /\ r2.geo = g /\ r2.batch = r.batch /\ r2.tokens = r.tokens
        /\ r2.heads = r.heads /\ r2.memo = r.memo /\ r2.compiled = r.compiled
        /\ r2.records = r.records /\ r2.ready = r.ready /\ r2.used = r.used
    BY <1>1 DEF Server
  <2> HIDE DEF r2
  <2>4. PickOK(r2, env)
    BY <2>3, <1>2, <1>4, <1>6, <1>7, <1>8, <1>9 DEF PickOK, Busy, g
  <2>5. RecordOK(r2, env, disk)
    BY <2>3, <2>4, <1>8 DEF RecordOK, WalkOK
  <2> QED
    BY <2>1, <2>2, <2>5, QuietStepKeeps DEF Consider
<1>10. CASE ~pick /\ r.memo[g] = "no"
  <2> DEFINE r2 == [r EXCEPT !.todo = Tail(@)]
  <2>1. Becomes(s, r2)
    BY <1>10 DEF Consider, g
  <2>2. r2 \in Server
    BY <1>1, <1>3 DEF Server
  <2>3. /\ r2.pc = "consider" /\ r2.todo = Tail(r.todo) /\ r2.batch = r.batch
        /\ r2.tokens = r.tokens
        /\ r2.heads = r.heads /\ r2.memo = r.memo /\ r2.compiled = r.compiled
        /\ r2.records = r.records /\ r2.ready = r.ready /\ r2.used = r.used
    BY <1>1 DEF Server
  <2> HIDE DEF r2
  <2>4. ASSUME NEW h \in Walk(r.batch, r.tokens), h.heads = r.heads,
               h.bucket = Head(r.todo)
        PROVE  h = g
    BY <2>4 DEF g, Graph, Walk, Geometry
  <2>5. Rejected(r, g) /\ env = "cache"
    BY <1>10 DEF Rejected
  <2>6. WalkOK(r2, env)
    BY <2>3, <2>4, <2>5, <1>1, <1>2, <1>3, <1>8 DEF RecordOK, WalkOK
  <2>7. PickOK(r2, env)
    BY <2>3, <1>2 DEF PickOK, Busy
  <2> QED
    BY <2>1, <2>2, <2>3, <2>6, <2>7, <1>8, QuietStepKeeps DEF Consider, RecordOK
<1>11. CASE ~pick /\ r.memo[g] # "no"
  <2> DEFINE r2 == [r EXCEPT !.pc = "probe", !.geo = g]
  <2>1. Becomes(s, r2)
    BY <1>11 DEF Consider, g
  <2>2. r2 \in Server
    BY <1>1, <1>4 DEF Server
  <2>3. /\ r2.pc = "probe" /\ r2.geo = g /\ r2.todo = r.todo /\ r2.batch = r.batch
        /\ r2.tokens = r.tokens
        /\ r2.heads = r.heads /\ r2.memo = r.memo /\ r2.compiled = r.compiled
        /\ r2.records = r.records /\ r2.ready = r.ready /\ r2.used = r.used
    BY <1>1 DEF Server
  <2> HIDE DEF r2
  <2>4. r.memo[g] = "unknown" /\ env = "cache" /\ g \notin r.compiled
    BY <1>11, <1>1, <1>4 DEF Server
  <2>5. WalkOK(r2, env)
    BY <2>3, <2>4, <1>1, <1>8 DEF RecordOK, WalkOK
  <2>6. PickOK(r2, env)
    BY <2>3, <2>4, <1>1, <1>2 DEF PickOK, Busy, g
  <2> QED
    BY <2>1, <2>2, <2>3, <2>5, <2>6, <1>8, QuietStepKeeps DEF Consider, RecordOK
<1> QED
  BY <1>9, <1>10, <1>11

\* After the graph of all heads comes the graph of one, then the last resort.
LEMMA ExhaustedKeeps ==
  ASSUME IInv, NEW s \in Servers, Exhausted(s)
  PROVE  IInv'
<1> DEFINE r == srv[s]
           q == BucketLadder(r.tokens, MaxContext)
           req == <<r.batch, r.tokens>>
<1>1. r \in Server /\ RecordOK(r, env, disk) /\ r.pc = "consider" /\ r.todo = <<>>
  BY DEF IInv, TypeOK, Exhausted, At
<1>2. /\ req \in Requests /\ req[1] = r.batch /\ req[2] = r.tokens
      /\ r.heads \in {"all", "one"} /\ (r.heads = "all" => r.batch = "single")
      /\ r.batch \in {"single", "several"}
  BY <1>1 DEF RecordOK, PickOK, Busy, Server
<1>3. /\ q \in Seq(Buckets) /\ q # <<>> /\ Increasing(q) /\ Rungs(q) = Candidates(r.tokens)
      /\ r.tokens \in Candidates(r.tokens) /\ Candidates(r.tokens) \subseteq Buckets
      /\ \A b \in Candidates(r.tokens) : b \in Nat /\ r.tokens <= b
  BY <1>2, RequestLadder
<1> HIDE DEF q
<1>4. env = "cache"
  BY <1>1, <1>3 DEF RecordOK, WalkOK, q
<1>5. \A h \in Walk(r.batch, r.tokens) :
        (h.heads = "all" /\ r.heads = "one") \/ h.heads = r.heads => Rejected(r, h)
  <2>1. \A h \in Walk(r.batch, r.tokens) : h.bucket \notin Rungs(r.todo)
    BY <1>1 DEF Rungs
  <2> QED
    BY <2>1, <1>1 DEF RecordOK, WalkOK
<1>6. \A r2 : /\ r2.memo = r.memo /\ r2.compiled = r.compiled /\ r2.records = r.records
               /\ r2.ready = r.ready /\ r2.used = r.used
             => /\ UsedOK(r2) /\ \A h : Rejected(r2, h) <=> Rejected(r, h)
                /\ r2.ready \subseteq r2.compiled /\ r2.compiled \subseteq r2.records
                /\ MemoOK(r2, env, disk)
  BY <1>1 DEF RecordOK, UsedOK, Rejected, MemoOK
<1>7. CASE r.heads = "all"
  <2> DEFINE r2 == [r EXCEPT !.heads = "one", !.todo = q]
  <2>1. Becomes(s, r2)
    BY <1>7 DEF Exhausted, q
  <2>2. r2 \in Server
    BY <1>1, <1>3 DEF Server
  <2>3. /\ r2.pc = "consider" /\ r2.todo = q /\ r2.batch = r.batch /\ r2.tokens = r.tokens
        /\ r2.heads = "one" /\ r2.memo = r.memo /\ r2.compiled = r.compiled
        /\ r2.records = r.records /\ r2.ready = r.ready /\ r2.used = r.used
    BY <1>1 DEF Server
  <2> HIDE DEF r2
  <2>4. \A h \in Walk(r.batch, r.tokens) : h.bucket \in Rungs(q)
    BY <1>3 DEF Walk
  <2>5. WalkOK(r2, env)
    BY <2>3, <2>4, <1>3, <1>4, <1>5, <1>6, <1>7 DEF WalkOK
  <2>6. PickOK(r2, env)
    BY <2>3, <1>2 DEF PickOK, Busy
  <2> QED
    BY <2>1, <2>2, <2>3, <2>5, <2>6, <1>6, QuietStepKeeps DEF Exhausted, RecordOK
<1>8. CASE r.heads = "one"
  <2> DEFINE g == Graph(r.batch, "one", r.tokens)
             r2 == [r EXCEPT !.pc = "compile", !.geo = g]
  <2>1. Becomes(s, r2)
    BY <1>8 DEF Exhausted
  <2>2. g \in Geometry /\ g \in Walk(r.batch, r.tokens) /\ g.heads = "one" /\ g.bucket = r.tokens
    BY <1>2, <1>3 DEF Geometry, Graph, Walk
  <2>3. r2 \in Server
    BY <1>1, <2>2 DEF Server
  <2>4. /\ r2.pc = "compile" /\ r2.geo = g /\ r2.batch = r.batch /\ r2.tokens = r.tokens
        /\ r2.heads = "one" /\ r2.memo = r.memo /\ r2.compiled = r.compiled
        /\ r2.records = r.records /\ r2.ready = r.ready /\ r2.used = r.used
    BY <1>1, <1>8 DEF Server
  <2> HIDE DEF r2
  <2>5. \A h \in Walk(r.batch, r.tokens) : Rejected(r2, h)
    BY <1>5, <1>6, <1>8, <2>4 DEF Walk, Geometry
  <2>6. PickOK(r2, env)
    BY <2>2, <2>4, <2>5, <1>2, <1>4 DEF PickOK, Busy, LastResort
  <2> QED
    BY <2>1, <2>3, <2>4, <2>6, <1>6, QuietStepKeeps DEF Exhausted, RecordOK, WalkOK
<1> QED
  BY <1>2, <1>7, <1>8

\* The verdict of a probe is remembered: the walk stands where it stood.
LEMMA VerdictKeeps ==
  ASSUME IInv, NEW s \in Servers, At(s, "probe"), NEW verdict \in {"yes", "no"},
         Becomes(s, Remembered(srv[s], verdict)), UNCHANGED <<env, disk, orphans, crashes>>,
         verdict = "yes" => srv[s].geo \in disk
  PROVE  IInv'
<1> DEFINE r == srv[s]
           g == r.geo
           r2 == Remembered(r, verdict)
           req == <<r.batch, r.tokens>>
<1>1. r \in Server /\ RecordOK(r, env, disk) /\ r.pc = "probe"
  BY DEF IInv, TypeOK, At
<1>2. /\ req \in Requests /\ req[1] = r.batch /\ req[2] = r.tokens
      /\ r.todo \in Seq(Buckets) /\ Increasing(r.todo) /\ r.todo # <<>>
      /\ Rungs(r.todo) \subseteq Candidates(r.tokens)
      /\ r.heads \in {"all", "one"} /\ (r.heads = "all" => r.batch = "single")
      /\ r.batch \in {"single", "several"} /\ env = "cache"
      /\ g = Graph(r.batch, r.heads, Head(r.todo))
      /\ r.memo[g] = "unknown" /\ g \notin r.compiled
  BY <1>1 DEF RecordOK, WalkOK, PickOK, Busy, Server
<1>3. /\ Head(r.todo) \in Buckets /\ Head(r.todo) \in Rungs(r.todo)
      /\ \A b \in Rungs(r.todo) : Head(r.todo) <= b
  BY <1>1, <1>2, BucketsAreNat, RestOfLadder
<1>4. /\ g \in Walk(r.batch, r.tokens) /\ g \in Geometry
      /\ g.batch = r.batch /\ g.heads = r.heads /\ g.bucket = Head(r.todo)
  BY <1>2, <1>3 DEF Walk, Geometry, Graph
<1>5. \A h \in Walk(r.batch, r.tokens) : h.bucket \in Nat /\ h.heads \in {"all", "one"}
  BY BucketsAreNat DEF Walk, Geometry
<1>6. \A h \in Walk(r.batch, r.tokens) : Before(h, g) => Rejected(r, h)
  <2>1. ASSUME NEW h \in Walk(r.batch, r.tokens), h.heads = r.heads, h.bucket < Head(r.todo)
        PROVE  h.bucket \notin Rungs(r.todo)
    <3>1. Head(r.todo) \in Nat /\ h.bucket \in Nat
      BY <1>3, <1>5, BucketsAreNat
    <3>2. ~(Head(r.todo) <= h.bucket)
      BY <3>1, <2>1
    <3> QED
      BY <3>2, <1>3
  <2> QED
    BY <2>1, <1>1, <1>4, <1>5 DEF RecordOK, WalkOK, Before
<1>7. /\ r2.pc = (IF verdict = "yes" THEN "compile" ELSE "consider")
      /\ r2.memo = [r.memo EXCEPT ![g] = verdict]
      /\ r2.geo = g /\ r2.todo = r.todo /\ r2.batch = r.batch /\ r2.tokens = r.tokens
      /\ r2.heads = r.heads /\ r2.compiled = r.compiled
      /\ r2.records = r.records /\ r2.ready = r.ready /\ r2.used = r.used
  BY <1>1 DEF Server, Remembered
<1>8. r.memo \in [Geometry -> {"unknown", "yes", "no"}]
  BY <1>1 DEF Server
<1>9. r2 \in Server
  <2>1. r2.memo \in [Geometry -> {"unknown", "yes", "no"}]
    BY <1>7, <1>8, <1>4
  <2>2. r2 = [r EXCEPT !.pc = r2.pc, !.memo = r2.memo]
    BY <1>1 DEF Remembered, Server
  <2>3. r2.pc \in Pcs
    BY <1>7 DEF Pcs
  <2> HIDE DEF r2
  <2> QED
    BY <2>1, <2>2, <2>3, <1>1 DEF Server, Pcs
<1> HIDE DEF r2
<1>10. /\ \A h \in Geometry : h # g => (Rejected(r2, h) <=> Rejected(r, h))
       /\ ~Rejected(r, g) /\ r2.memo[g] = verdict
  BY <1>2, <1>4, <1>7, <1>8 DEF Rejected
<1>11. UsedOK(r2)
  BY <1>1, <1>7, <1>10 DEF RecordOK, UsedOK, Walk
<1>12. MemoOK(r2, env, disk)
  BY <1>1, <1>2, <1>4, <1>7, <1>8 DEF RecordOK, MemoOK
<1>13. WalkOK(r2, env)
  BY <1>1, <1>2, <1>7, <1>10 DEF RecordOK, WalkOK, Walk
<1>14. PickOK(r2, env)
  BY <1>2, <1>4, <1>6, <1>7, <1>10 DEF PickOK, Busy, Walk
<1>15. RecordOK(r2, env, disk)
  BY <1>1, <1>7, <1>11, <1>12, <1>13, <1>14 DEF RecordOK
<1> QED
  BY <1>9, <1>15, QuietStepKeeps DEF r2

\* compile_paged_decode_for finds the graph in its cache.
LEMMA CompiledBeforeKeeps ==
  ASSUME IInv, NEW s \in Servers, CompiledBefore(s)
  PROVE  IInv'
<1> DEFINE r == srv[s]
           r2 == [r EXCEPT !.pc = "launch"]
<1>1. r \in Server /\ RecordOK(r, env, disk) /\ r.pc = "compile" /\ r.geo \in r.compiled
  BY DEF IInv, TypeOK, CompiledBefore, At
<1>2. r2 \in Server
  BY <1>1 DEF Server
<1>3. /\ r2.pc = "launch" /\ r2.geo = r.geo /\ r2.batch = r.batch /\ r2.tokens = r.tokens
      /\ r2.heads = r.heads /\ r2.memo = r.memo /\ r2.compiled = r.compiled
      /\ r2.records = r.records /\ r2.ready = r.ready /\ r2.used = r.used
  BY <1>1 DEF Server
<1>4. Becomes(s, r2)
  BY DEF CompiledBefore
<1> HIDE DEF r2
<1>5. RecordOK(r2, env, disk)
  BY <1>1, <1>3 DEF RecordOK, WalkOK, PickOK, UsedOK, MemoOK, Busy, Rejected
<1> QED
  BY <1>2, <1>4, <1>5, QuietStepKeeps DEF CompiledBefore

\* What a compile adds is neither before the graphs of this call nor before
\* those of an earlier one.
LEMMA CompiledIsNew ==
  ASSUME NEW r \in Server, NEW e, NEW d, RecordOK(r, e, d), r.pc = "compile",
         r.geo \notin r.compiled, NEW req \in Requests, r.used[req] # <<>>,
         NEW h \in Walk(req[1], req[2]), Before(h, r.used[req])
  PROVE  h # r.geo
<1> DEFINE g == r.used[req]
<1>1. /\ g \in Walk(req[1], req[2]) /\ g \in r.compiled /\ Rejected(r, h)
  BY DEF RecordOK, UsedOK
<1>2. SUFFICES ASSUME h = r.geo PROVE FALSE
  OBVIOUS
<1>3. /\ r.batch = req[1] /\ <<r.batch, r.tokens>> \in Requests
      /\ h \in Geometry /\ g \in Geometry /\ h.batch = req[1] /\ g.batch = req[1]
      /\ h.bucket \in Candidates(req[2]) /\ g.bucket \in Candidates(req[2])
      /\ h.bucket \in Nat /\ g.bucket \in Nat
  BY <1>1, <1>2, BucketsAreNat DEF RecordOK, PickOK, Busy, Walk, Geometry
<1>4. req[2] \in 1 .. MaxContext /\ (\A b \in Candidates(req[2]) : req[2] <= b)
  BY RequestLadder
<1>5. CASE e = "cache"
  <2>1. LastResort(r)
    BY <1>1, <1>2, <1>5 DEF RecordOK, PickOK, Rejected
  <2>2. h = Graph(r.batch, "one", r.tokens) /\ h.heads = "one" /\ h.bucket = r.tokens
    BY <2>1, <1>2 DEF LastResort, Graph
  <2>3. g.heads = "one" /\ h.bucket < g.bucket
    BY <2>2 DEF Before
  <2>4. g.bucket \in Candidates(h.bucket)
    BY <2>3, <1>3, <1>4, LadderOfRung
  <2>5. g \in Walk(r.batch, r.tokens)
    BY <2>2, <2>4, <1>3 DEF Walk
  <2> QED
    BY <2>1, <2>5, <1>1 DEF LastResort, Rejected
<1>6. CASE e # "cache"
  <2>1. r.memo[h] = "no"
    BY <1>1 DEF Rejected
  <2> QED
    BY <2>1, <1>3, <1>6 DEF RecordOK, MemoOK
<1> QED
  BY <1>5, <1>6

\* compile_graph stores a graph together with its record, or nothing.
LEMMA CompileKeeps ==
  ASSUME IInv, NEW s \in Servers, Compile(s)
  PROVE  IInv'
<1> DEFINE r == srv[s]
           g == r.geo
           r2 == Recorded(r)
<1>1. r \in Server /\ RecordOK(r, env, disk) /\ r.pc = "compile" /\ g \notin r.compiled
  BY DEF IInv, TypeOK, Compile, At
<1>2. g \in Walk(r.batch, r.tokens) /\ g \in Geometry
  BY <1>1 DEF RecordOK, PickOK, Walk
<1>3. /\ env' = env /\ disk \subseteq disk' /\ disk' \subseteq Geometry
      /\ orphans' \subseteq Geometry /\ crashes' \in 0 .. MaxCrashes
  BY <1>2 DEF Compile, IInv, TypeOK
<1>4. RecordOK(r, env, disk')
  BY <1>1, <1>3 DEF RecordOK, MemoOK
<1>5. CASE Becomes(s, Raised(r))
  BY <1>5, <1>1, <1>3, <1>4, RaisedIsOK, ServerStepKeeps
<1>6. CASE Becomes(s, r2)
  <2>1. /\ r2.pc = "launch" /\ r2.geo = g /\ r2.batch = r.batch /\ r2.tokens = r.tokens
        /\ r2.heads = r.heads /\ r2.memo = r.memo /\ r2.compiled = r.compiled \cup {g}
        /\ r2.records = r.records \cup {g} /\ r2.ready = r.ready /\ r2.used = r.used
    BY <1>1 DEF Recorded, Server
  <2>2. r2 \in Server
    BY <1>1, <1>2 DEF Recorded, Server
  <2> HIDE DEF r2
  <2>3. \A h : h # g => (Rejected(r2, h) <=> Rejected(r, h))
    BY <2>1 DEF Rejected
  <2>4. UsedOK(r2)
    <3>1. ASSUME NEW req \in Requests, r.used[req] # <<>>,
                 NEW h \in Walk(req[1], req[2]), Before(h, r.used[req])
          PROVE  Rejected(r2, h)
      BY <3>1, <2>3, <1>1, CompiledIsNew DEF RecordOK, UsedOK
    <3> QED
      BY <3>1, <2>1, <1>1 DEF RecordOK, UsedOK
  <2>5. \A h \in Walk(r.batch, r.tokens) : Before(h, g) => h # g
    <3>1. g.bucket \in Nat /\ g.heads \in {"all", "one"}
      BY <1>2, BucketsAreNat DEF Geometry
    <3>2. ~Before(g, g)
      BY <3>1 DEF Before
    <3> QED
      BY <3>2
  <2>6. PickOK(r2, env)
    BY <2>1, <2>3, <2>5, <1>1 DEF RecordOK, PickOK, Busy
  <2>7. RecordOK(r2, env, disk')
    BY <2>1, <2>4, <2>6, <1>4 DEF RecordOK, WalkOK, MemoOK
  <2> QED
    BY <2>2, <2>7, <1>3, <1>6, ServerStepKeeps
<1>7. Becomes(s, Raised(r)) \/ Becomes(s, r2)
  BY DEF Compile, Unrecorded
<1> QED
  BY <1>5, <1>6, <1>7

\* The graph of a request is the one it was launched on before.
LEMMA LaunchIsStable ==
  ASSUME NEW r \in Server, NEW e, NEW d, RecordOK(r, e, d), r.pc = "launch",
         NEW req \in Requests, req = <<r.batch, r.tokens>>, r.used[req] # <<>>
  PROVE  r.used[req] = r.geo
<1> DEFINE g == r.used[req]
           h == r.geo
<1>1. /\ g \in Walk(r.batch, r.tokens) /\ g \in r.compiled
      /\ h \in Walk(r.batch, r.tokens) /\ h \in r.compiled
  BY DEF RecordOK, UsedOK, PickOK
<1>2. ~Before(h, g)
  BY <1>1 DEF RecordOK, UsedOK, Rejected
<1>3. ~Before(g, h)
  BY <1>1 DEF RecordOK, PickOK, Rejected
<1>4. /\ g \in Geometry /\ h \in Geometry /\ g.batch = h.batch
      /\ g.bucket \in Nat /\ h.bucket \in Nat
  BY <1>1, BucketsAreNat DEF Walk, Geometry
<1> HIDE DEF g, h
<1>5. g.heads = h.heads /\ g.bucket = h.bucket
  BY <1>2, <1>3, <1>4 DEF Before, Geometry
<1>6. g = h
  BY <1>4, <1>5 DEF Geometry
<1> QED
  BY <1>6 DEF g, h

\* launch_graph, whether or not the prewarm and the launch succeed.
LEMMA LaunchKeeps ==
  ASSUME IInv, NEW s \in Servers, Launch(s)
  PROVE  IInv'
<1> DEFINE r == srv[s]
           g == r.geo
           req == <<r.batch, r.tokens>>
           warm == [r EXCEPT !.ready = @ \cup {g}]
           done == [Raised(warm) EXCEPT !.used[req] = g]
<1>1. r \in Server /\ RecordOK(r, env, disk) /\ r.pc = "launch"
  BY DEF IInv, TypeOK, Launch, At
<1>2. /\ g \in Walk(r.batch, r.tokens) /\ g \in Geometry /\ g \in r.compiled
      /\ req \in Requests /\ req[1] = r.batch /\ req[2] = r.tokens
  BY <1>1 DEF RecordOK, PickOK, Walk, Busy
<1>3. warm \in Server
  BY <1>1, <1>2 DEF Server
<1>4. /\ warm.pc = "launch" /\ warm.geo = g /\ warm.batch = r.batch /\ warm.tokens = r.tokens
      /\ warm.heads = r.heads /\ warm.memo = r.memo /\ warm.compiled = r.compiled
      /\ warm.records = r.records /\ warm.ready = r.ready \cup {g} /\ warm.used = r.used
  BY <1>1 DEF Server
<1> HIDE DEF warm
<1>5. RecordOK(warm, env, disk)
  BY <1>1, <1>2, <1>4 DEF RecordOK, WalkOK, PickOK, UsedOK, MemoOK, Busy, Rejected
<1>6. Raised(warm) \in Server /\ RecordOK(Raised(warm), env, disk)
  BY <1>3, <1>5, RaisedIsOK
<1>7. /\ Raised(warm).compiled = r.compiled /\ Raised(warm).memo = r.memo
      /\ Raised(warm).used = r.used /\ Raised(warm).pc = "idle"
  BY <1>3, <1>4 DEF Raised, Server
<1> DEFINE base == Raised(warm)
<1> HIDE DEF base
<1>8. base \in Server /\ RecordOK(base, env, disk) /\ base.compiled = r.compiled
      /\ base.memo = r.memo /\ base.used = r.used /\ base.pc = "idle"
  BY <1>6, <1>7 DEF base
<1>9. done = [base EXCEPT !.used[req] = g]
  BY DEF base
<1> HIDE DEF done
<1>10. /\ done.pc = "idle" /\ done.memo = r.memo /\ done.compiled = r.compiled
       /\ done.records = base.records /\ done.ready = base.ready
       /\ done.used = [r.used EXCEPT ![req] = g]
  BY <1>8, <1>9 DEF Server
<1>11. r.used \in [Requests -> Geometry \cup {<<>>}]
  BY <1>1 DEF Server
<1>12. done \in Server
  <2>1. done.used \in [Requests -> Geometry \cup {<<>>}]
    BY <1>2, <1>10, <1>11
  <2>2. done = [base EXCEPT !.used = done.used]
    BY <1>8, <1>9, <1>10 DEF Server
  <2> QED
    BY <2>1, <2>2, <1>8 DEF Server
<1>13. UsedOK(done)
  <2>1. \A h : Rejected(done, h) <=> Rejected(r, h)
    BY <1>10 DEF Rejected
  <2>2. ASSUME NEW q \in Requests, q # req
        PROVE  done.used[q] = r.used[q]
    BY <2>2, <1>2, <1>10, <1>11
  <2>3. done.used[req] = g
    BY <1>2, <1>10, <1>11
  <2> QED
    BY <2>1, <2>2, <2>3, <1>1, <1>2, <1>10 DEF RecordOK, UsedOK, PickOK
<1>14. RecordOK(done, env, disk)
  BY <1>8, <1>10, <1>13 DEF RecordOK, WalkOK, PickOK, MemoOK, Busy
<1>15. UNCHANGED <<env, disk, orphans, crashes>>
  BY DEF Launch
<1>16. Becomes(s, Raised(r)) \/ Becomes(s, Raised(warm)) \/ Becomes(s, done)
  BY DEF Launch, warm, done
<1>17. Raised(r) \in Server /\ RecordOK(Raised(r), env, disk)
  BY <1>1, RaisedIsOK
<1> QED
  BY <1>6, <1>12, <1>14, <1>15, <1>16, <1>17, QuietStepKeeps

\* The record of a server that starts, and of one that is down.
LEMMA FreshRecord ==
  ASSUME NEW pc
  PROVE  [Fresh EXCEPT !.pc = pc] =
           [pc |-> pc, batch |-> "single", tokens |-> 0, heads |-> "all",
            todo |-> <<>>, geo |-> <<>>, memo |-> [g \in Geometry |-> "unknown"],
            compiled |-> {}, records |-> {}, ready |-> {},
            used |-> [req \in Requests |-> <<>>]]
<1> DEFINE at == "idle"
           b == "single"
           n == 0
           h == "all"
           q == <<>>
           m == [g \in Geometry |-> "unknown"]
           x == {}
           u == [req \in Requests |-> <<>>]
<1>1. Fresh = [pc |-> at, batch |-> b, tokens |-> n, heads |-> h, todo |-> q, geo |-> q,
               memo |-> m, compiled |-> x, records |-> x, ready |-> x, used |-> u]
  BY Zenon DEF Fresh
<1> HIDE DEF at, b, n, h, q, m, x, u
<1>2. [Fresh EXCEPT !.pc = pc] =
        [pc |-> pc, batch |-> b, tokens |-> n, heads |-> h, todo |-> q, geo |-> q,
         memo |-> m, compiled |-> x, records |-> x, ready |-> x, used |-> u]
  BY <1>1
<1> QED
  BY <1>2, Zenon DEF b, n, h, q, m, x, u

\* A server that starts knows nothing.
LEMMA FreshIsOK ==
  ASSUME NEW pc \in {"idle", "down"}, NEW e, NEW d
  PROVE  /\ [Fresh EXCEPT !.pc = pc] \in Server
         /\ RecordOK([Fresh EXCEPT !.pc = pc], e, d)
<1> DEFINE r == [Fresh EXCEPT !.pc = pc]
<1>1. /\ r.pc = pc /\ r.compiled = {} /\ r.records = {} /\ r.ready = {}
      /\ r.memo = [g \in Geometry |-> "unknown"] /\ r.used = [req \in Requests |-> <<>>]
  BY DEF Fresh
<1>2. r \in Server
  <2>1. <<>> \in Seq(Buckets) /\ 0 \in 0 .. MaxContext
    BY DecodeAssumption
  <2> DEFINE M == [Geometry -> {"unknown", "yes", "no"}]
             U == [Requests -> Geometry \cup {<<>>}]
             m == [g \in Geometry |-> "unknown"]
             u == [req \in Requests |-> <<>>]
             G == Geometry
             Q == Seq(Buckets)
             N == 0 .. MaxContext
  <2>2. m \in M /\ u \in U /\ <<>> \in Q /\ 0 \in N
    BY <2>1
  <2>3. r = [pc |-> pc, batch |-> "single", tokens |-> 0, heads |-> "all",
             todo |-> <<>>, geo |-> <<>>, memo |-> m,
             compiled |-> {}, records |-> {}, ready |-> {}, used |-> u]
    BY FreshRecord, Zenon
  <2>4. Server = [pc: {"idle", "consider", "probe", "compile", "launch", "down"},
                  batch: {"single", "several"}, tokens: N, heads: {"all", "one"},
                  todo: Q, geo: G \cup {<<>>}, memo: M, compiled: SUBSET G,
                  records: SUBSET G, ready: SUBSET G, used: U]
    BY DEF Server
  <2> HIDE DEF r, M, U, m, u, G, Q, N
  <2> QED
    BY <2>2, <2>3, <2>4
<1> HIDE DEF r
<1>3. RecordOK(r, e, d)
  BY <1>1 DEF RecordOK, WalkOK, PickOK, UsedOK, MemoOK, Busy
<1> QED
  BY <1>2, <1>3 DEF r

\* A server that has just started.
LEMMA FreshFirst == \A e, d : Fresh \in Server /\ RecordOK(Fresh, e, d)
<1>1. Fresh = [Fresh EXCEPT !.pc = "idle"]
  BY FreshRecord, Zenon DEF Fresh
<1>2. \A e, d : /\ [Fresh EXCEPT !.pc = "idle"] \in Server
                /\ RecordOK([Fresh EXCEPT !.pc = "idle"], e, d)
  BY FreshIsOK
<1> QED
  BY <1>1, <1>2, Zenon

\* A probe is asked about a graph of the model.
LEMMA ProbedGeometry ==
  ASSUME IInv, NEW s \in Servers, At(s, "probe")
  PROVE  srv[s].geo \in Geometry
<1> DEFINE r == srv[s]
<1>1. r \in Server /\ RecordOK(r, env, disk) /\ r.pc = "probe"
  BY DEF IInv, TypeOK, At
<1> HIDE DEF r
<1>2. /\ <<r.batch, r.tokens>> \in Requests /\ (r.heads = "all" => r.batch = "single")
      /\ r.heads \in {"all", "one"} /\ r.batch \in {"single", "several"}
      /\ r.todo \in Seq(Buckets) /\ r.todo # <<>> /\ Increasing(r.todo)
      /\ r.geo = Graph(r.batch, r.heads, Head(r.todo))
  BY <1>1 DEF RecordOK, PickOK, WalkOK, Busy, Server
<1>3. Head(r.todo) \in Buckets
  BY <1>2, BucketsAreNat, RestOfLadder
<1>4. r.geo \in Geometry
  BY <1>2, <1>3 DEF Graph, Geometry
<1> QED
  BY <1>4 DEF r

\* Crashes, restarts and what subprocesses publish.
LEMMA OthersKeep ==
  ASSUME IInv,
         \/ \E s \in Servers : ProbePublishes(s) \/ Crash(s) \/ Restart(s)
         \/ \E g \in orphans : OrphanEnds(g)
  PROVE  IInv'
<1>1. ASSUME NEW d, disk \subseteq d, NEW s \in Servers PROVE RecordOK(srv[s], env, d)
  BY <1>1 DEF IInv, RecordOK, MemoOK
<1>2. ASSUME NEW s \in Servers, ProbePublishes(s) PROVE IInv'
  <2>1. srv[s].geo \in Geometry
    BY <1>2, ProbedGeometry DEF ProbePublishes
  <2>2. TypeOK' /\ disk \subseteq disk'
    BY <1>2, <2>1 DEF IInv, TypeOK, ProbePublishes
  <2> QED
    BY <1>1, <1>2, <2>2 DEF IInv, ProbePublishes
<1>3. ASSUME NEW s \in Servers, Crash(s) PROVE IInv'
  <2>1. /\ env' = env /\ disk \subseteq disk' /\ disk' \subseteq Geometry
        /\ crashes' \in 0 .. MaxCrashes
    BY <1>3, DecodeAssumption DEF IInv, TypeOK, Crash
  <2>2. At(s, "probe") => srv[s].geo \in Geometry
    BY ProbedGeometry
  <2>3. orphans' \subseteq Geometry
    BY <1>3, <2>2 DEF IInv, TypeOK, Crash
  <2> DEFINE r2 == [Fresh EXCEPT !.pc = "down"]
  <2>4. r2 \in Server /\ RecordOK(r2, env, disk')
    BY FreshIsOK
  <2>5. Becomes(s, r2)
    BY <1>3 DEF Crash
  <2> HIDE DEF r2
  <2> QED
    BY <2>1, <2>3, <2>4, <2>5, ServerStepKeeps
<1>4. ASSUME NEW s \in Servers, Restart(s) PROVE IInv'
  <2>1. Fresh \in Server /\ RecordOK(Fresh, env, disk)
    BY FreshFirst
  <2> QED
    BY <1>4, <2>1, QuietStepKeeps DEF Restart
<1>5. ASSUME NEW g \in orphans, OrphanEnds(g) PROVE IInv'
  <2>1. TypeOK' /\ disk \subseteq disk'
    BY <1>5 DEF IInv, TypeOK, OrphanEnds
  <2> QED
    BY <1>1, <1>5, <2>1 DEF IInv, OrphanEnds
<1> QED
  BY <1>2, <1>3, <1>4, <1>5

-----------------------------------------------------------------------------
LEMMA InitEstablishes == Init => IInv
<1> SUFFICES ASSUME Init PROVE IInv
  OBVIOUS
<1>1. Fresh \in Server /\ RecordOK(Fresh, env, disk)
  BY FreshFirst
<1>2. TypeOK
  BY <1>1, DecodeAssumption DEF Init, TypeOK
<1>3. \A s \in Servers : srv[s] = Fresh
  BY DEF Init
<1> QED
  BY <1>1, <1>2, <1>3 DEF IInv

LEMMA NextKeeps == IInv /\ [Next]_vars => IInv'
<1> SUFFICES ASSUME IInv, [Next]_vars PROVE IInv'
  OBVIOUS
<1>1. CASE UNCHANGED vars
  <2>1. /\ env' = env /\ disk' = disk /\ orphans' = orphans /\ crashes' = crashes
        /\ srv' = srv
    BY <1>1 DEF vars
  <2> QED
    BY <2>1 DEF IInv, TypeOK, RecordOK, MemoOK
<1>2. ASSUME NEW s \in Servers, ServerStep(s) PROVE IInv'
  <2>1. CASE ProbeTimesOut(s)
    BY <2>1, VerdictKeeps DEF ProbeTimesOut, TimedOut
  <2> QED
    BY <1>2, <2>1, ConsiderKeeps, ExhaustedKeeps, CompiledBeforeKeeps, CompileKeeps,
       LaunchKeeps DEF ServerStep
<1>3. ASSUME NEW s \in Servers, ProbeSucceeds(s) \/ ProbeFails(s) PROVE IInv'
  BY <1>3, VerdictKeeps DEF ProbeSucceeds, ProbeFails
<1>4. ASSUME NEW s \in Servers, NEW req \in Requests, Request(s, req) PROVE IInv'
  BY <1>4, RequestKeeps
<1> QED
  BY <1>1, <1>2, <1>3, <1>4, OthersKeep DEF Next

THEOREM Invariance == Spec => []IInv
  BY InitEstablishes, NextKeeps, PTL DEF Spec

\* Every variable of the servers, the cache and the probes keeps its type.
THEOREM TypeCorrect == Spec => []TypeOK
  BY Invariance, PTL DEF IInv

\* A graph with an executable has a compile record.
THEOREM EvidenceIsComplete == Spec => []ReadyIsRecorded
<1>1. IInv => ReadyIsRecorded
  BY DEF IInv, RecordOK, ReadyIsRecorded
<1> QED
  BY <1>1, Invariance, PTL

\* With a cache directory the assembler runs in a server only as the last
\* resort, when every candidate of the request has failed its probe.
THEOREM AssemblerStaysOut == Spec => []AssemblesOnlyAsLastResort
<1>1. IInv => AssemblesOnlyAsLastResort
  <2> SUFFICES ASSUME IInv, NEW s \in Servers, At(s, "compile"),
                      srv[s].geo \notin srv[s].compiled, env = "cache", ~Hit(srv[s].geo)
               PROVE  LastResort(srv[s])
    BY DEF AssemblesOnlyAsLastResort, LastResort, Walk, Rejected
  <2>1. RecordOK(srv[s], env, disk) /\ srv[s].pc = "compile" /\ srv[s].geo \notin disk
    BY DEF IInv, At, Hit
  <2>2. srv[s].geo \in Geometry
    BY <2>1 DEF RecordOK, PickOK, Walk
  <2> QED
    BY <2>1, <2>2 DEF RecordOK, PickOK, MemoOK
<1> QED
  BY <1>1, Invariance, PTL

\* While a server lives, a request is always launched on the same graph.
THEOREM ShapesAreStable == Spec => ShapeIsStable
<1> DEFINE Stable == \A s \in Servers, req \in Requests :
                       srv[s].used[req] # <<>> /\ srv'[s].pc # "down"
                         => srv'[s].used[req] = srv[s].used[req]
<1>1. IInv /\ [Next]_vars => Stable
  <2> SUFFICES ASSUME IInv, [Next]_vars, NEW s \in Servers, NEW req \in Requests,
                      srv[s].used[req] # <<>>, srv'[s].pc # "down"
               PROVE  srv'[s].used[req] = srv[s].used[req]
    OBVIOUS
  <2> DEFINE r == srv[s]
  <2>1. r \in Server /\ RecordOK(r, env, disk) /\ srv \in [Servers -> Server]
    BY DEF IInv, TypeOK
  <2>2. CASE srv' = srv
    BY <2>2
  <2>3. ASSUME NEW u \in Servers, u # s, NEW x, Becomes(u, x)
        PROVE  srv'[s] = srv[s]
    BY <2>3, <2>1 DEF Becomes
  <2>4. ASSUME NEW x, Becomes(s, x)
        PROVE  srv'[s] = x
    BY <2>4, <2>1 DEF Becomes
  <2>5. ASSUME Launch(s) PROVE srv'[s].used[req] = srv[s].used[req]
    <3> DEFINE warm == [r EXCEPT !.ready = @ \cup {r.geo}]
               call == <<r.batch, r.tokens>>
    <3>1. Raised(r).used = r.used /\ Raised(warm).used = r.used /\ r.pc = "launch"
      BY <2>1, <2>5 DEF Raised, Server, Launch, At
    <3>2. CASE srv'[s] = Raised(r) \/ srv'[s] = Raised(warm)
      BY <3>1, <3>2
    <3>3. CASE srv'[s] = [Raised(warm) EXCEPT !.used[call] = r.geo]
      <4>1. srv'[s].used = [r.used EXCEPT ![call] = r.geo]
        BY <3>1, <3>3, <2>1 DEF Raised, Server
      <4>2. r.used \in [Requests -> Geometry \cup {<<>>}]
        BY <2>1 DEF Server
      <4>3. CASE req = call
        BY <4>1, <4>2, <4>3, <3>1, <2>1, LaunchIsStable
      <4>4. CASE req # call
        BY <4>1, <4>2, <4>4
      <4> QED
        BY <4>3, <4>4
    <3> QED
      BY <2>4, <2>5, <3>2, <3>3 DEF Launch
  <2>6. ASSUME ServerStep(s), ~Launch(s) PROVE srv'[s].used[req] = srv[s].used[req]
    <3>1. CASE Consider(s)
      BY <2>1, <2>4, <3>1 DEF Consider, Server
    <3>2. CASE Exhausted(s)
      BY <2>1, <2>4, <3>2 DEF Exhausted, Server
    <3>3. CASE ProbeTimesOut(s)
      BY <2>1, <2>4, <3>3 DEF ProbeTimesOut, TimedOut, Remembered, Server
    <3>4. CASE CompiledBefore(s)
      BY <2>1, <2>4, <3>4 DEF CompiledBefore, Server
    <3>5. CASE Compile(s)
      <4>1. \E x \in {Raised(r), Recorded(r), Unrecorded(r)} : Becomes(s, x)
        BY <3>5 DEF Compile
      <4>2. Raised(r).used = r.used /\ Recorded(r).used = r.used /\ Unrecorded(r).used = r.used
        BY <2>1 DEF Raised, Recorded, Unrecorded, Server
      <4> QED
        BY <4>1, <4>2, <2>4
    <3> QED
      BY <2>6, <3>1, <3>2, <3>3, <3>4, <3>5 DEF ServerStep
  <2>7. ASSUME ProbeSucceeds(s) \/ ProbeFails(s)
        PROVE  srv'[s].used[req] = srv[s].used[req]
    BY <2>1, <2>4, <2>7 DEF ProbeSucceeds, ProbeFails, Remembered, Server
  <2>8. ASSUME NEW q \in Requests, Request(s, q) PROVE srv'[s].used[req] = srv[s].used[req]
    BY <2>1, <2>4, <2>8 DEF Request, Server
  <2>9. ~Crash(s)
    BY <2>4 DEF Crash, Fresh
  <2>10. ~Restart(s)
    <3>1. CASE r.pc = "down"
      BY <3>1, <2>1 DEF RecordOK
    <3> QED
      BY <3>1 DEF Restart, At
  <2>11. ASSUME NEW u \in Servers, u # s,
                \/ \E q \in Requests : Request(u, q)
                \/ ServerStep(u) \/ Crash(u) \/ Restart(u)
                \/ ProbeSucceeds(u) \/ ProbeFails(u)
         PROVE  srv'[s] = srv[s]
    <3>1. \E x : Becomes(u, x)
      BY <2>11 DEF Request, ServerStep, Consider, Exhausted, ProbeTimesOut, CompiledBefore,
         Compile, Launch, Crash, Restart, ProbeSucceeds, ProbeFails
    <3> QED
      BY <3>1, <2>3, <2>11
  <2>12. CASE UNCHANGED vars
    BY <2>12, <2>2 DEF vars
  <2>13. ASSUME NEW u \in Servers, ProbePublishes(u) PROVE srv' = srv
    BY <2>13 DEF ProbePublishes
  <2>14. ASSUME NEW g \in orphans, OrphanEnds(g) PROVE srv' = srv
    BY <2>14 DEF OrphanEnds
  <2>15. ASSUME \/ \E q \in Requests : Request(s, q)
                \/ ServerStep(s) \/ ProbeSucceeds(s) \/ ProbeFails(s)
         PROVE  srv'[s].used[req] = srv[s].used[req]
    BY <2>15, <2>5, <2>6, <2>7, <2>8
  <2> QED
    BY <2>2, <2>9, <2>10, <2>11, <2>12, <2>13, <2>14, <2>15 DEF Next
<1> QED
  BY <1>1, Invariance, PTL DEF Spec, ShapeIsStable

-----------------------------------------------------------------------------
(* A request does not walk in circles. *)

\* What this process has not asked a probe about, and how far a candidate is.
Unprobed(r) == {g \in Geometry : r.memo[g] = "unknown"}
Place == [consider |-> 0, probe |-> 1, compile |-> 2, launch |-> 3]

\* A request comes closer to its end when it goes over to the graph of one
\* head, leaves a candidate behind, learns of one, or takes one further.
Closer(next, r) ==
    \/ r.heads = "all" /\ next.heads = "one"
    \/ /\ next.heads = r.heads
       /\ \/ Len(next.todo) < Len(r.todo)
          \/ /\ next.todo = r.todo
             /\ \/ Unprobed(next) \subseteq Unprobed(r) /\ Unprobed(next) # Unprobed(r)
                \/ next.memo = r.memo /\ Place[next.pc] > Place[r.pc]

RequestAdvances ==
    [][\A s \in Servers :
         Busy(srv[s]) /\ Busy(srv'[s]) /\ srv'[s] # srv[s]
           => Closer(srv'[s], srv[s])]_vars

\* _decode_geometry_supported answers once for each geometry.
LEMMA VerdictIsCloser ==
    ASSUME NEW r \in Server, NEW e, NEW d, RecordOK(r, e, d), r.pc = "probe",
           r.geo \in Geometry, NEW verdict \in {"yes", "no"}
    PROVE  Closer(Remembered(r, verdict), r)
<1> DEFINE r2 == Remembered(r, verdict)
<1>1. /\ r2.heads = r.heads /\ r2.todo = r.todo
      /\ r2.memo = [r.memo EXCEPT ![r.geo] = verdict]
  BY DEF Remembered, Server
<1>2. r.memo \in [Geometry -> {"unknown", "yes", "no"}] /\ r.memo[r.geo] = "unknown"
  BY DEF RecordOK, PickOK, Server
<1> HIDE DEF r2
<1>3. Unprobed(r2) = Unprobed(r) \ {r.geo} /\ r.geo \in Unprobed(r)
  BY <1>1, <1>2 DEF Unprobed
<1>4. Closer(r2, r)
  BY <1>1, <1>3 DEF Closer
<1> QED
  BY <1>4 DEF r2

\* The step of a server that stays within its request.
LEMMA StepIsCloser ==
    ASSUME IInv, NEW s \in Servers, Busy(srv[s]), Busy(srv'[s]), srv'[s] # srv[s],
           \/ ServerStep(s) \/ ProbeSucceeds(s) \/ ProbeFails(s)
    PROVE  Closer(srv'[s], srv[s])
<1> DEFINE r == srv[s]
           next == srv'[s]
<1>1. r \in Server /\ RecordOK(r, env, disk) /\ srv \in [Servers -> Server]
  BY DEF IInv, TypeOK
<1>2. ASSUME NEW x, Becomes(s, x) PROVE next = x
  BY <1>1, <1>2 DEF Becomes
<1>3. CASE Consider(s)
  <2> DEFINE g == Graph(r.batch, r.heads, Head(r.todo))
  <2>1. r.pc = "consider" /\ r.todo \in Seq(Buckets) /\ r.todo # <<>>
    BY <1>1, <1>3 DEF Consider, At, RecordOK, WalkOK
  <2>2. \/ next = [r EXCEPT !.pc = "compile", !.geo = g]
        \/ next = [r EXCEPT !.todo = Tail(@)]
        \/ next = [r EXCEPT !.pc = "probe", !.geo = g]
    BY <1>2, <1>3 DEF Consider
  <2>3. Len(Tail(r.todo)) < Len(r.todo)
    BY <2>1
  <2> HIDE DEF r, next, g
  <2>4. ASSUME next = [r EXCEPT !.todo = Tail(@)] PROVE Closer(next, r)
    <3>1. next.heads = r.heads /\ next.todo = Tail(r.todo)
      BY <1>1, <2>4 DEF Server
    <3> QED
      BY <2>3, <3>1 DEF Closer
  <2>5. ASSUME \/ next = [r EXCEPT !.pc = "compile", !.geo = g]
               \/ next = [r EXCEPT !.pc = "probe", !.geo = g]
        PROVE  Closer(next, r)
    <3>1. /\ next.heads = r.heads /\ next.todo = r.todo /\ next.memo = r.memo
          /\ next.pc \in {"compile", "probe"}
      BY <1>1, <2>5 DEF Server
    <3> QED
      BY <2>1, <3>1 DEF Closer, Place
  <2>6. Closer(next, r)
    BY <2>2, <2>4, <2>5
  <2> QED
    BY <2>6 DEF next, r
<1>4. CASE Exhausted(s)
  <2>1. r.pc = "consider"
    BY <1>4 DEF Exhausted, At
  <2>2. next = IF r.heads = "all"
                 THEN [r EXCEPT !.heads = "one",
                                !.todo = BucketLadder(r.tokens, MaxContext)]
                 ELSE [r EXCEPT !.pc = "compile", !.geo = Graph(r.batch, "one", r.tokens)]
    BY <1>2, <1>4 DEF Exhausted
  <2> HIDE DEF r, next
  <2>3. CASE r.heads = "all"
    <3>1. next.heads = "one"
      BY <1>1, <2>2, <2>3 DEF Server
    <3> QED
      BY <2>3, <3>1 DEF Closer, next, r
  <2>4. CASE r.heads # "all"
    <3>1. /\ next.heads = r.heads /\ next.todo = r.todo /\ next.memo = r.memo
          /\ next.pc = "compile"
      BY <1>1, <2>2, <2>4 DEF Server
    <3>2. Closer(next, r)
      BY <2>1, <3>1 DEF Closer, Place
    <3> QED
      BY <3>2 DEF next, r
  <2> QED
    BY <2>3, <2>4
<1>5. CASE ProbeTimesOut(s) \/ ProbeSucceeds(s) \/ ProbeFails(s)
  <2>1. PICK verdict \in {"yes", "no"} : next = Remembered(r, verdict)
    BY <1>2, <1>5 DEF ProbeTimesOut, ProbeSucceeds, ProbeFails, TimedOut
  <2>2. r.pc = "probe" /\ r.geo \in Geometry
    BY <1>5, ProbedGeometry DEF ProbeTimesOut, ProbeSucceeds, ProbeFails, At
  <2> QED
    BY <1>1, <2>1, <2>2, VerdictIsCloser
<1>6. CASE CompiledBefore(s) \/ Compile(s)
  <2>1. r.pc = "compile"
    BY <1>6 DEF CompiledBefore, Compile, At
  <2>2. \/ next = [r EXCEPT !.pc = "launch"]
        \/ next = Raised(r) \/ next = Recorded(r) \/ next = Unrecorded(r)
    BY <1>2, <1>6 DEF CompiledBefore, Compile
  <2> HIDE DEF r, next
  <2>3. CASE next = Raised(r) \/ next = Unrecorded(r)
    <3>1. next.pc = "idle"
      BY <1>1, <2>3 DEF Raised, Unrecorded, Server
    <3> QED
      BY <3>1 DEF Busy, next
  <2>4. CASE next = [r EXCEPT !.pc = "launch"] \/ next = Recorded(r)
    <3>1. /\ next.heads = r.heads /\ next.todo = r.todo /\ next.memo = r.memo
          /\ next.pc = "launch"
      BY <1>1, <2>4 DEF Recorded, Server
    <3>2. Closer(next, r)
      BY <2>1, <3>1 DEF Closer, Place
    <3> QED
      BY <3>2 DEF next, r
  <2> QED
    BY <2>2, <2>3, <2>4
<1>7. CASE Launch(s)
  <2>1. PICK warm \in {r, [r EXCEPT !.ready = @ \cup {r.geo}]} :
          \/ next = Raised(warm)
          \/ next = [Raised(warm) EXCEPT !.used[<<r.batch, r.tokens>>] = r.geo]
    BY <1>2, <1>7 DEF Launch
  <2> HIDE DEF r, next
  <2>2. next.pc = "idle"
    BY <1>1, <2>1 DEF Raised, Server
  <2> QED
    BY <2>2 DEF Busy, next
<1> QED
  BY <1>3, <1>4, <1>5, <1>6, <1>7 DEF ServerStep

\* The safety half of RequestEnds: the walk of a request descends, in the
\* graphs, the candidates and the verdicts that are left, whatever the other
\* servers, orphans and crashes do meanwhile.
THEOREM RequestsAdvance == Spec => RequestAdvances
<1>1. ASSUME IInv, [Next]_vars, NEW s \in Servers, Busy(srv[s]), Busy(srv'[s]),
             srv'[s] # srv[s]
      PROVE  Closer(srv'[s], srv[s])
  <2>1. srv \in [Servers -> Server] /\ srv' # srv
    BY <1>1 DEF IInv, TypeOK
  <2>2. ASSUME NEW u \in Servers, NEW x, Becomes(u, x)
        PROVE  u = s /\ srv'[s] = x
    BY <1>1, <2>1, <2>2 DEF Becomes
  <2>3. ASSUME NEW u \in Servers,
               \/ \E req \in Requests : Request(u, req)
               \/ Crash(u) \/ Restart(u)
        PROVE  FALSE
    <3>1. CASE \E req \in Requests : Request(u, req)
      BY <1>1, <2>2, <3>1 DEF Request, At, Busy
    <3>2. CASE Restart(u)
      BY <1>1, <2>2, <3>2 DEF Restart, At, Busy
    <3>3. CASE Crash(u)
      BY <1>1, <2>2, <3>3 DEF Crash, Fresh, Busy
    <3> QED
      BY <2>3, <3>1, <3>2, <3>3
  <2>4. ASSUME NEW u \in Servers, ServerStep(u) \/ ProbeSucceeds(u) \/ ProbeFails(u)
        PROVE  Closer(srv'[s], srv[s])
    <3>1. \E x : Becomes(u, x)
      BY <2>4 DEF ServerStep, Consider, Exhausted, ProbeTimesOut, CompiledBefore,
         Compile, Launch, ProbeSucceeds, ProbeFails
    <3>2. u = s
      BY <2>2, <3>1
    <3> QED
      BY <1>1, <2>4, <3>2, StepIsCloser
  <2>5. ~(\E u \in Servers : ProbePublishes(u)) /\ ~(\E g \in orphans : OrphanEnds(g))
        /\ ~(UNCHANGED vars)
    BY <2>1 DEF ProbePublishes, OrphanEnds, vars
  <2> QED
    BY <1>1, <2>3, <2>4, <2>5 DEF Next
<1>2. IInv /\ [Next]_vars =>
        [\A s \in Servers :
           Busy(srv[s]) /\ Busy(srv'[s]) /\ srv'[s] # srv[s]
             => Closer(srv'[s], srv[s])]_vars
  BY <1>1
<1> QED
  BY <1>2, Invariance, PTL DEF Spec, RequestAdvances
=============================================================================
