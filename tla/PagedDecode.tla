----------------------------- MODULE PagedDecode -----------------------------
(***************************************************************************)
(* How a server process finds a compiled graph for a decode request        *)
(* (pypto_kernels/attention.py) and compiles, records, prewarms and        *)
(* launches it (pypto_kernels/_boot.py).                                   *)
(*                                                                         *)
(* The assembler rejects some geometries and corrupts the process that     *)
(* compiles others, so a new geometry is first compiled by a sacrificial   *)
(* subprocess, which leaves the artifact in a cache directory shared by    *)
(* all processes.  A request walks a ladder of wider and wider buckets,    *)
(* first for the graph of all heads and then for the graph of one head.    *)
(***************************************************************************)
EXTENDS Integers, Sequences

CONSTANTS
    Servers,        \* processes that serve requests
    SingleTokens,   \* bucket sizes requested for a single sequence
    SeveralTokens,  \* and for a batch of several
    MaxContext,     \* width of the request table
    MaxCrashes      \* bound on the crashes of servers

ASSUME DecodeAssumption ==
    /\ MaxContext \in Nat
    /\ SingleTokens \subseteq 1 .. MaxContext
    /\ SeveralTokens \subseteq 1 .. MaxContext
    /\ MaxCrashes \in Nat

Requests == ({"single"} \X SingleTokens) \cup ({"several"} \X SeveralTokens)

-----------------------------------------------------------------------------
(* _paged_decode_bucket_ladder *)

RoundUp(tokens, alignment) == ((tokens + alignment - 1) \div alignment) * alignment
Capped(rounded, width) == IF rounded > width THEN width ELSE rounded

Wider(ladder, rounded) ==
    IF rounded > ladder[Len(ladder)] /\ rounded \notin {ladder[i] : i \in DOMAIN ladder}
      THEN Append(ladder, rounded) ELSE ladder

BucketLadder(tokens, width) ==
    Wider(Wider(<<tokens>>, Capped(RoundUp(tokens, 64), width)),
          Capped(RoundUp(tokens, 128), width))

Candidates(tokens) ==
    LET ladder == BucketLadder(tokens, MaxContext)
    IN  {ladder[i] : i \in DOMAIN ladder}
Buckets == UNION {Candidates(req[2]) : req \in Requests}

\* One graph for all heads is built for a single sequence only.
Graph(batch, heads, bucket) == [batch |-> batch, heads |-> heads, bucket |-> bucket]
Geometry == {g \in [batch: {"single", "several"}, heads: {"all", "one"}, bucket: Buckets] :
               g.heads = "all" => g.batch = "single"}

-----------------------------------------------------------------------------
VARIABLES
    env,        \* PYPTO_CACHE_DIR is set, or not and coverage is strict
    disk,       \* artifacts in the cache directory
    orphans,    \* probes whose server has died
    crashes,
    srv         \* the servers

vars == <<env, disk, orphans, crashes, srv>>

Fresh == [pc |-> "idle", batch |-> "single", tokens |-> 0, heads |-> "all",
          todo |-> <<>>, geo |-> <<>>,
          memo |-> [g \in Geometry |-> "unknown"], \* _decode_geometry_support
          compiled |-> {},   \* _paged_decode_cache and _GRAPHS
          records |-> {},    \* _COMPILE_SNAPSHOT
          ready |-> {},      \* _EXECUTABLES
          used |-> [req \in Requests |-> <<>>]]  \* launched for a request

Init ==
    /\ env \in {"cache", "none", "strict"}
    /\ disk = {} /\ orphans = {} /\ crashes = 0
    /\ srv = [s \in Servers |-> Fresh]

At(s, pc) == srv[s].pc = pc
Becomes(s, r) == srv' = [srv EXCEPT ![s] = r]
Raised(r) == [r EXCEPT !.pc = "idle", !.batch = "single", !.tokens = 0,
                       !.heads = "all", !.todo = <<>>, !.geo = <<>>]

-----------------------------------------------------------------------------
(* paged_attention_decode *)

Request(s, req) ==
    /\ At(s, "idle")
    /\ Becomes(s, [srv[s] EXCEPT
         !.pc = "consider", !.batch = req[1], !.tokens = req[2],
         !.heads = IF req[1] = "single" THEN "all" ELSE "one",
         !.todo = BucketLadder(req[2], MaxContext)])
    /\ UNCHANGED <<env, disk, orphans, crashes>>

\* _compile_paged_decode_probed for the next candidate: without a cache
\* directory the library compiles in its own process.
Consider(s) ==
    LET r == srv[s]  g == Graph(r.batch, r.heads, Head(r.todo))
        pick == g \in r.compiled \/ env # "cache" \/ r.memo[g] = "yes"
    IN  /\ At(s, "consider") /\ r.todo # <<>>
        /\ Becomes(s, IF pick THEN [r EXCEPT !.pc = "compile", !.geo = g]
                      ELSE IF r.memo[g] = "no" THEN [r EXCEPT !.todo = Tail(@)]
                      ELSE [r EXCEPT !.pc = "probe", !.geo = g])
        /\ UNCHANGED <<env, disk, orphans, crashes>>

\* The graph of one head follows the graph of all heads; its exact geometry is
\* compiled in the server as the last resort.
Exhausted(s) ==
    LET r == srv[s]
    IN  /\ At(s, "consider") /\ r.todo = <<>>
        /\ Becomes(s, IF r.heads = "all"
                        THEN [r EXCEPT !.heads = "one",
                                       !.todo = BucketLadder(r.tokens, MaxContext)]
                        ELSE [r EXCEPT !.pc = "compile",
                                       !.geo = Graph(r.batch, "one", r.tokens)])
        /\ UNCHANGED <<env, disk, orphans, crashes>>

-----------------------------------------------------------------------------
(* _decode_geometry_supported: the subprocess and its verdict *)

\* The subprocess compiles the geometry, or finds it in the cache.
ProbePublishes(s) ==
    LET g == srv[s].geo
    IN  /\ At(s, "probe") /\ g \notin disk
        /\ disk' = disk \cup {g}
        /\ UNCHANGED <<env, orphans, crashes, srv>>

Remembered(r, verdict) ==
    [r EXCEPT !.pc = IF verdict = "yes" THEN "compile" ELSE "consider",
              !.memo[r.geo] = verdict]

ProbeSucceeds(s) ==
    /\ At(s, "probe") /\ srv[s].geo \in disk
    /\ Becomes(s, Remembered(srv[s], "yes"))
    /\ UNCHANGED <<env, disk, orphans, crashes>>

\* The assembler rejects the geometry or corrupts the subprocess, or the
\* subprocess fails for a reason of its own, whatever it has published.
ProbeFails(s) ==
    /\ At(s, "probe")
    /\ Becomes(s, Remembered(srv[s], "no"))
    /\ UNCHANGED <<env, disk, orphans, crashes>>

\* Mutants: a timeout is not remembered; a probe that timed out is trusted.
TimedOutForgets(r) == [r EXCEPT !.pc = "consider", !.todo = Tail(@)]
TimedOutTrusts(r) == Remembered(r, "yes")
TimedOut(r) == Remembered(r, "no")

\* After 180 seconds the subprocess is killed.  Mutant: it is waited for.
ProbeTimesOutNever(s) == FALSE /\ UNCHANGED vars
ProbeTimesOut(s) ==
    /\ At(s, "probe")
    /\ Becomes(s, TimedOut(srv[s]))
    /\ UNCHANGED <<env, disk, orphans, crashes>>

-----------------------------------------------------------------------------
(* compile_paged_decode_for, compile_graph *)

\* Strict coverage without a cache directory is refused by _artifact_cache_for.
Refused == env = "strict"
Hit(g) == env = "cache" /\ g \in disk

\* Mutant: the graph is kept although its record could not be made.
StoredAnyway(r) == [Raised(r) EXCEPT !.compiled = @ \cup {r.geo}]
Unrecorded(r) == Raised(r)

Recorded(r) == [r EXCEPT !.pc = "launch", !.compiled = @ \cup {r.geo},
                         !.records = @ \cup {r.geo}]

CompiledBefore(s) ==
    /\ At(s, "compile") /\ srv[s].geo \in srv[s].compiled
    /\ Becomes(s, [srv[s] EXCEPT !.pc = "launch"])
    /\ UNCHANGED <<env, disk, orphans, crashes>>

\* The artifact comes from the cache, or from the assembler unless that
\* rejects the graph; its record may still fail, before anything is stored.
Compile(s) ==
    LET r == srv[s]  g == r.geo
    IN  /\ At(s, "compile") /\ g \notin r.compiled
        /\ UNCHANGED <<env, orphans, crashes>>
        /\ \/ /\ Refused \/ ~Hit(g)
              /\ Becomes(s, Raised(r)) /\ UNCHANGED disk
           \/ /\ ~Refused
              /\ disk' = IF env = "cache" THEN disk \cup {g} ELSE disk
              /\ \E done \in {Recorded(r), Unrecorded(r)} : Becomes(s, done)

\* _ready_executable and launch_graph; the prewarm or the launch may raise.
Launch(s) ==
    LET r == srv[s]
        warm == [r EXCEPT !.ready = @ \cup {r.geo}]
    IN  /\ At(s, "launch")
        /\ \/ Becomes(s, Raised(r))
           \/ Becomes(s, Raised(warm))
           \/ Becomes(s, [Raised(warm) EXCEPT !.used[<<r.batch, r.tokens>>] = r.geo])
        /\ UNCHANGED <<env, disk, orphans, crashes>>

-----------------------------------------------------------------------------
(* Processes die and are started again; a probe has a session of its own.    *)

Crash(s) ==
    /\ ~At(s, "down") /\ crashes < MaxCrashes
    /\ crashes' = crashes + 1
    /\ Becomes(s, [Fresh EXCEPT !.pc = "down"])
    /\ orphans' = IF At(s, "probe") THEN orphans \cup {srv[s].geo} ELSE orphans
    /\ UNCHANGED <<env, disk>>

Restart(s) ==
    /\ At(s, "down") /\ Becomes(s, Fresh)
    /\ UNCHANGED <<env, disk, orphans, crashes>>

OrphanEnds(g) ==
    /\ orphans' = orphans \ {g}
    /\ disk' \in {disk, disk \cup {g}}
    /\ UNCHANGED <<env, crashes, srv>>

-----------------------------------------------------------------------------
ServerStep(s) ==
    \/ Consider(s) \/ Exhausted(s) \/ ProbeTimesOut(s) \/ CompiledBefore(s) \/ Compile(s) \/ Launch(s)

Next ==
    \/ \E s \in Servers :
         \/ \E req \in Requests : Request(s, req)
         \/ ServerStep(s) \/ Crash(s) \/ Restart(s)
         \/ ProbePublishes(s) \/ ProbeSucceeds(s) \/ ProbeFails(s)
    \/ \E g \in orphans : OrphanEnds(g)

Spec == Init /\ [][Next]_vars

\* A request is a synchronous call.  The subprocess may hang: only the timeout
\* is fair.
FairSpec == Spec /\ \A s \in Servers : WF_vars(ServerStep(s))

-----------------------------------------------------------------------------
(* Properties. *)

Server == [pc: {"idle", "consider", "probe", "compile", "launch", "down"},
           batch: {"single", "several"}, tokens: 0 .. MaxContext, heads: {"all", "one"},
           todo: Seq(Buckets), geo: Geometry \cup {<<>>},
           memo: [Geometry -> {"unknown", "yes", "no"}],
           compiled: SUBSET Geometry, records: SUBSET Geometry,
           ready: SUBSET Geometry,
           used: [Requests -> Geometry \cup {<<>>}]]

\* Type invariant.
TypeOK ==
    /\ env \in {"cache", "none", "strict"}
    /\ disk \subseteq Geometry /\ orphans \subseteq Geometry
    /\ crashes \in 0 .. MaxCrashes
    /\ srv \in [Servers -> Server]

\* A server that has a cache directory lets the assembler into its own process
\* only as the last resort (attention.py:1908): for the exact one-head graph,
\* after a probe of this process failed for every candidate of the request.
AssemblesOnlyAsLastResort ==
    \A s \in Servers :
        LET r == srv[s]
        IN  At(s, "compile") /\ r.geo \notin r.compiled /\ env = "cache" /\ ~Hit(r.geo)
              => /\ r.geo = Graph(r.batch, "one", r.tokens)
                 /\ \A g \in Geometry :
                      g.batch = r.batch /\ g.bucket \in Candidates(r.tokens)
                        => r.memo[g] = "no"

\* While a server lives, requests of one kind are always launched on the graph
\* they were launched on first: timeouts, orphans and other servers that fill
\* the cache later do not change shapes under a running engine.
ShapeIsStable ==
    [][\A s \in Servers, req \in Requests :
         srv[s].used[req] # <<>> /\ srv'[s].pc # "down"
           => srv'[s].used[req] = srv[s].used[req]]_vars

\* The evidence of the main process (artifact_compile_snapshot) is complete:
\* it has a compile record for every graph that has an executable.
ReadyIsRecorded == \A s \in Servers : srv[s].ready \subseteq srv[s].records

\* Every request is launched or raises, also when probes hang.
RequestEnds ==
    \A s \in Servers : srv[s].pc \in {"consider", "probe", "compile", "launch"}
                         ~> srv[s].pc \in {"idle", "down"}
=============================================================================
