------------------------------- MODULE ToolCache -------------------------------
(* The shared GET cache in front of a rate-limited tool (tool-cache.ts) as the *)
(* proxy uses it (proxy.ts): a fresh entry answers at once, concurrent misses  *)
(* share one upstream request, a refused or unreachable upstream is covered by *)
(* a stale entry, and a successful write drops the tool's entries.             *)
(*                                                                             *)
(* One tool, and the cache of ONE console process: every replica has its own,  *)
(* and of a write made through another this one sees only the effect on the    *)
(* tool.  The tool's whole state is a version number, the count of writes it   *)
(* has applied: a GET answers the version current when it is served.  Code     *)
(* between two awaits is one step.                                             *)
EXTENDS Integers, Sequences, FiniteSets

CONSTANTS
  Reader, Writer,  \* GET requests and mutating requests, each made once
  Url,             \* the tool's GET urls
  Oversize,        \* whether a body may exceed MAX_BODY_BYTES: a subset of BOOLEAN
  NoRequest,       \* no load is running
  CacheMs, StaleMs, MaxEntries,
  MaxNow,          \* bound: clock
  MaxFaults        \* bound: upstream calls that fail, and bodies that stop coming

ASSUME ToolCacheAssumption ==
  /\ Reader \cap Writer = {} /\ IsFiniteSet(Writer)
  /\ NoRequest \notin Reader \cup Writer
  /\ Url # {} /\ Oversize \subseteq BOOLEAN /\ Oversize # {}
  /\ MaxEntries \in Nat \ {0}
  /\ {CacheMs, StaleMs, MaxNow, MaxFaults} \subseteq Nat
  /\ CacheMs <= StaleMs

VARIABLES
  upstream,  \* the tool's version
  entries,   \* the cached answers in insertion order
  inflight,  \* per url: the reader whose load is running
  reader,    \* per reader: where it stands and what it was answered
  writer,    \* per writer: "new", "sent", "done"
  now,
  faults,
  calm,      \* history: per url, the version when a write was last answered with success
             \* by this process and no load of the url was running
  shown      \* history: the newest version of each url that a read returned and the cache kept

vars == <<upstream, entries, inflight, reader, writer, now, faults, calm, shown>>

Version == 0..Cardinality(Writer)

Entry == [url : Url, version : Version, at : 0..MaxNow]

\* `on` is the reader whose load this one waits for; `calm` and `shown` are
\* the histories when the request arrived; `how` and `got` are the answer.
ReaderState ==
  [at : {"new", "send", "again", "head", "body", "stalled", "wait", "done"},
   url : Url,
   on : Reader \cup {NoRequest}, calm : Version, shown : Version,
   how : {"none", "ok", "error"}, got : Version, stamp : 0..MaxNow]

Init ==
  /\ upstream = 0
  /\ entries = <<>>
  /\ inflight = [u \in Url |-> NoRequest]
  /\ reader \in [Reader -> {[at |-> "new", url |-> u, on |-> NoRequest, calm |-> 0, shown |-> 0,
                             how |-> "none", got |-> 0, stamp |-> 0] : u \in Url}]
  /\ writer = [w \in Writer |-> "new"]
  /\ now = 0 /\ faults = 0
  /\ calm = [u \in Url |-> 0]
  /\ shown = [u \in Url |-> 0]

-------------------------------------------------------------------------------
(* SharedGetCache *)

\* get: the entries of url u no older than maxAge (there is at most one).
Cached(u, maxAge) ==
  {entries[k] : k \in {j \in DOMAIN entries : entries[j].url = u /\ now - entries[j].at <= maxAge}}

Position(u) == {k \in DOMAIN entries : entries[k].url = u}

\* What is left when the entry of url u, if any, is deleted.
Without(u) ==
  IF Position(u) = {} THEN entries
  ELSE LET k == CHOOSE k \in Position(u) : TRUE
       IN SubSeq(entries, 1, k - 1) \o SubSeq(entries, k + 1, Len(entries))

\* Mutant: nothing is evicted.
StoredUnbounded(e) == Append(Without(e.url), e)

\* set: the entry goes last and the first one falls out of a full cache.
Stored(e) ==
  LET kept == Append(Without(e.url), e)
  IN IF Len(kept) > MaxEntries THEN Tail(kept) ELSE kept

Bump(u, v) == [shown EXCEPT ![u] = IF v > @ THEN v ELSE @]

\* A reader gets its answer; it no longer matters how it came by it.
Finished(rec, how, v) ==
  [rec EXCEPT !.at = "done", !.how = IF how = "error" THEN "error" ELSE "ok", !.got = v,
              !.on = NoRequest, !.stamp = 0]

\* Mutant: a load that fails stays in the map.
SettleKeepsFailed(q, how, v) ==
  /\ inflight' = IF how = "error" THEN inflight ELSE [inflight EXCEPT ![reader[q].url] = NoRequest]
  /\ reader' = [p \in Reader |->
                  IF p = q \/ (reader[p].at = "wait" /\ reader[p].on = q)
                    THEN Finished(reader[p], how, v)
                    ELSE reader[p]]
  /\ shown' = IF how # "ok" THEN shown ELSE Bump(reader[q].url, v)

\* The load of reader q settles: `finally` forgets it, and q and every reader
\* that joined it get the same answer.
Settle(q, how, v) ==
  /\ inflight' = [inflight EXCEPT ![reader[q].url] = NoRequest]
  /\ reader' = [p \in Reader |->
                  IF p = q \/ (reader[p].at = "wait" /\ reader[p].on = q)
                    THEN Finished(reader[p], how, v)
                    ELSE reader[p]]
  /\ shown' = IF how # "ok" THEN shown ELSE Bump(reader[q].url, v)

Fault == faults < MaxFaults /\ faults' = faults + 1

-------------------------------------------------------------------------------
(* A GET through the proxy *)

Arrived(q) == [reader[q] EXCEPT !.calm = calm[reader[q].url], !.shown = shown[reader[q].url]]

Hit(q) ==
  /\ reader[q].at = "new"
  /\ \E e \in Cached(reader[q].url, CacheMs) :
       /\ reader' = [reader EXCEPT ![q] = Finished(Arrived(q), "ok", e.version)]
       /\ shown' = Bump(e.url, e.version)
  /\ UNCHANGED <<upstream, entries, inflight, writer, now, faults, calm>>

\* Mutant: every miss asks the upstream.
MissAlone(q) ==
  /\ reader[q].at = "new"
  /\ Cached(reader[q].url, CacheMs) = {}
  /\ reader' = [reader EXCEPT ![q] = [Arrived(q) EXCEPT !.at = "send"]]
  /\ inflight' = [inflight EXCEPT ![reader[q].url] = q]
  /\ UNCHANGED <<upstream, entries, writer, now, faults, calm, shown>>

\* coalesce: join the running load of this url, or start one.
Miss(q) ==
  /\ reader[q].at = "new"
  /\ Cached(reader[q].url, CacheMs) = {}
  /\ LET leader == inflight[reader[q].url] IN
       IF leader # NoRequest
         THEN /\ reader' = [reader EXCEPT ![q] = [Arrived(q) EXCEPT !.at = "wait", !.on = leader]]
              /\ UNCHANGED inflight
         ELSE /\ reader' = [reader EXCEPT ![q] = [Arrived(q) EXCEPT !.at = "send"]]
              /\ inflight' = [inflight EXCEPT ![reader[q].url] = q]
  /\ UNCHANGED <<upstream, entries, writer, now, faults, calm, shown>>

\* The upstream serves the request with a 2xx.
Served(q) ==
  /\ reader[q].at \in {"send", "again"}
  /\ reader' = [reader EXCEPT ![q] = [@ EXCEPT !.at = "head", !.got = upstream]]
  /\ UNCHANGED <<upstream, entries, inflight, writer, now, faults, calm, shown>>

\* Its headers arrive: the snapshot is dated now, before the body is read.
Answered(q) ==
  /\ reader[q].at = "head"
  /\ reader' = [reader EXCEPT ![q] = [@ EXCEPT !.at = "body", !.stamp = now]]
  /\ UNCHANGED <<upstream, entries, inflight, writer, now, faults, calm, shown>>

\* 429 or unreachable: a stale entry stands in; without one a short 429 is
\* waited out and asked again, anything else is the answer.
Refused(q) ==
  /\ reader[q].at = "send"
  /\ Fault
  /\ LET stale == Cached(reader[q].url, StaleMs) IN
       \/ \E e \in stale : Settle(q, "ok", e.version)
       \/ stale = {} /\ Settle(q, "error", 0)
       \/ /\ stale = {}
          /\ reader' = [reader EXCEPT ![q].at = "again"]
          /\ UNCHANGED <<inflight, shown>>
  /\ UNCHANGED <<upstream, entries, writer, now, calm>>

\* The second attempt fails too, the upstream answers another error, or the
\* body breaks off.
Failed(q) ==
  /\ reader[q].at \in {"again", "body"}
  /\ Fault
  /\ Settle(q, "error", 0)
  /\ UNCHANGED <<upstream, entries, writer, now, calm>>

\* The body stops coming: once the headers have arrived it streams untimed.
Stalls(q) ==
  /\ reader[q].at = "body"
  /\ Fault
  /\ reader' = [reader EXCEPT ![q].at = "stalled"]
  /\ UNCHANGED <<upstream, entries, inflight, writer, now, calm, shown>>

\* The browser that began the load goes away, or the connection is given up:
\* nothing obliges either to happen.
Dropped(q) ==
  /\ reader[q].at = "stalled"
  /\ Settle(q, "error", 0)
  /\ UNCHANGED <<upstream, entries, writer, now, faults, calm>>

\* The body is read: the answer is cached, unless it is oversized, and the load
\* settles.  set returns early on an oversized body: an older entry stays.
BodyRead(q) ==
  /\ reader[q].at = "body"
  /\ \/ /\ FALSE \in Oversize
        /\ entries' = Stored([url |-> reader[q].url, version |-> reader[q].got, at |-> reader[q].stamp])
        /\ Settle(q, "ok", reader[q].got)
     \/ /\ TRUE \in Oversize
        /\ UNCHANGED entries
        /\ Settle(q, "unkept", reader[q].got)
  /\ UNCHANGED <<upstream, writer, now, faults, calm>>

-------------------------------------------------------------------------------
(* A mutating request, and time *)

\* The tool applies the write.
WriteApplied(w) ==
  /\ writer[w] = "new"
  /\ writer' = [writer EXCEPT ![w] = "sent"]
  /\ upstream' = upstream + 1
  /\ UNCHANGED <<entries, inflight, reader, now, faults, calm, shown>>

\* Mutant: a write leaves the cached answers alone.
WriteAnsweredKeeps(w) ==
  /\ writer[w] = "sent"
  /\ writer' = [writer EXCEPT ![w] = "done"]
  /\ calm' = [u \in Url |-> IF inflight[u] = NoRequest THEN upstream ELSE calm[u]]
  /\ UNCHANGED <<upstream, entries, inflight, reader, now, faults, shown>>

\* Its answer reaches the proxy: every entry of the tool is dropped.
WriteAnswered(w) ==
  /\ writer[w] = "sent"
  /\ writer' = [writer EXCEPT ![w] = "done"]
  /\ entries' = <<>>
  /\ calm' = [u \in Url |-> IF inflight[u] = NoRequest THEN upstream ELSE calm[u]]
  /\ UNCHANGED <<upstream, inflight, reader, now, faults, shown>>

\* It went through another replica, which gets the answer and drops its own entries.
AnsweredElsewhere(w) ==
  /\ writer[w] = "sent"
  /\ writer' = [writer EXCEPT ![w] = "done"]
  /\ UNCHANGED <<upstream, entries, inflight, reader, now, faults, calm, shown>>

\* The answer is lost (a timeout, a reset) or is an error: nothing is dropped.
WriteLost(w) ==
  /\ writer[w] = "sent"
  /\ Fault
  /\ writer' = [writer EXCEPT ![w] = "done"]
  /\ UNCHANGED <<upstream, entries, inflight, reader, now, calm, shown>>

Tick ==
  /\ now < MaxNow
  /\ now' = now + 1
  /\ UNCHANGED <<upstream, entries, inflight, reader, writer, faults, calm, shown>>

Load(q) == Served(q) \/ Answered(q) \/ Refused(q) \/ Failed(q) \/ BodyRead(q)

Next ==
  \/ \E q \in Reader : Hit(q) \/ Miss(q) \/ Load(q) \/ Stalls(q) \/ Dropped(q)
  \/ \E w \in Writer :
       WriteApplied(w) \/ WriteAnswered(w) \/ AnsweredElsewhere(w) \/ WriteLost(w)
  \/ Tick

Spec == Init /\ [][Next]_vars

\* Upstream calls go on: the headers have a timeout, and a body that does not
\* stop coming ends or breaks off.  Nothing obliges a stalled one to end.
FairSpec == Spec /\ \A q \in Reader : WF_vars(Load(q))

-------------------------------------------------------------------------------
(* Properties *)

\* The shape of the state; the cache is bounded and holds one entry per url.
TypeOK ==
  /\ upstream \in Version
  /\ entries \in Seq(Entry)
  /\ Len(entries) <= MaxEntries
  /\ \A j, k \in DOMAIN entries : j # k => entries[j].url # entries[k].url
  /\ inflight \in [Url -> Reader \cup {NoRequest}]
  /\ reader \in [Reader -> ReaderState]
  /\ writer \in [Writer -> {"new", "sent", "done"}]
  /\ now \in 0..MaxNow /\ faults \in 0..MaxFaults
  /\ {calm, shown} \subseteq [Url -> Version]

Answer(q) == reader[q].at = "done" /\ reader[q].how # "error"

\* Two reads of one url through this process, the second begun after the first
\* was answered, never go backwards, whatever loads overlap, fail or fall back on
\* a stale entry.  An answer too large to keep does not count: an older one may
\* still stand in (tool-cache.ts:48-60, :71-90; proxy.ts:625-680).
MonotonicReads == \A q \in Reader : Answer(q) => reader[q].got >= reader[q].shown

\* A write that this process has answered is visible to every read of a url that
\* comes to this process afterwards -- fresh, shared, or fallen back on a stale
\* entry -- if no load of that url was running at the answer.  tool-cache.ts:22-23
\* promises "the very next read" without either condition: a load that was served
\* before the write fills the cache after it, and a write through another replica
\* leaves this one's entries alone.
QuietWriteVisible == \A q \in Reader : Answer(q) => reader[q].got >= reader[q].calm

\* The body of the read, or of the load it joined, has stopped coming.
Held(q) ==
  \/ reader[q].at = "stalled"
  \/ reader[q].at = "wait" /\ reader[reader[q].on].at = "stalled"

\* Every GET that reached the cache is answered, unless the body it waits for has
\* stopped coming: whether it leads its load or joined it, and whether the load is
\* refused, fails, or is asked again (proxy.ts:582-611; tool-cache.ts:71-81).
EveryReadAnswered ==
  \A q \in Reader : reader[q].at # "new" ~> reader[q].at = "done" \/ Held(q)

-------------------------------------------------------------------------------
(* The inductive invariant behind the proofs (ToolCache_proofs)               *)

\* The tool counts the writes it has applied.
Counted == upstream = Cardinality({w \in Writer : writer[w] # "new"})

Running(q) == reader[q].at \in {"send", "again", "head", "body", "stalled"}

\* A url has one load, the one `inflight` names, and everybody who waits joined it.
OneLoad ==
  /\ \A q \in Reader : Running(q) <=> inflight[reader[q].url] = q
  /\ \A u \in Url : inflight[u] # NoRequest => reader[inflight[u]].url = u
  /\ \A q \in Reader : reader[q].at = "wait" =>
       reader[q].on # NoRequest /\ inflight[reader[q].url] = reader[q].on

\* The entry of a url is the newest answer shown of it, and no older than its
\* last quiet write; the load that will replace it was served no earlier.
Newest ==
  /\ \A k \in DOMAIN entries :
       /\ entries[k].version = shown[entries[k].url]
       /\ entries[k].version >= calm[entries[k].url]
  /\ \A u \in Url : calm[u] <= upstream /\ shown[u] <= upstream
  /\ \A q \in Reader : reader[q].at \in {"head", "body"} =>
       /\ reader[q].got >= calm[reader[q].url] /\ reader[q].got >= shown[reader[q].url]
       /\ reader[q].got <= upstream
  /\ \A q \in Reader : Running(q) \/ reader[q].at = "wait" =>
       reader[q].calm <= calm[reader[q].url] /\ reader[q].shown <= shown[reader[q].url]

\* The awaits a read still has before it, the one it is at included.
AwaitsLeft == [new |-> 7, send |-> 6, again |-> 5, head |-> 4, body |-> 3, stalled |-> 2,
               wait |-> 1, done |-> 0]

\* A read that joined a load waits for one that runs: who joins never follows a
\* load that is over, nor another that only joined (coalesce).
FollowsALoad == \A q \in Reader : reader[q].at = "wait" => Running(reader[q].on)

\* Whatever loads fail, are refused or are asked again, each await of a read that
\* returns brings it nearer to its answer (proxy.ts asks a second time once only).
MovesOn ==
  [][\A q \in Reader : reader'[q] # reader[q]
       => AwaitsLeft[reader'[q].at] < AwaitsLeft[reader[q].at]]_vars
===============================================================================
