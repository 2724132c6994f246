--------------------------- MODULE ToolCache_proofs ---------------------------
(* Proofs about ToolCache, for any number of requests, urls, entries and      *)
(* failures: reads of one url through one process never go backwards, and a   *)
(* write it answered while no load of a url ran is visible to its later reads. *)
EXTENDS ToolCache, FiniteSetTheorems, SequenceTheorems, TLAPS

Inv == TypeOK /\ Counted /\ OneLoad /\ Newest /\ MonotonicReads /\ QuietWriteVisible

USE ToolCacheAssumption

\* A version is a natural number.
LEMMA Versions == Cardinality(Writer) \in Nat /\ Version \subseteq Nat
BY FS_CardinalityType DEF Version

\* Equal versions compare both ways.
LEMMA Equals == \A x, y \in Version : x = y => x <= y /\ x >= y
BY Versions

-------------------------------------------------------------------------------
(* The map of entries                                                         *)

\* Every element of s is an entry of another url than u.
OthersOf(s, u) ==
  \A j \in 1..Len(s) : \E k \in DOMAIN entries : s[j] = entries[k] /\ entries[k].url # u

OnePerUrl(s) == \A i, j \in 1..Len(s) : i # j => s[i].url # s[j].url

\* delete: what is left is the other urls' entries, one each, in order.
LEMMA WithoutFacts ==
  ASSUME TypeOK, NEW u \in Url
  PROVE  /\ Without(u) \in Seq(Entry) /\ Len(Without(u)) <= Len(entries)
         /\ OthersOf(Without(u), u)
         /\ OnePerUrl(Without(u))
<1>1. /\ entries \in Seq(Entry) /\ DOMAIN entries = 1..Len(entries) /\ Len(entries) \in Nat
      /\ \A j, k \in DOMAIN entries : j # k => entries[j].url # entries[k].url
  BY DEF TypeOK
<1>2. CASE Position(u) = {}
  BY <1>1, <1>2 DEF Without, Position, OthersOf, OnePerUrl
<1>3. CASE Position(u) # {}
  <2>1. PICK k \in Position(u) :
          Without(u) = SubSeq(entries, 1, k - 1) \o SubSeq(entries, k + 1, Len(entries))
    BY <1>3 DEF Without
  <2>2. k \in 1..Len(entries) /\ entries[k].url = u
    BY <1>1 DEF Position
  <2> DEFINE a == SubSeq(entries, 1, k - 1)
             b == SubSeq(entries, k + 1, Len(entries))
             w == a \o b
  <2>3. /\ a \in Seq(Entry) /\ Len(a) = k - 1 /\ \A j \in 1..k-1 : a[j] = entries[j]
    BY <1>1, <2>2
  <2>4. /\ b \in Seq(Entry) /\ Len(b) = Len(entries) - k
        /\ \A j \in 1..Len(entries)-k : b[j] = entries[k + j]
    <3>1. \A j \in k+1..Len(entries) : entries[j] \in Entry
      BY <1>1, <2>2
    <3>2. k + 1 \in Int /\ Len(entries) \in Int
      BY <1>1, <2>2
    <3>3. /\ b \in Seq(Entry)
          /\ Len(b) = IF k + 1 <= Len(entries) THEN Len(entries) - (k + 1) + 1 ELSE 0
          /\ \A j \in 1..Len(entries) - (k + 1) + 1 : b[j] = entries[(k + 1) + j - 1]
      BY <3>1, <3>2, SubSeqProperties
    <3> HIDE DEF b
    <3>4. /\ Len(entries) - (k + 1) + 1 = Len(entries) - k
          /\ \A j \in 1..Len(entries)-k : (k + 1) + j - 1 = k + j
      BY <1>1, <2>2
    <3>5. (IF k + 1 <= Len(entries) THEN Len(entries) - (k + 1) + 1 ELSE 0) = Len(entries) - k
      <4>1. Len(entries) \in Int /\ k \in Int /\ k <= Len(entries)
        BY <1>1, <2>2
      <4>2. \A n, m \in Int : m <= n => (IF m + 1 <= n THEN n - (m + 1) + 1 ELSE 0) = n - m
        OBVIOUS
      <4> QED
        BY ONLY <4>1, <4>2
    <3> QED
      BY ONLY <3>3, <3>4, <3>5
  <2> HIDE DEF a, b
  <2>5. /\ w \in Seq(Entry) /\ Len(w) = Len(entries) - 1
        /\ \A j \in 1..Len(w) : w[j] = entries[IF j < k THEN j ELSE j + 1]
    <3>1. /\ w \in Seq(Entry) /\ Len(w) = Len(a) + Len(b)
          /\ \A j \in 1..Len(a) + Len(b) : w[j] = IF j <= Len(a) THEN a[j] ELSE b[j - Len(a)]
      BY <2>3, <2>4, ConcatProperties
    <3> HIDE DEF w
    <3>2. Len(a) + Len(b) = Len(entries) - 1
      BY <1>1, <2>2, <2>3, <2>4
    <3>3. ASSUME NEW j \in 1..Len(w)
          PROVE  w[j] = entries[IF j < k THEN j ELSE j + 1]
      <4>1. CASE j < k
        BY <1>1, <2>2, <2>3, <3>1, <3>2, <4>1
      <4>2. CASE ~(j < k)
        <5>1. j - (k - 1) \in 1..Len(entries) - k /\ ~(j <= Len(a)) /\ k + (j - (k - 1)) = j + 1
          BY <1>1, <2>2, <2>3, <3>1, <3>2, <4>2
        <5> QED
          BY <2>3, <2>4, <3>1, <3>2, <4>2, <5>1
      <4> QED
        BY <4>1, <4>2
    <3> QED
      BY <3>1, <3>2, <3>3
  <2>6. Without(u) = w
    BY <2>1 DEF a, b
  <2> HIDE DEF w
  <2>7. \A j \in 1..Len(w) : /\ (IF j < k THEN j ELSE j + 1) \in 1..Len(entries)
                             /\ (IF j < k THEN j ELSE j + 1) # k
    BY <1>1, <2>2, <2>5
  <2>8. \A j \in 1..Len(w) : \E i \in DOMAIN entries : w[j] = entries[i] /\ entries[i].url # u
    BY <1>1, <2>2, <2>5, <2>7
  <2>9. \A i, j \in 1..Len(w) : i # j => w[i].url # w[j].url
    <3> SUFFICES ASSUME NEW i \in 1..Len(w), NEW j \in 1..Len(w), i # j
                 PROVE  w[i].url # w[j].url
      OBVIOUS
    <3> DEFINE x == IF i < k THEN i ELSE i + 1
               y == IF j < k THEN j ELSE j + 1
    <3>1. x # y /\ x \in 1..Len(entries) /\ y \in 1..Len(entries)
      BY <2>2, <2>7
    <3>2. w[i] = entries[x] /\ w[j] = entries[y]
      BY <2>5
    <3> HIDE DEF x, y
    <3> QED
      BY <1>1, <3>1, <3>2
  <2>10. OthersOf(w, u) /\ OnePerUrl(w)
    BY <2>8, <2>9 DEF OthersOf, OnePerUrl
  <2> QED
    BY <1>1, <2>5, <2>6, <2>10
<1> QED
  BY <1>2, <1>3

\* Every element of s is e, or an entry of another url.
EOrOthers(s, e) ==
  \A j \in 1..Len(s) :
    s[j] = e \/ \E k \in DOMAIN entries : s[j] = entries[k] /\ entries[k].url # e.url

\* set: the new entry, and entries of other urls, still one each and not too many.
LEMMA StoredFacts ==
  ASSUME TypeOK, NEW e \in Entry
  PROVE  /\ Stored(e) \in Seq(Entry) /\ Len(Stored(e)) <= MaxEntries
         /\ EOrOthers(Stored(e), e)
         /\ OnePerUrl(Stored(e))
<1> DEFINE w == Without(e.url)
           kept == Append(w, e)
<1>1. e.url \in Url /\ Len(entries) <= MaxEntries /\ Len(entries) \in Nat
  BY DEF Entry, TypeOK
<1>2. /\ w \in Seq(Entry) /\ Len(w) <= Len(entries)
      /\ \A j \in 1..Len(w) :
           \E k \in DOMAIN entries : w[j] = entries[k] /\ entries[k].url # e.url
      /\ \A i, j \in 1..Len(w) : i # j => w[i].url # w[j].url
  BY <1>1, WithoutFacts DEF OthersOf, OnePerUrl
<1> HIDE DEF w
<1>3. /\ kept \in Seq(Entry) /\ Len(kept) = Len(w) + 1 /\ Len(w) \in Nat
      /\ kept[Len(w) + 1] = e /\ \A j \in 1..Len(w) : kept[j] = w[j]
  BY <1>2
<1>4. Stored(e) = IF Len(kept) > MaxEntries THEN Tail(kept) ELSE kept
  BY DEF Stored, w
<1> HIDE DEF kept
<1>5. ASSUME NEW j \in 1..Len(kept)
      PROVE  kept[j] = e \/ \E k \in DOMAIN entries : kept[j] = entries[k] /\ entries[k].url # e.url
  <2>1. j \in 1..Len(w) \/ j = Len(w) + 1
    BY <1>3
  <2> QED
    BY <1>2, <1>3, <2>1
<1>6. ASSUME NEW i \in 1..Len(kept), NEW j \in 1..Len(kept), i # j
      PROVE  kept[i].url # kept[j].url
  <2>1. /\ i \in 1..Len(w) \/ i = Len(w) + 1
        /\ j \in 1..Len(w) \/ j = Len(w) + 1
    BY <1>3
  <2>2. \A n \in 1..Len(w) : w[n].url # e.url
    BY <1>2
  <2> QED
    BY <1>2, <1>3, <1>6, <2>1, <2>2
<1>7. CASE Len(kept) > MaxEntries
  <2> DEFINE t == Tail(kept)
  <2>1. /\ t \in Seq(Entry) /\ Len(t) = Len(kept) - 1 /\ DOMAIN t = 1..Len(t)
        /\ \A j \in 1..Len(t) : t[j] = kept[j + 1] /\ j + 1 \in 1..Len(kept)
    BY <1>3, <1>7
  <2>2. Len(t) <= MaxEntries
    BY <1>1, <1>2, <1>3, <2>1
  <2>3. \A i, j \in 1..Len(t) : i # j => t[i].url # t[j].url
    BY <1>6, <2>1
  <2>4. Stored(e) = t
    BY <1>4, <1>7
  <2> HIDE DEF t
  <2>5. EOrOthers(t, e)
    BY <1>5, <2>1 DEF EOrOthers
  <2>6. OnePerUrl(t)
    BY <2>3 DEF OnePerUrl
  <2> QED
    BY <2>1, <2>2, <2>4, <2>5, <2>6
<1>8. CASE ~(Len(kept) > MaxEntries)
  <2>1. Stored(e) = kept /\ DOMAIN kept = 1..Len(kept) /\ Len(kept) <= MaxEntries
    BY <1>3, <1>4, <1>8
  <2>2. EOrOthers(kept, e)
    BY <1>5 DEF EOrOthers
  <2>3. OnePerUrl(kept)
    BY <1>6 DEF OnePerUrl
  <2> QED
    BY <1>3, <2>1, <2>2, <2>3
<1> QED
  BY <1>7, <1>8

-------------------------------------------------------------------------------
(* What one step does to the readers                                          *)

IsRunning(r) == r.at \in {"send", "again", "head", "body", "stalled"}

\* A finished request keeps its url and its histories.
LEMMA FinishedFacts ==
  ASSUME NEW r \in ReaderState, NEW how \in {"ok", "unkept", "error"}, NEW v \in Version
  PROVE  /\ Finished(r, how, v) \in ReaderState
         /\ Finished(r, how, v).at = "done" /\ Finished(r, how, v).got = v
         /\ Finished(r, how, v).url = r.url /\ Finished(r, how, v).calm = r.calm
         /\ Finished(r, how, v).shown = r.shown
         /\ Finished(r, how, v).how = "error" <=> how = "error"
<1> 0 \in 0..MaxNow
  OBVIOUS
<1> QED
  BY DEF Finished, ReaderState

\* One reader moves: it stays what it was to the loads, or it starts one.
LEMMA Moved ==
  ASSUME Inv, NEW q \in Reader, NEW r \in ReaderState,
         reader' = [reader EXCEPT ![q] = r], r.url = reader[q].url,
         UNCHANGED <<entries, upstream, calm, shown>>,
         \/ inflight' = inflight /\ (IsRunning(r) <=> Running(q))
         \/ /\ inflight[r.url] = NoRequest /\ IsRunning(r)
            /\ inflight' = [inflight EXCEPT ![r.url] = q],
         r.at = "wait" => r.on # NoRequest /\ inflight[r.url] = r.on,
         r.at \in {"head", "body"} => r.got >= calm[r.url] /\ r.got >= shown[r.url] /\ r.got <= upstream,
         IsRunning(r) \/ r.at = "wait" => r.calm <= calm[r.url] /\ r.shown <= shown[r.url],
         r.at = "done" /\ r.how # "error" => r.got >= r.shown /\ r.got >= r.calm
  PROVE  OneLoad' /\ Newest' /\ MonotonicReads' /\ QuietWriteVisible'
<1>1. /\ reader \in [Reader -> ReaderState] /\ inflight \in [Url -> Reader \cup {NoRequest}]
      /\ \A p \in Reader : reader[p].url \in Url
      /\ r.url \in Url /\ NoRequest \notin Reader
  BY DEF Inv, TypeOK, ReaderState
<1>2. /\ reader'[q] = r /\ \A p \in Reader : p # q => reader'[p] = reader[p]
      /\ \A p \in Reader : reader'[p].url = reader[p].url
  BY <1>1
<1>3. OneLoad'
  <2>1. OneLoad
    BY DEF Inv
  <2>2. CASE inflight' = inflight /\ (IsRunning(r) <=> Running(q))
    BY <1>1, <1>2, <2>1, <2>2 DEF OneLoad, Running, IsRunning
  <2>3. CASE /\ inflight[r.url] = NoRequest /\ IsRunning(r)
             /\ inflight' = [inflight EXCEPT ![r.url] = q]
    <3>1. inflight'[r.url] = q /\ \A u \in Url : u # r.url => inflight'[u] = inflight[u]
      BY <1>1, <2>3
    <3>2. \A p \in Reader : Running(p)' <=> inflight'[reader'[p].url] = p
      BY <1>1, <1>2, <2>1, <2>3, <3>1 DEF OneLoad, Running, IsRunning
    <3>3. \A u \in Url : inflight'[u] # NoRequest => reader'[inflight'[u]].url = u
      BY <1>1, <1>2, <2>1, <3>1 DEF OneLoad
    <3>4. \A p \in Reader : reader'[p].at = "wait" =>
            reader'[p].on # NoRequest /\ inflight'[reader'[p].url] = reader'[p].on
      BY <1>1, <1>2, <2>1, <2>3, <3>1 DEF OneLoad, IsRunning
    <3> QED
      BY <3>2, <3>3, <3>4 DEF OneLoad
  <2> QED
    BY <2>2, <2>3
<1>4. Newest'
  <2>1. Newest
    BY DEF Inv
  <2>2. \A p \in Reader : reader'[p].at \in {"head", "body"} =>
          /\ reader'[p].got >= calm[reader'[p].url] /\ reader'[p].got >= shown[reader'[p].url]
          /\ reader'[p].got <= upstream
    BY <1>2, <2>1 DEF Newest
  <2>3. \A p \in Reader : Running(p)' \/ reader'[p].at = "wait" =>
          reader'[p].calm <= calm[reader'[p].url] /\ reader'[p].shown <= shown[reader'[p].url]
    BY <1>2, <2>1 DEF Newest, Running, IsRunning
  <2> QED
    BY <2>1, <2>2, <2>3 DEF Newest
<1>5. MonotonicReads' /\ QuietWriteVisible'
  BY <1>2 DEF Inv, MonotonicReads, QuietWriteVisible, Answer
<1> QED
  BY <1>3, <1>4, <1>5

\* The load of q settles: q and the readers that joined it are answered, and
\* only the url's newest shown answer moves.
LEMMA Settles ==
  ASSUME Inv, NEW q \in Reader, Running(q),
         NEW how \in {"ok", "unkept", "error"}, NEW v \in Version,
         how # "error" => v >= calm[reader[q].url] /\ v >= shown[reader[q].url] /\ v <= upstream,
         Settle(q, how, v), UNCHANGED <<upstream, calm>>
  PROVE  /\ inflight' \in [Url -> Reader \cup {NoRequest}] /\ reader' \in [Reader -> ReaderState]
         /\ shown' \in [Url -> Version]
         /\ \A u \in Url : shown'[u] = IF how = "ok" /\ u = reader[q].url THEN v ELSE shown[u]
         /\ OneLoad' /\ MonotonicReads' /\ QuietWriteVisible'
         /\ \A p \in Reader : ~(reader'[p].at \in {"head", "body"} /\ reader[p].url = reader[q].url)
         /\ \A p \in Reader : reader'[p].at # "done" => reader'[p] = reader[p]
<1> DEFINE hit(p) == p = q \/ (reader[p].at = "wait" /\ reader[p].on = q)
<1>1. /\ reader \in [Reader -> ReaderState] /\ inflight \in [Url -> Reader \cup {NoRequest}]
      /\ shown \in [Url -> Version] /\ \A p \in Reader : reader[p].url \in Url
      /\ NoRequest \notin Reader /\ calm \in [Url -> Version] /\ upstream \in Version
  BY DEF Inv, TypeOK, ReaderState
<1>2. \A p \in Reader : reader'[p] = IF hit(p) THEN Finished(reader[p], how, v) ELSE reader[p]
  BY DEF Settle
<1>3. \A p \in Reader : hit(p) =>
        /\ Finished(reader[p], how, v) \in ReaderState
        /\ reader'[p].at = "done" /\ reader'[p].got = v /\ reader'[p].url = reader[p].url
        /\ reader'[p].calm = reader[p].calm /\ reader'[p].shown = reader[p].shown
        /\ reader'[p].how = "error" <=> how = "error"
  <2> SUFFICES ASSUME NEW p \in Reader, hit(p)
               PROVE  /\ Finished(reader[p], how, v) \in ReaderState
                      /\ reader'[p].at = "done" /\ reader'[p].got = v
                      /\ reader'[p].url = reader[p].url /\ reader'[p].calm = reader[p].calm
                      /\ reader'[p].shown = reader[p].shown
                      /\ reader'[p].how = "error" <=> how = "error"
    OBVIOUS
  <2>1. reader[p] \in ReaderState /\ reader'[p] = Finished(reader[p], how, v)
    BY <1>1, <1>2
  <2> DEFINE f == Finished(reader[p], how, v)
  <2>2. /\ f \in ReaderState /\ f.at = "done" /\ f.got = v
        /\ f.url = reader[p].url /\ f.calm = reader[p].calm /\ f.shown = reader[p].shown
    <3>1. f \in ReaderState
      BY <2>1, FinishedFacts
    <3>2. f.at = "done"
      BY <2>1, FinishedFacts
    <3>3. f.got = v
      BY <2>1, FinishedFacts
    <3>4. f.url = reader[p].url
      BY <2>1, FinishedFacts
    <3>5. f.calm = reader[p].calm
      BY <2>1, FinishedFacts
    <3>6. f.shown = reader[p].shown
      BY <2>1, FinishedFacts
    <3> QED
      BY <3>1, <3>2, <3>3, <3>4, <3>5, <3>6
  <2>3. f.how = "error" <=> how = "error"
    BY <2>1, FinishedFacts
  <2> HIDE DEF f
  <2> QED
    BY <2>1, <2>2, <2>3 DEF f
<1>4. reader' \in [Reader -> ReaderState]
  BY <1>1, <1>2, <1>3 DEF Settle
<1>5. /\ inflight' \in [Url -> Reader \cup {NoRequest}]
      /\ inflight'[reader[q].url] = NoRequest
      /\ \A u \in Url : u # reader[q].url => inflight'[u] = inflight[u]
  BY <1>1 DEF Settle
<1>6. OneLoad /\ inflight[reader[q].url] = q
  BY DEF Inv, OneLoad
<1>7. \A p \in Reader : reader'[p].url = reader[p].url /\ (hit(p) => reader[p].url = reader[q].url)
  BY <1>1, <1>2, <1>3, <1>6 DEF OneLoad
<1>8. shown' \in [Url -> Version]
      /\ \A u \in Url : shown'[u] = IF how = "ok" /\ u = reader[q].url THEN v ELSE shown[u]
  <2>1. CASE how # "ok"
    BY <1>1, <2>1 DEF Settle
  <2>2. CASE how = "ok"
    <3>1. shown' = [shown EXCEPT ![reader[q].url] = IF v > @ THEN v ELSE @]
      BY <2>2 DEF Settle, Bump
    <3>2. (IF v > shown[reader[q].url] THEN v ELSE shown[reader[q].url]) = v
      <4>1. v \in Version /\ shown[reader[q].url] \in Version /\ v >= shown[reader[q].url]
        BY <1>1, <2>2
      <4>2. \A n \in Version : n \in Int
        BY Versions
      <4> QED
        BY ONLY <4>1, <4>2
    <3> QED
      BY <1>1, <2>2, <3>1, <3>2
  <2> QED
    BY <2>1, <2>2
<1>9. OneLoad'
  <2>1. \A p \in Reader : Running(p)' <=> inflight'[reader'[p].url] = p
    <3> SUFFICES ASSUME NEW p \in Reader
                 PROVE  Running(p)' <=> inflight'[reader'[p].url] = p
      OBVIOUS
    <3>1. CASE hit(p)
      BY <1>1, <1>3, <1>5, <1>7, <3>1 DEF Running
    <3>2. CASE ~hit(p)
      <4>1. reader'[p] = reader[p] /\ p # q
        BY <1>2, <3>2
      <4>2. CASE reader[p].url = reader[q].url
        BY <1>1, <1>5, <1>6, <4>1, <4>2 DEF OneLoad, Running
      <4>3. CASE reader[p].url # reader[q].url
        BY <1>1, <1>5, <1>6, <4>1, <4>3 DEF OneLoad, Running
      <4> QED
        BY <4>2, <4>3
    <3> QED
      BY <3>1, <3>2
  <2>2. \A u \in Url : inflight'[u] # NoRequest => reader'[inflight'[u]].url = u
    BY <1>1, <1>5, <1>6, <1>7 DEF OneLoad
  <2>3. \A p \in Reader : reader'[p].at = "wait" =>
          reader'[p].on # NoRequest /\ inflight'[reader'[p].url] = reader'[p].on
    <3> SUFFICES ASSUME NEW p \in Reader, reader'[p].at = "wait"
                 PROVE  reader'[p].on # NoRequest /\ inflight'[reader'[p].url] = reader'[p].on
      OBVIOUS
    <3>1. ~hit(p) /\ reader'[p] = reader[p] /\ reader[p].on # q
      BY <1>2, <1>3
    <3>2. reader[p].url # reader[q].url
      BY <1>6, <3>1 DEF OneLoad
    <3> QED
      BY <1>1, <1>5, <1>6, <3>1, <3>2 DEF OneLoad
  <2> QED
    BY <2>1, <2>2, <2>3 DEF OneLoad
<1>10. MonotonicReads' /\ QuietWriteVisible'
  <2> SUFFICES ASSUME NEW p \in Reader, Answer(p)'
               PROVE  reader'[p].got >= reader'[p].shown /\ reader'[p].got >= reader'[p].calm
    BY DEF MonotonicReads, QuietWriteVisible
  <2>1. CASE ~hit(p)
    BY <1>2, <2>1 DEF Inv, MonotonicReads, QuietWriteVisible, Answer
  <2>2. CASE hit(p)
    <3>1. how # "error"
      BY <1>3, <2>2 DEF Answer
    <3>2. reader[p].calm <= calm[reader[q].url] /\ reader[p].shown <= shown[reader[q].url]
      BY <1>7, <2>2 DEF Inv, Newest
    <3>3. reader[p].calm \in Version /\ reader[p].shown \in Version
          /\ shown[reader[q].url] \in Version
      BY <1>1 DEF ReaderState
    <3>4. reader[p].calm <= v /\ reader[p].shown <= v
      <4>1. calm[reader[q].url] <= v /\ shown[reader[q].url] <= v
        BY <3>1
      <4>2. /\ calm[reader[q].url] \in Int /\ v \in Int /\ shown[reader[q].url] \in Int
            /\ reader[p].calm \in Int /\ reader[p].shown \in Int
        <5>1. /\ calm[reader[q].url] \in Version /\ v \in Version /\ shown[reader[q].url] \in Version
              /\ reader[p].calm \in Version /\ reader[p].shown \in Version
          BY <1>1, <3>3
        <5>2. \A n \in Version : n \in Int
          BY Versions
        <5> QED
          BY ONLY <5>1, <5>2
      <4> QED
        BY ONLY <3>2, <4>1, <4>2
    <3> QED
      BY <1>3, <2>2, <3>3, <3>4, Versions
  <2> QED
    BY <2>1, <2>2
<1>11. \A p \in Reader : ~(reader'[p].at \in {"head", "body"} /\ reader[p].url = reader[q].url)
  <2> SUFFICES ASSUME NEW p \in Reader, reader'[p].at \in {"head", "body"},
                      reader[p].url = reader[q].url
               PROVE  FALSE
    OBVIOUS
  <2>1. ~hit(p) /\ reader'[p] = reader[p]
    BY <1>2, <1>3
  <2> QED
    BY <1>6, <2>1 DEF OneLoad, Running
<1>12. \A p \in Reader : reader'[p].at # "done" => reader'[p] = reader[p]
  BY <1>2, <1>3
<1> HIDE DEF hit
<1> QED
  BY <1>4, <1>5, <1>8, <1>9, <1>10, <1>11, <1>12

-------------------------------------------------------------------------------
(* The steps of a GET                                                         *)

\* What the invariant says of one reader and of one entry.
LEMMA Standing ==
  ASSUME Inv
  PROVE  /\ reader \in [Reader -> ReaderState] /\ inflight \in [Url -> Reader \cup {NoRequest}]
         /\ NoRequest \notin Reader /\ shown \in [Url -> Version]
         /\ calm \in [Url -> Version] /\ upstream \in Version
         /\ \A u \in Url : calm[u] \in Version /\ calm[u] <= upstream
         /\ \A q \in Reader : reader[q].url \in Url
         /\ \A k \in DOMAIN entries :
              /\ entries[k] \in Entry /\ entries[k].version = shown[entries[k].url]
              /\ entries[k].version >= calm[entries[k].url] /\ entries[k].version <= upstream
<1>1. TypeOK /\ Newest
  BY DEF Inv
<1>2. \A k \in DOMAIN entries : entries[k] \in Entry /\ entries[k].url \in Url
  <2>1. entries \in Seq(Entry) /\ DOMAIN entries = 1..Len(entries)
    BY <1>1 DEF TypeOK
  <2>2. \A k \in DOMAIN entries : entries[k] \in Entry
    BY <2>1
  <2> QED
    BY <2>2 DEF Entry
<1> QED
  BY <1>1, <1>2 DEF TypeOK, Newest, ReaderState

\* A request that arrives takes the histories along.
LEMMA ArrivedFacts ==
  ASSUME Inv, NEW q \in Reader
  PROVE  /\ Arrived(q) \in ReaderState /\ Arrived(q).url = reader[q].url
         /\ Arrived(q).calm = calm[reader[q].url] /\ Arrived(q).shown = shown[reader[q].url]
<1>1. /\ reader[q] \in ReaderState /\ reader[q].url \in Url
      /\ calm[reader[q].url] \in Version /\ shown[reader[q].url] \in Version
  BY Standing
<1> QED
  BY <1>1 DEF Arrived, ReaderState

\* A fresh entry answers at once.
LEMMA HitKeeps == ASSUME Inv, NEW q \in Reader, Hit(q) PROVE Inv'
<1>1. PICK k \in DOMAIN entries :
        /\ entries[k].url = reader[q].url
        /\ reader' = [reader EXCEPT ![q] = Finished(Arrived(q), "ok", entries[k].version)]
        /\ shown' = Bump(entries[k].url, entries[k].version)
  BY DEF Hit, Cached
<1> DEFINE v == entries[k].version
           a == Arrived(q)
           r == Finished(a, "ok", v)
<1>2. v \in Version /\ v = shown[reader[q].url] /\ v >= calm[reader[q].url]
  BY <1>1, Standing DEF Entry
<1>3. /\ a \in ReaderState /\ a.url = reader[q].url
      /\ a.calm = calm[reader[q].url] /\ a.shown = shown[reader[q].url]
  BY ArrivedFacts
<1> HIDE DEF a
<1>4. r \in ReaderState
  BY <1>2, <1>3, FinishedFacts
<1>5. r.at = "done"
  BY <1>2, <1>3, FinishedFacts
<1>6. r.got = v
  BY <1>2, <1>3, FinishedFacts
<1>7. r.url = reader[q].url
  BY <1>2, <1>3, FinishedFacts
<1>8. r.calm = calm[reader[q].url]
  BY <1>2, <1>3, FinishedFacts
<1>9. r.shown = shown[reader[q].url]
  BY <1>2, <1>3, FinishedFacts
<1>10. reader' = [reader EXCEPT ![q] = r]
  BY <1>1 DEF a
<1> HIDE DEF r
<1>11. shown' = shown
  <2>1. shown' = [shown EXCEPT ![reader[q].url] = shown[reader[q].url]]
    BY <1>1, <1>2, Versions, Standing DEF Bump
  <2> QED
    BY <2>1, Standing
<1>12. UNCHANGED <<upstream, entries, inflight, writer, now, faults, calm>>
  BY DEF Hit
<1>13. reader[q].at = "new"
  BY DEF Hit
<1>14. OneLoad' /\ Newest' /\ MonotonicReads' /\ QuietWriteVisible'
  <2>1. ~IsRunning(r) /\ ~Running(q)
    BY <1>5, <1>13 DEF IsRunning, Running
  <2>2. r.got >= r.shown /\ r.got >= r.calm
    BY <1>2, <1>6, <1>8, <1>9, Equals
  <2> QED
    BY <1>4, <1>5, <1>7, <1>10, <1>11, <1>12, <2>1, <2>2, Moved
<1>15. TypeOK' /\ Counted'
  BY <1>4, <1>10, <1>11, <1>12 DEF Inv, TypeOK, Counted
<1> QED
  BY <1>14, <1>15 DEF Inv

\* A miss joins the url's load or starts it.
LEMMA MissKeeps == ASSUME Inv, NEW q \in Reader, Miss(q) PROVE Inv'
<1> DEFINE l == inflight[reader[q].url]
           w == [Arrived(q) EXCEPT !.at = "wait", !.on = l]
           s == [Arrived(q) EXCEPT !.at = "send"]
<1>1. UNCHANGED <<upstream, entries, writer, now, faults, calm, shown>> /\ ~Running(q)
  BY DEF Miss, Running
<1>2. CASE l # NoRequest
  <2>1. reader' = [reader EXCEPT ![q] = w] /\ inflight' = inflight
    BY <1>2 DEF Miss
  <2>2. /\ w \in ReaderState /\ w.at = "wait" /\ w.on = l /\ w.url = reader[q].url
        /\ w.calm = calm[reader[q].url] /\ w.shown = shown[reader[q].url]
    <3>1. l \in Reader \cup {NoRequest}
      BY Standing
    <3> HIDE DEF l
    <3> QED
      BY <3>1, ArrivedFacts DEF ReaderState
  <2> HIDE DEF w
  <2>3. OneLoad' /\ Newest' /\ MonotonicReads' /\ QuietWriteVisible'
    <3>1. ~IsRunning(w)
      BY <2>2 DEF IsRunning
    <3>2. w.calm <= calm[w.url] /\ w.shown <= shown[w.url]
      <4>1. calm[reader[q].url] \in Version /\ shown[reader[q].url] \in Version
        BY Standing
      <4> QED
        BY <2>2, <4>1, Equals
    <3> QED
      BY <1>1, <1>2, <2>1, <2>2, <3>1, <3>2, Moved
  <2>4. TypeOK' /\ Counted'
    BY <1>1, <2>1, <2>2 DEF Inv, TypeOK, Counted
  <2> QED
    BY <2>3, <2>4 DEF Inv
<1>3. CASE l = NoRequest
  <2>1. /\ reader' = [reader EXCEPT ![q] = s]
        /\ inflight' = [inflight EXCEPT ![reader[q].url] = q]
    BY <1>3 DEF Miss
  <2>2. /\ s \in ReaderState /\ s.at = "send" /\ s.url = reader[q].url
        /\ s.calm = calm[reader[q].url] /\ s.shown = shown[reader[q].url]
    BY ArrivedFacts DEF ReaderState
  <2> HIDE DEF s
  <2>3. OneLoad' /\ Newest' /\ MonotonicReads' /\ QuietWriteVisible'
    <3>1. IsRunning(s)
      BY <2>2 DEF IsRunning
    <3>2. s.calm <= calm[s.url] /\ s.shown <= shown[s.url]
      <4>1. calm[reader[q].url] \in Version /\ shown[reader[q].url] \in Version
        BY Standing
      <4> QED
        BY <2>2, <4>1, Equals
    <3> QED
      BY <1>1, <1>3, <2>1, <2>2, <3>1, <3>2, Moved
  <2>4. TypeOK' /\ Counted'
    BY <1>1, <2>1, <2>2, Standing DEF Inv, TypeOK, Counted
  <2> QED
    BY <2>3, <2>4 DEF Inv
<1> QED
  BY <1>2, <1>3

\* The upstream's 2xx carries the version current when it was served.
LEMMA ServedKeeps == ASSUME Inv, NEW q \in Reader, Served(q) PROVE Inv'
<1> DEFINE r == [reader[q] EXCEPT !.at = "head", !.got = upstream]
<1>1. /\ reader' = [reader EXCEPT ![q] = r]
      /\ UNCHANGED <<upstream, entries, inflight, writer, now, faults, calm, shown>>
  BY DEF Served
<1>2. Running(q)
  BY DEF Served, Running
<1>3. /\ r \in ReaderState /\ r.at = "head" /\ r.got = upstream /\ r.url = reader[q].url
      /\ r.calm = reader[q].calm /\ r.shown = reader[q].shown
  <2>1. reader[q] \in ReaderState /\ upstream \in Version
    BY Standing
  <2> QED
    BY <2>1 DEF ReaderState
<1> HIDE DEF r
<1>4. OneLoad' /\ Newest' /\ MonotonicReads' /\ QuietWriteVisible'
  <2>1. IsRunning(r)
    BY <1>3 DEF IsRunning
  <2>2. r.calm <= calm[r.url] /\ r.shown <= shown[r.url]
    BY <1>2, <1>3 DEF Inv, Newest
  <2>3. r.got >= calm[r.url] /\ r.got >= shown[r.url] /\ r.got <= upstream
    <3>1. /\ shown[r.url] \in Version /\ upstream \in Version /\ calm[r.url] \in Version
          /\ calm[r.url] <= upstream /\ r.url \in Url
      BY <1>3, Standing
    <3>2. shown[r.url] <= upstream
      BY <3>1 DEF Inv, Newest
    <3> QED
      BY <1>3, <3>1, <3>2, Versions
  <2> QED
    BY <1>1, <1>2, <1>3, <2>1, <2>2, <2>3, Moved
<1>5. TypeOK' /\ Counted'
  BY <1>1, <1>3 DEF Inv, TypeOK, Counted
<1> QED
  BY <1>4, <1>5 DEF Inv

\* Its headers date the snapshot.
LEMMA AnsweredKeeps == ASSUME Inv, NEW q \in Reader, Answered(q) PROVE Inv'
<1> DEFINE r == [reader[q] EXCEPT !.at = "body", !.stamp = now]
<1>1. /\ reader' = [reader EXCEPT ![q] = r] /\ reader[q].at = "head"
      /\ UNCHANGED <<upstream, entries, inflight, writer, now, faults, calm, shown>>
  BY DEF Answered
<1>2. Running(q) /\ now \in 0..MaxNow
  BY <1>1 DEF Running, Inv, TypeOK
<1>3. /\ r \in ReaderState /\ r.at = "body" /\ r.got = reader[q].got /\ r.url = reader[q].url
      /\ r.calm = reader[q].calm /\ r.shown = reader[q].shown
  <2>1. reader[q] \in ReaderState
    BY Standing
  <2> QED
    BY <1>2, <2>1 DEF ReaderState
<1> HIDE DEF r
<1>4. OneLoad' /\ Newest' /\ MonotonicReads' /\ QuietWriteVisible'
  <2>1. IsRunning(r)
    BY <1>3 DEF IsRunning
  <2>2. /\ r.calm <= calm[r.url] /\ r.shown <= shown[r.url]
        /\ r.got >= calm[r.url] /\ r.got >= shown[r.url] /\ r.got <= upstream
    BY <1>1, <1>2, <1>3 DEF Inv, Newest
  <2> QED
    BY <1>1, <1>2, <1>3, <2>1, <2>2, Moved
<1>5. TypeOK' /\ Counted'
  BY <1>1, <1>3 DEF Inv, TypeOK, Counted
<1> QED
  BY <1>4, <1>5 DEF Inv

\* A load settles and the entries stay: with an error, with a stale entry that
\* is the newest answer shown, or with an answer too large to keep.
LEMMA SettleOnly ==
  ASSUME Inv, NEW q \in Reader, Running(q),
         NEW how \in {"ok", "unkept", "error"}, NEW v \in Version,
         how # "error" => v >= calm[reader[q].url] /\ v >= shown[reader[q].url] /\ v <= upstream,
         how = "ok" => v = shown[reader[q].url],
         Settle(q, how, v), UNCHANGED <<upstream, calm, entries, writer, now>>,
         faults' \in 0..MaxFaults
  PROVE  Inv'
<1>1. /\ inflight' \in [Url -> Reader \cup {NoRequest}] /\ reader' \in [Reader -> ReaderState]
      /\ shown' \in [Url -> Version]
      /\ \A u \in Url : shown'[u] = IF how = "ok" /\ u = reader[q].url THEN v ELSE shown[u]
      /\ OneLoad' /\ MonotonicReads' /\ QuietWriteVisible'
      /\ \A p \in Reader : reader'[p].at # "done" => reader'[p] = reader[p]
  BY Settles
<1>2. shown' = shown
  BY <1>1, Standing
<1>3. Newest'
  <2>1. \A p \in Reader : Running(p)' \/ reader'[p].at = "wait" => reader'[p] = reader[p]
    BY <1>1 DEF Running
  <2>2. \A p \in Reader : reader'[p].at \in {"head", "body"} => reader'[p] = reader[p]
    BY <1>1
  <2> QED
    BY <1>2, <2>1, <2>2 DEF Inv, Newest, Running
<1>4. TypeOK' /\ Counted'
  BY <1>1 DEF Inv, TypeOK, Counted
<1> QED
  BY <1>1, <1>3, <1>4 DEF Inv

LEMMA FaultKeeps == ASSUME Inv, Fault PROVE faults' \in 0..MaxFaults
BY DEF Inv, TypeOK, Fault

\* The upstream refuses: a stale entry stands in, the request is asked again, or
\* the error is the answer.
LEMMA RefusedKeeps == ASSUME Inv, NEW q \in Reader, Refused(q) PROVE Inv'
<1> DEFINE stale == Cached(reader[q].url, StaleMs)
<1>1. /\ reader[q].at = "send" /\ Running(q) /\ Fault
      /\ UNCHANGED <<upstream, entries, writer, now, calm>>
  BY DEF Refused, Running
<1>2. \/ \E e \in stale : Settle(q, "ok", e.version)
      \/ Settle(q, "error", 0)
      \/ reader' = [reader EXCEPT ![q].at = "again"] /\ UNCHANGED <<inflight, shown>>
  BY DEF Refused
<1>3. CASE \E e \in stale : Settle(q, "ok", e.version)
  <2>1. PICK k \in DOMAIN entries :
          entries[k].url = reader[q].url /\ Settle(q, "ok", entries[k].version)
    BY <1>3 DEF Cached
  <2> DEFINE v == entries[k].version
  <2>2. v \in Version /\ v = shown[reader[q].url] /\ v >= calm[reader[q].url] /\ v <= upstream
    BY <2>1, Standing DEF Entry
  <2>3. v >= shown[reader[q].url]
    BY <2>2, Equals
  <2> HIDE DEF v
  <2>4. Settle(q, "ok", v)
    BY <2>1 DEF v
  <2> QED
    BY <1>1, <2>2, <2>3, <2>4, FaultKeeps, SettleOnly
<1>4. CASE Settle(q, "error", 0)
  <2>1. 0 \in Version
    BY Versions DEF Version
  <2> QED
    BY <1>1, <1>4, <2>1, FaultKeeps, SettleOnly
<1>5. CASE reader' = [reader EXCEPT ![q].at = "again"] /\ UNCHANGED <<inflight, shown>>
  <2> DEFINE r == [reader[q] EXCEPT !.at = "again"]
  <2>1. /\ reader' = [reader EXCEPT ![q] = r]
        /\ r \in ReaderState /\ r.at = "again" /\ r.url = reader[q].url
        /\ r.calm = reader[q].calm /\ r.shown = reader[q].shown
    BY <1>5, Standing DEF ReaderState
  <2> HIDE DEF r
  <2>2. IsRunning(r) /\ r.calm <= calm[r.url] /\ r.shown <= shown[r.url]
    BY <1>1, <2>1 DEF IsRunning, Inv, Newest
  <2>3. OneLoad' /\ Newest' /\ MonotonicReads' /\ QuietWriteVisible'
    BY <1>1, <1>5, <2>1, <2>2, Moved
  <2>4. TypeOK' /\ Counted'
    BY <1>1, <1>5, <2>1, FaultKeeps DEF Inv, TypeOK, Counted
  <2> QED
    BY <2>3, <2>4 DEF Inv
<1> QED
  BY <1>2, <1>3, <1>4, <1>5

\* The load fails for good.
LEMMA FailedKeeps == ASSUME Inv, NEW q \in Reader, Failed(q) PROVE Inv'
<1>1. Running(q) /\ Fault /\ Settle(q, "error", 0) /\ 0 \in Version
      /\ UNCHANGED <<upstream, entries, writer, now, calm>>
  BY Versions DEF Failed, Running, Version
<1> QED
  BY <1>1, FaultKeeps, SettleOnly

\* The body stops coming: the load holds on.
LEMMA StallsKeeps == ASSUME Inv, NEW q \in Reader, Stalls(q) PROVE Inv'
<1> DEFINE r == [reader[q] EXCEPT !.at = "stalled"]
<1>1. /\ reader[q].at = "body" /\ Running(q) /\ Fault
      /\ UNCHANGED <<upstream, entries, inflight, writer, now, calm, shown>>
  BY DEF Stalls, Running
<1>2. /\ reader' = [reader EXCEPT ![q] = r]
      /\ r \in ReaderState /\ r.at = "stalled" /\ r.url = reader[q].url
      /\ r.calm = reader[q].calm /\ r.shown = reader[q].shown
  BY Standing DEF Stalls, ReaderState
<1> HIDE DEF r
<1>3. IsRunning(r) /\ r.calm <= calm[r.url] /\ r.shown <= shown[r.url]
  BY <1>1, <1>2 DEF IsRunning, Inv, Newest
<1>4. OneLoad' /\ Newest' /\ MonotonicReads' /\ QuietWriteVisible'
  BY <1>1, <1>2, <1>3, Moved
<1>5. TypeOK' /\ Counted'
  BY <1>1, <1>2, FaultKeeps DEF Inv, TypeOK, Counted
<1> QED
  BY <1>4, <1>5 DEF Inv

\* A stalled load that is given up settles with an error.
LEMMA DroppedKeeps == ASSUME Inv, NEW q \in Reader, Dropped(q) PROVE Inv'
<1>1. Running(q) /\ Settle(q, "error", 0) /\ 0 \in Version /\ faults' \in 0..MaxFaults
      /\ UNCHANGED <<upstream, entries, writer, now, calm>>
  BY Versions DEF Dropped, Running, Version, Inv, TypeOK
<1> QED
  BY <1>1, SettleOnly

\* The body is read, and kept unless it is oversized.
LEMMA BodyReadKeeps == ASSUME Inv, NEW q \in Reader, BodyRead(q) PROVE Inv'
<1> DEFINE v == reader[q].got
           e == [url |-> reader[q].url, version |-> v, at |-> reader[q].stamp]
<1>1. /\ reader[q].at = "body" /\ Running(q)
      /\ UNCHANGED <<upstream, writer, now, faults, calm>>
      /\ \/ entries' = Stored(e) /\ Settle(q, "ok", v)
         \/ UNCHANGED entries /\ Settle(q, "unkept", v)
  BY DEF BodyRead, Running
<1>2. v \in Version /\ v >= calm[reader[q].url] /\ v >= shown[reader[q].url] /\ v <= upstream
  BY <1>1, Standing DEF Inv, Newest, ReaderState
<1>3. e \in Entry /\ e.url = reader[q].url /\ e.version = v
  BY <1>2, Standing DEF Entry, ReaderState
<1> HIDE DEF v, e
<1>4. faults' \in 0..MaxFaults
  BY <1>1 DEF Inv, TypeOK
<1>5. CASE UNCHANGED entries /\ Settle(q, "unkept", v)
  BY <1>1, <1>2, <1>4, <1>5, SettleOnly
<1>6. CASE entries' = Stored(e) /\ Settle(q, "ok", v)
  <2>1. /\ inflight' \in [Url -> Reader \cup {NoRequest}] /\ reader' \in [Reader -> ReaderState]
        /\ shown' \in [Url -> Version]
        /\ \A u \in Url : shown'[u] = IF u = reader[q].url THEN v ELSE shown[u]
        /\ OneLoad' /\ MonotonicReads' /\ QuietWriteVisible'
        /\ \A p \in Reader : ~(reader'[p].at \in {"head", "body"} /\ reader[p].url = reader[q].url)
        /\ \A p \in Reader : reader'[p].at # "done" => reader'[p] = reader[p]
    BY <1>1, <1>2, <1>6, Settles
  <2>2. /\ entries' \in Seq(Entry) /\ Len(entries') <= MaxEntries
        /\ EOrOthers(entries', e) /\ OnePerUrl(entries')
    BY <1>3, <1>6, StoredFacts DEF Inv
  <2>3. DOMAIN entries' = 1..Len(entries')
    BY <2>2
  <2>4. \A j \in DOMAIN entries' :
          entries'[j].version = shown'[entries'[j].url] /\ entries'[j].version >= calm[entries'[j].url]
    <3> SUFFICES ASSUME NEW j \in DOMAIN entries'
                 PROVE  entries'[j].version = shown'[entries'[j].url] /\ entries'[j].version >= calm[entries'[j].url]
      OBVIOUS
    <3>1. CASE entries'[j] = e
      BY <1>2, <1>3, <2>1, <3>1, Standing
    <3>2. CASE \E k \in DOMAIN entries : entries'[j] = entries[k] /\ entries[k].url # e.url
      <4>1. PICK k \in DOMAIN entries : entries'[j] = entries[k] /\ entries[k].url # e.url
        BY <3>2
      <4>2. /\ entries[k].url \in Url /\ entries[k].version = shown[entries[k].url]
            /\ entries[k].version >= calm[entries[k].url]
        BY Standing DEF Entry
      <4> QED
        BY <1>3, <2>1, <4>1, <4>2
    <3> QED
      BY <2>2, <2>3, <3>1, <3>2 DEF EOrOthers
  <2>5. \A u \in Url : shown'[u] <= upstream
    BY <1>2, <2>1 DEF Inv, Newest
  <2>6. \A p \in Reader : reader'[p].at \in {"head", "body"} =>
          /\ reader'[p].got >= calm[reader'[p].url] /\ reader'[p].got >= shown'[reader'[p].url]
          /\ reader'[p].got <= upstream
    <3> SUFFICES ASSUME NEW p \in Reader, reader'[p].at \in {"head", "body"}
                 PROVE  /\ reader'[p].got >= calm[reader'[p].url] /\ reader'[p].got >= shown'[reader'[p].url]
                        /\ reader'[p].got <= upstream
      OBVIOUS
    <3>1. reader'[p] = reader[p] /\ shown'[reader[p].url] = shown[reader[p].url]
      BY <2>1, Standing
    <3> QED
      BY <3>1 DEF Inv, Newest
  <2>7. \A p \in Reader : Running(p)' \/ reader'[p].at = "wait" =>
          reader'[p].calm <= calm[reader'[p].url] /\ reader'[p].shown <= shown'[reader'[p].url]
    <3> SUFFICES ASSUME NEW p \in Reader, Running(p)' \/ reader'[p].at = "wait"
                 PROVE  reader'[p].calm <= calm[reader'[p].url] /\ reader'[p].shown <= shown'[reader'[p].url]
      OBVIOUS
    <3>1. reader'[p] = reader[p] /\ (Running(p) \/ reader[p].at = "wait")
      BY <2>1 DEF Running
    <3>2. reader[p].calm <= calm[reader[p].url] /\ reader[p].shown <= shown[reader[p].url]
      BY <3>1 DEF Inv, Newest
    <3>3. reader[p].shown \in Int /\ v \in Int /\ shown[reader[p].url] \in Int
      <4>1. reader[p].shown \in Version /\ v \in Version /\ shown[reader[p].url] \in Version
        BY <1>2, Standing DEF ReaderState
      <4>2. \A n \in Version : n \in Int
        BY Versions
      <4> QED
        BY ONLY <4>1, <4>2
    <3>4. CASE reader[p].url = reader[q].url
      BY <1>2, <2>1, <3>1, <3>2, <3>3, <3>4, Standing
    <3>5. CASE reader[p].url # reader[q].url
      BY <2>1, <3>1, <3>2, <3>5, Standing
    <3> QED
      BY <3>4, <3>5
  <2>8. Newest'
    BY <1>1, <2>4, <2>5, <2>6, <2>7, Standing DEF Newest
  <2>9. TypeOK' /\ Counted'
    BY <1>1, <2>1, <2>2, <2>3 DEF Inv, TypeOK, Counted, OnePerUrl
  <2> QED
    BY <2>1, <2>8, <2>9 DEF Inv
<1> QED
  BY <1>1, <1>5, <1>6

-------------------------------------------------------------------------------
(* The steps of a mutating request, and time                                  *)

\* The tool counts the write; whatever was shown or quiet before stays below.
LEMMA WriteAppliedKeeps == ASSUME Inv, NEW w \in Writer, WriteApplied(w) PROVE Inv'
<1> DEFINE S == {x \in Writer : writer[x] # "new"}
<1>1. /\ writer[w] = "new" /\ writer' = [writer EXCEPT ![w] = "sent"]
      /\ upstream' = upstream + 1
      /\ UNCHANGED <<entries, inflight, reader, now, faults, calm, shown>>
  BY DEF WriteApplied
<1>2. writer \in [Writer -> {"new", "sent", "done"}] /\ upstream = Cardinality(S)
  BY DEF Inv, TypeOK, Counted
<1>3. {x \in Writer : writer'[x] # "new"} = S \cup {w}
  BY <1>1, <1>2
<1>4. S \subseteq Writer /\ w \notin S /\ S \cup {w} \subseteq Writer
  BY <1>1
<1>5. IsFiniteSet(S) /\ IsFiniteSet(Writer)
  BY <1>4, FS_Subset
<1>6. Cardinality(S \cup {w}) = Cardinality(S) + 1
  BY <1>4, <1>5, FS_AddElement
<1>7. Cardinality(S \cup {w}) <= Cardinality(Writer)
  BY <1>4, <1>5, FS_Subset
<1> HIDE DEF S
<1>8. Counted'
  BY <1>1, <1>2, <1>3, <1>6 DEF Counted
<1>9. upstream \in Version /\ upstream' \in Version /\ upstream <= upstream'
  <2>1. upstream \in Nat
    BY Standing, Versions
  <2> QED
    BY <1>1, <1>2, <1>6, <1>7, <2>1, Standing, Versions DEF Version
<1>10. \A x \in Version : x <= upstream => x <= upstream'
  BY <1>9, Versions
<1>11. Newest'
  <2>1. \A u \in Url : shown[u] \in Version
    BY Standing
  <2>2. \A p \in Reader : reader[p].got \in Version
    BY Standing DEF ReaderState
  <2>3. Newest /\ \A u \in Url : calm[u] \in Version
    BY Standing DEF Inv
  <2> QED
    BY <1>1, <1>10, <2>1, <2>2, <2>3 DEF Newest, Running
<1>12. TypeOK'
  BY <1>1, <1>9 DEF Inv, TypeOK
<1>13. OneLoad' /\ MonotonicReads' /\ QuietWriteVisible'
  BY <1>1 DEF Inv, OneLoad, Running, MonotonicReads, QuietWriteVisible, Answer
<1> QED
  BY <1>8, <1>11, <1>12, <1>13 DEF Inv

\* The answer empties the cache; of a url with no load nobody waits either, and
\* the write counts as quiet for it.
LEMMA WriteAnswerKeeps == ASSUME Inv, NEW w \in Writer, WriteAnswered(w) PROVE Inv'
<1>1. /\ writer[w] = "sent" /\ writer' = [writer EXCEPT ![w] = "done"] /\ entries' = <<>>
      /\ calm' = [u \in Url |-> IF inflight[u] = NoRequest THEN upstream ELSE calm[u]]
      /\ UNCHANGED <<upstream, inflight, reader, now, faults, shown>>
  BY DEF WriteAnswered
<1>2. Counted'
  <2>1. writer \in [Writer -> {"new", "sent", "done"}]
    BY DEF Inv, TypeOK
  <2>2. {x \in Writer : writer'[x] # "new"} = {x \in Writer : writer[x] # "new"}
    BY <1>1, <2>1
  <2> QED
    BY <1>1, <2>2 DEF Inv, Counted
<1>3. calm' \in [Url -> Version] /\ \A u \in Url : calm'[u] <= upstream
  BY <1>1, Equals, Standing
<1>4. TypeOK'
  <2>1. entries' \in Seq(Entry) /\ Len(entries') = 0 /\ DOMAIN entries' = {}
    BY <1>1
  <2> QED
    BY <1>1, <1>3, <2>1 DEF Inv, TypeOK
<1>5. OneLoad' /\ MonotonicReads' /\ QuietWriteVisible'
  BY <1>1 DEF Inv, OneLoad, Running, MonotonicReads, QuietWriteVisible, Answer
<1>6. Newest'
  <2>1. DOMAIN entries' = {}
    BY <1>1
  <2>2. \A p \in Reader : Running(p) \/ reader[p].at = "wait" =>
          inflight[reader[p].url] # NoRequest
    BY Standing DEF Inv, OneLoad
  <2>3. \A p \in Reader : Running(p) \/ reader[p].at = "wait" =>
          calm'[reader[p].url] = calm[reader[p].url]
    BY <1>1, <2>2, Standing
  <2>4. \A p \in Reader : reader[p].at \in {"head", "body"} => Running(p)
    BY DEF Running
  <2> QED
    BY <1>1, <1>3, <2>1, <2>3, <2>4 DEF Inv, Newest, Running
<1> QED
  BY <1>2, <1>4, <1>5, <1>6 DEF Inv

\* The answer is lost, or goes to another replica: nothing is dropped here.
LEMMA WriteLostKeeps ==
  ASSUME Inv, NEW w \in Writer, WriteLost(w) \/ AnsweredElsewhere(w) PROVE Inv'
<1>1. /\ writer[w] = "sent" /\ writer' = [writer EXCEPT ![w] = "done"]
      /\ UNCHANGED <<upstream, entries, inflight, reader, now, calm, shown>>
  BY DEF WriteLost, AnsweredElsewhere
<1>2. writer \in [Writer -> {"new", "sent", "done"}]
  BY DEF Inv, TypeOK
<1>3. {x \in Writer : writer'[x] # "new"} = {x \in Writer : writer[x] # "new"}
  BY <1>1, <1>2
<1>4. Counted'
  BY <1>1, <1>3 DEF Inv, Counted
<1>5. faults' \in 0..MaxFaults
  BY FaultKeeps DEF WriteLost, AnsweredElsewhere, Inv, TypeOK
<1>6. TypeOK'
  BY <1>1, <1>5 DEF Inv, TypeOK
<1> QED
  BY <1>1, <1>4, <1>6
  DEF Inv, OneLoad, Newest, Running, MonotonicReads, QuietWriteVisible, Answer

LEMMA TickKeeps == ASSUME Inv, Tick PROVE Inv'
<1>1. /\ now < MaxNow /\ now' = now + 1
      /\ UNCHANGED <<upstream, entries, inflight, reader, writer, faults, calm, shown>>
  BY DEF Tick
<1>2. now' \in 0..MaxNow
  BY <1>1 DEF Inv, TypeOK
<1>3. TypeOK'
  BY <1>1, <1>2 DEF Inv, TypeOK
<1> QED
  BY <1>1, <1>3
  DEF Inv, Counted, OneLoad, Newest, Running, MonotonicReads, QuietWriteVisible, Answer

LEMMA StutterKeeps == ASSUME Inv, UNCHANGED vars PROVE Inv'
BY DEF vars, Inv, TypeOK, Counted, OneLoad, Newest, Running, MonotonicReads,
       QuietWriteVisible, Answer

-------------------------------------------------------------------------------
(* The invariant holds at the start and is kept                               *)

LEMMA InitInv == Init => Inv
<1> SUFFICES ASSUME Init PROVE Inv
  OBVIOUS
<1>1. 0 \in Version /\ 0 \in 0..MaxNow /\ 0 \in 0..MaxFaults
  BY Versions DEF Version
<1>2. \A q \in Reader :
        /\ reader[q] \in ReaderState /\ reader[q].at = "new" /\ reader[q].url \in Url
  <2> SUFFICES ASSUME NEW q \in Reader
               PROVE  reader[q] \in ReaderState /\ reader[q].at = "new" /\ reader[q].url \in Url
    OBVIOUS
  <2>1. PICK u \in Url :
          reader[q] = [at |-> "new", url |-> u, on |-> NoRequest, calm |-> 0, shown |-> 0,
                       how |-> "none", got |-> 0, stamp |-> 0]
    BY DEF Init
  <2> QED
    BY <1>1, <2>1 DEF ReaderState
<1>3. reader \in [Reader -> ReaderState]
  BY <1>2 DEF Init
<1>4. TypeOK
  <2>1. entries = <<>> /\ entries \in Seq(Entry) /\ Len(entries) = 0 /\ DOMAIN entries = {}
    BY DEF Init
  <2>2. /\ inflight \in [Url -> Reader \cup {NoRequest}]
        /\ shown \in [Url -> Version] /\ calm \in [Url -> Version]
        /\ writer \in [Writer -> {"new", "sent", "done"}]
    BY <1>1 DEF Init
  <2> QED
    BY <1>1, <1>3, <2>1, <2>2 DEF Init, TypeOK
<1>5. Counted
  <2>1. {w \in Writer : writer[w] # "new"} = {}
    BY DEF Init
  <2> QED
    BY <2>1, FS_EmptySet DEF Init, Counted
<1>6. OneLoad
  BY <1>2 DEF Init, OneLoad, Running
<1>7. Newest
  <2>1. DOMAIN entries = {}
    BY DEF Init
  <2>2. upstream = 0 /\ \A u \in Url : calm[u] = 0 /\ shown[u] = 0
    BY DEF Init
  <2>3. \A q \in Reader : ~Running(q) /\ reader[q].at \notin {"head", "body", "wait"}
    BY <1>2 DEF Running
  <2> QED
    BY <2>1, <2>2, <2>3 DEF Newest
<1>8. MonotonicReads /\ QuietWriteVisible
  BY <1>2 DEF MonotonicReads, QuietWriteVisible, Answer
<1> QED
  BY <1>4, <1>5, <1>6, <1>7, <1>8 DEF Inv

LEMMA NextInv == Inv /\ [Next]_vars => Inv'
<1> SUFFICES ASSUME Inv, [Next]_vars PROVE Inv'
  OBVIOUS
<1>1. CASE \E q \in Reader : Hit(q) \/ Miss(q) \/ Load(q) \/ Stalls(q) \/ Dropped(q)
  BY <1>1, HitKeeps, MissKeeps, ServedKeeps, AnsweredKeeps, RefusedKeeps, FailedKeeps,
     BodyReadKeeps, StallsKeeps, DroppedKeeps DEF Load
<1>2. CASE \E w \in Writer :
        WriteApplied(w) \/ WriteAnswered(w) \/ AnsweredElsewhere(w) \/ WriteLost(w)
  BY <1>2, WriteAppliedKeeps, WriteAnswerKeeps, WriteLostKeeps
<1>3. CASE Tick
  BY <1>3, TickKeeps
<1>4. CASE UNCHANGED vars
  BY <1>4, StutterKeeps
<1> QED
  BY <1>1, <1>2, <1>3, <1>4 DEF Next

\* Every reachable state satisfies the invariant (tool-cache.ts get, set and
\* coalesce as the proxy calls them).
THEOREM Invariance == Spec => []Inv
BY InitInv, NextInv, PTL DEF Spec

\* The cache never outgrows MAX_ENTRIES and holds one entry per url (set).
THEOREM TypeCorrect == Spec => []TypeOK
<1>1. Inv => TypeOK
  BY DEF Inv
<1> QED
  BY <1>1, Invariance, PTL

\* Reads of one url through one process never go backwards, through coalescing,
\* failures and the stale fallback.
THEOREM ReadsNeverGoBack == Spec => []MonotonicReads
<1>1. Inv => MonotonicReads
  BY DEF Inv
<1> QED
  BY <1>1, Invariance, PTL

\* A write that this process has answered while no load of a url ran is visible
\* to every read of that url which comes to this process afterwards.  Of the
\* entries another replica keeps, and of writes made through one, it says nothing.
THEOREM QuietWritesShow == Spec => []QuietWriteVisible
<1>1. Inv => QuietWriteVisible
  BY DEF Inv
<1> QED
  BY <1>1, Invariance, PTL

-------------------------------------------------------------------------------
(* Reads move on                                                              *)

\* Who waits, waits for the load that runs.
THEOREM FollowersFollowALoad == Spec => []FollowsALoad
<1>1. ASSUME Inv, NEW q \in Reader, reader[q].at = "wait" PROVE Running(reader[q].on)
  <2>1. /\ reader[q].url \in Url /\ reader[q].on # NoRequest
        /\ inflight[reader[q].url] = reader[q].on
    BY <1>1, Standing DEF Inv, OneLoad, ReaderState
  <2>2. reader[q].on \in Reader
    BY <1>1, <2>1, Standing
  <2>3. reader[reader[q].on].url = reader[q].url
    BY <1>1, <2>1 DEF Inv, OneLoad
  <2>4. QED BY <1>1, <2>1, <2>2, <2>3 DEF Inv, OneLoad
<1>2. Inv => FollowsALoad
  BY <1>1 DEF FollowsALoad
<1>3. QED BY <1>2, Invariance, PTL

\* What a step does to the reads: one moves, or a load settles.
Nears(r, s) == AwaitsLeft[s.at] < AwaitsLeft[r.at]
AllMoveOn == \A q \in Reader : reader'[q] # reader[q] => Nears(reader[q], reader'[q])

\* One read moves.
LEMMA OneMovesOn ==
  ASSUME Inv, NEW q \in Reader, NEW r, reader' = [reader EXCEPT ![q] = r], Nears(reader[q], r)
  PROVE  AllMoveOn
BY Standing DEF AllMoveOn

\* A load settles: it and its followers are answered.
LEMMA SettleMovesOn ==
  ASSUME Inv, NEW q \in Reader, Running(q), NEW how, NEW v, Settle(q, how, v)
  PROVE  AllMoveOn
<1> SUFFICES ASSUME NEW p \in Reader, reader'[p] # reader[p] PROVE Nears(reader[p], reader'[p])
  BY DEF AllMoveOn
<1>1. reader'[p] = Finished(reader[p], how, v) /\ (Running(p) \/ reader[p].at = "wait")
  BY DEF Settle
<1>2. reader'[p].at = "done"
  BY <1>1, Standing DEF Finished, ReaderState
<1>3. QED BY <1>1, <1>2 DEF Nears, AwaitsLeft, Running

\* Every step of a read moves it on.
LEMMA ReadMovesOn ==
  ASSUME Inv, NEW q \in Reader, Hit(q) \/ Miss(q) \/ Load(q) \/ Stalls(q) \/ Dropped(q)
  PROVE  AllMoveOn
<1>1. reader[q] \in ReaderState /\ Arrived(q) \in ReaderState
  BY Standing, ArrivedFacts
<1>2. CASE Hit(q)
  <2>1. PICK e : reader' = [reader EXCEPT ![q] = Finished(Arrived(q), "ok", e)]
    BY <1>2 DEF Hit
  <2>2. Finished(Arrived(q), "ok", e).at = "done" /\ reader[q].at = "new"
    BY <1>1, <1>2 DEF Hit, Finished, ReaderState
  <2>3. Nears(reader[q], Finished(Arrived(q), "ok", e))
    BY <2>2 DEF Nears, AwaitsLeft
  <2>4. QED BY <2>1, <2>3, OneMovesOn
<1>3. CASE Miss(q)
  <2>1. PICK r : reader' = [reader EXCEPT ![q] = r] /\ r.at \in {"wait", "send"}
    <3>1. \A l : [Arrived(q) EXCEPT !.at = "wait", !.on = l].at = "wait"
      BY <1>1 DEF ReaderState
    <3>2. [Arrived(q) EXCEPT !.at = "send"].at = "send"
      BY <1>1 DEF ReaderState
    <3>3. QED BY <1>3, <3>1, <3>2 DEF Miss
  <2>2. Nears(reader[q], r)
    BY <1>3, <2>1 DEF Miss, Nears, AwaitsLeft
  <2>3. QED BY <2>1, <2>2, OneMovesOn
<1>4. CASE Served(q)
  <2> DEFINE r == [reader[q] EXCEPT !.at = "head", !.got = upstream]
  <2>1. r.at = "head" /\ reader' = [reader EXCEPT ![q] = r]
    BY <1>1, <1>4 DEF Served, ReaderState
  <2> HIDE DEF r
  <2>2. Nears(reader[q], r)
    BY <1>4, <2>1 DEF Served, Nears, AwaitsLeft
  <2>3. QED BY <2>1, <2>2, OneMovesOn
<1>5. CASE Answered(q)
  <2> DEFINE r == [reader[q] EXCEPT !.at = "body", !.stamp = now]
  <2>1. r.at = "body" /\ reader' = [reader EXCEPT ![q] = r]
    BY <1>1, <1>5 DEF Answered, ReaderState
  <2> HIDE DEF r
  <2>2. Nears(reader[q], r)
    BY <1>5, <2>1 DEF Answered, Nears, AwaitsLeft
  <2>3. QED BY <2>1, <2>2, OneMovesOn
<1>6. CASE Refused(q)
  <2>1. Running(q) /\ reader[q].at = "send"
    BY <1>6 DEF Refused, Running
  <2>2. CASE \E how, v : Settle(q, how, v)
    BY <2>1, <2>2, SettleMovesOn
  <2>3. CASE reader' = [reader EXCEPT ![q].at = "again"]
    <3> DEFINE r == [reader[q] EXCEPT !.at = "again"]
    <3>1. r.at = "again" /\ reader' = [reader EXCEPT ![q] = r]
      BY <1>1, <2>3 DEF ReaderState
    <3> HIDE DEF r
    <3>2. Nears(reader[q], r)
      BY <2>1, <3>1 DEF Nears, AwaitsLeft
    <3>3. QED BY <3>1, <3>2, OneMovesOn
  <2>4. QED BY <1>6, <2>2, <2>3 DEF Refused
<1>7. CASE Failed(q) \/ BodyRead(q) \/ Dropped(q)
  <2>1. Running(q) /\ \E how, v : Settle(q, how, v)
    BY <1>7 DEF Failed, BodyRead, Dropped, Running
  <2>2. QED BY <2>1, SettleMovesOn
<1>8. CASE Stalls(q)
  <2> DEFINE r == [reader[q] EXCEPT !.at = "stalled"]
  <2>1. r.at = "stalled" /\ reader' = [reader EXCEPT ![q] = r]
    BY <1>1, <1>8 DEF Stalls, ReaderState
  <2> HIDE DEF r
  <2>2. Nears(reader[q], r)
    BY <1>8, <2>1 DEF Stalls, Nears, AwaitsLeft
  <2>3. QED BY <2>1, <2>2, OneMovesOn
<1>9. QED BY <1>2, <1>3, <1>4, <1>5, <1>6, <1>7, <1>8 DEF Load

\* A read is over after at most seven awaits, however loads are shared and fail.
THEOREM ReadsMoveOn == Spec => MovesOn
<1>1. ASSUME Inv, [Next]_vars PROVE AllMoveOn
  <2>1. CASE UNCHANGED reader
    BY <2>1 DEF AllMoveOn
  <2>2. QED
    BY <1>1, <2>1, ReadMovesOn
    DEF Next, WriteApplied, WriteAnswered, AnsweredElsewhere, WriteLost, Tick, vars
<1>2. Inv /\ [Next]_vars =>
        [\A q \in Reader : reader'[q] # reader[q]
           => AwaitsLeft[reader'[q].at] < AwaitsLeft[reader[q].at]]_vars
  BY <1>1 DEF AllMoveOn, Nears
<1>3. QED BY <1>2, Invariance, PTL DEF Spec, MovesOn

===============================================================================
