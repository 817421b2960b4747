---------------------------- MODULE VisualMemory ----------------------------
(***************************************************************************)
(* What a running perception engine remembers (eyes/visualHistory.ts), how *)
(* a captured frame gets there (visualPerceptionEngine.ts, ingest and      *)
(* toSample), and what of it a model is shown (eyes/visualContext.ts).     *)
(*                                                                         *)
(* A sample is shared by the tiers that hold it, so that its pixels are    *)
(* one set, pictured, of sample numbers.  Time runs in half seconds,       *)
(* scores in tenths and ranks in hundredths.  A window event is stamped    *)
(* when it is read, a frame when it was captured, at most MaxLag earlier.  *)
(***************************************************************************)
EXTENDS Integers, Sequences, FiniteSets, Selections

CONSTANTS
  Scores,        \* attention scores
  LimitChoices,  \* the limits a user's settings may ask for
  HotAge, WarmBucket, WarmFloor, KeyframeFloor,   \* limits no setting changes
  MaxFrameBytes, FrameSizes,
  MaterializeEvery,  \* 1000 / processingFps
  MaxLag,
  MaxRecorded, MaxTime  \* bounds

ASSUME MemoryAssumption ==
  /\ Scores \subseteq 0..10 /\ FrameSizes \subseteq Nat
  /\ LimitChoices \subseteq [maxSamples : Nat, maxAge : Nat, maxFrames : Nat, hotMax : Nat]
  /\ {HotAge, WarmBucket, WarmFloor, KeyframeFloor, MaxFrameBytes, MaterializeEvery} \subseteq Nat
  /\ {MaxLag, MaxRecorded, MaxTime} \subseteq Nat

VARIABLES
  clock,
  limits,
  hot, warm, keyframes,  \* tiers, in the order samples were recorded
  newest,
  pictured,              \* numbers of the samples that still have pixels
  recorded,              \* samples so far
  lastMaterialized

memoryVars == <<clock, limits, hot, warm, keyframes, newest, pictured, recorded, lastMaterialized>>

\* transition: a change kind selectSamples counts as one (a focus, not a moved window).
Samples == [id : 1..MaxRecorded, at : -MaxLag..MaxTime, score : Scores, size : FrameSizes \union {0},
            transition : BOOLEAN]
NoSample == [id |-> 0, at |-> 0, score |-> 0, size |-> 0, transition |-> FALSE]

MemoryTypeOK ==
  /\ clock \in 0..MaxTime /\ limits \in LimitChoices
  /\ {hot, warm, keyframes} \subseteq Seq(Samples)
  /\ newest \in Samples \union {NoSample} /\ pictured \subseteq 1..recorded
  /\ recorded \in 0..MaxRecorded /\ lastMaterialized \in -MaxLag..MaxTime

MemoryInit ==
  /\ clock = 0 /\ limits \in LimitChoices
  /\ hot = <<>> /\ warm = <<>> /\ keyframes = <<>> /\ newest = NoSample
  /\ pictured = {} /\ recorded = 0 /\ lastMaterialized = 0

-----------------------------------------------------------------------------
(* RingTier *)

Elements(seq) == {seq[i] : i \in DOMAIN seq}

LastOf(seq, n) == IF Len(seq) <= n THEN seq ELSE SubSeq(seq, Len(seq) - n + 1, Len(seq))

Evict_CountOnly(seq, now, maxCount, maxAge) == LastOf(seq, maxCount)

\* By age only when the first one is old enough, then by count.
Evict(seq, now, maxCount, maxAge) ==
  LET cutoff == now - maxAge IN
  LastOf(IF seq # <<>> /\ seq[1].at < cutoff THEN Filtered(seq, {i \in DOMAIN seq : seq[i].at >= cutoff})
         ELSE seq,
         maxCount)

EvictHot(seq, l, now) == Evict(seq, now, l.hotMax, HotAge)
EvictWarm(seq, l, now) == Evict(seq, now, l.maxSamples, l.maxAge)
EvictKeyframes(seq, l, now) == Evict(seq, now, l.maxFrames * 4, l.maxAge)

-----------------------------------------------------------------------------
(* enforceFrameBudget *)

\* Every element once, where it is met first.
Distinct(seq) == {i \in DOMAIN seq : \A j \in 1..(i - 1) : seq[j] # seq[i]}

\* Places by a key, ascending; Array.sort is stable.
Before(key, i, j) == key[i] < key[j] \/ (key[i] = key[j] /\ i < j)
Sorted(places, key) ==
  [k \in 1..Cardinality(places) |->
     CHOOSE i \in places : Cardinality({j \in places : Before(key, j, i)}) = k - 1]

Ages(seq) == [i \in DOMAIN seq |-> seq[i].at]

SizeOf(samples, id) ==
  IF \E s \in samples : s.id = id THEN (CHOOSE s \in samples : s.id = id).size ELSE 0
Bytes(samples) ==
  LET sum[n \in 0..MaxRecorded] == IF n = 0 THEN 0 ELSE sum[n - 1] + SizeOf(samples, n)
  IN  sum[MaxRecorded]
Fits(samples, l) == Cardinality(samples) <= l.maxFrames /\ Bytes(samples) <= MaxFrameBytes

\* What may be left of some samples when the oldest go: none, or one and all after it.
Rests(seq, framed) ==
  {{}} \union {{seq[j] : j \in {k \in framed : ~Before(Ages(seq), k, i)}} : i \in framed}
Largest(sets) == CHOOSE R \in sets : \A Q \in sets : Q \subseteq R

WithoutOldest(seq, pics, l) ==
  LET framed == {i \in Distinct(seq) : seq[i].id \in pics}
      rest == Largest({R \in Rests(seq, framed) : Fits(R, l)})
  IN  pics \ {s.id : s \in {seq[i] : i \in framed} \ rest}

StripOldest_WarmKept(tiers, pics, l) == WithoutOldest(tiers[1] \o tiers[3], pics, l)

\* The pixels left when the oldest pictures are stripped until the rest fits.
StripOldest(tiers, pics, l) == WithoutOldest(tiers[1] \o tiers[2] \o tiers[3], pics, l)

\* Pixels nobody holds are gone; newest holds its own.
Held(tiers, new) == {s.id : s \in Elements(tiers[1] \o tiers[2] \o tiers[3]) \union {new}}

Keep(tiers, new, pics) ==
  /\ hot' = tiers[1] /\ warm' = tiers[2] /\ keyframes' = tiers[3] /\ newest' = new
  /\ pictured' = pics \intersect Held(tiers, new)

-----------------------------------------------------------------------------
(* record *)

Record(s, picture) ==
  LET pics == IF picture THEN pictured \union {s.id} ELSE pictured
      due == warm = <<>> \/ s.at - warm[Len(warm)].at >= WarmBucket \/ s.score >= WarmFloor
      tiers == << EvictHot(Append(hot, s), limits, s.at),
                  IF due THEN EvictWarm(Append(warm, s), limits, s.at) ELSE warm,
                  IF picture /\ s.score >= KeyframeFloor
                  THEN EvictKeyframes(Append(keyframes, s), limits, s.at) ELSE keyframes >>
  IN  /\ Keep(tiers, s, StripOldest(tiers, pics, limits))
      /\ recorded' = recorded + 1

\* A window event never has pixels.
RecordEvent ==
  /\ recorded < MaxRecorded
  /\ \E score \in Scores, transition \in BOOLEAN :
       /\ score > 5 => transition  \* the events that are none score 5 at most
       /\ Record([id |-> recorded + 1, at |-> clock, score |-> score, size |-> 0,
                  transition |-> transition], FALSE)
  /\ UNCHANGED <<clock, limits, lastMaterialized>>

\* ingestContinuousFrame: pixels are kept at the processing rate, or when much changed.
RecordFrame ==
  \E score \in Scores, lag \in 0..MaxLag, size \in FrameSizes :
    LET at == clock - lag
        materialize == at - lastMaterialized >= MaterializeEvery \/ score >= WarmFloor
    IN  /\ recorded < MaxRecorded
        /\ Record([id |-> recorded + 1, at |-> at, score |-> score,
                   size |-> IF materialize THEN size ELSE 0, transition |-> FALSE], materialize)
        /\ lastMaterialized' = IF materialize THEN at ELSE lastMaterialized
        /\ UNCHANGED <<clock, limits>>

-----------------------------------------------------------------------------
(* The other operations *)

SetLimits ==
  \E l \in LimitChoices \ {limits} :
    LET tiers == <<EvictHot(hot, l, clock), EvictWarm(warm, l, clock), EvictKeyframes(keyframes, l, clock)>>
    IN  /\ limits' = l
        /\ Keep(tiers, newest, StripOldest(tiers, pictured, l))
        /\ UNCHANGED <<clock, recorded, lastMaterialized>>

\* What a query leaves.
Fresh == <<EvictHot(hot, limits, clock), EvictWarm(warm, limits, clock), EvictKeyframes(keyframes, limits, clock)>>

Query ==
  /\ Fresh # <<hot, warm, keyframes>>
  /\ Keep(Fresh, newest, pictured)
  /\ UNCHANGED <<clock, limits, recorded, lastMaterialized>>

\* VisualPerceptionEngine.stop
Clear ==
  /\ recorded = MaxRecorded  \* bound
  /\ Keep(<< <<>>, <<>>, <<>> >>, NoSample, {})
  /\ UNCHANGED <<clock, limits, recorded, lastMaterialized>>

TimePasses ==
  /\ \E d \in 1..3 : clock + d <= MaxTime /\ clock' = clock + d
  /\ UNCHANGED <<limits, hot, warm, keyframes, newest, pictured, recorded, lastMaterialized>>

MemoryNext == RecordEvent \/ RecordFrame \/ SetLimits \/ Query \/ Clear \/ TimePasses

MemorySpec == MemoryInit /\ [][MemoryNext]_memoryVars

-----------------------------------------------------------------------------
(* query and buildVisualContext *)

QueryResult(since, minScore) ==
  LET all == Fresh[1] \o Fresh[2] \o Fresh[3]
      matched == {i \in Distinct(all) :
                    all[i].at >= since /\ all[i].at <= clock /\ all[i].score >= minScore}
      order == Sorted(matched, Ages(all))
  IN  [k \in DOMAIN order |-> all[order[k]]]

\* rankOf; scores of 5 and more are primary.
Rank(s) ==
  s.score * 10 + (IF s.transition THEN 25 ELSE 0) + (IF s.score >= 5 THEN 10 ELSE 0)
               + (IF s.id \in pictured THEN 15 ELSE 0)

TooClose(s, picked) == \E t \in picked : s.at - t.at < 2 /\ t.at - s.at < 2

FirstPicks_NewestFirst(pool, max, pair) ==
  LET peak == CHOOSE i \in DOMAIN pool :
        \A j \in DOMAIN pool : Rank(pool[j]) < Rank(pool[i]) \/ (Rank(pool[j]) = Rank(pool[i]) /\ j >= i)
      newestPick == {pool[Len(pool)]}
  IN  IF pair /\ Cardinality(newestPick) < max THEN newestPick \union {pool[peak]} ELSE newestPick

\* The peak and the sample before it, then the newest one.
FirstPicks(pool, max, pair) ==
  LET peak == CHOOSE i \in DOMAIN pool :
        \A j \in DOMAIN pool : Rank(pool[j]) < Rank(pool[i]) \/ (Rank(pool[j]) = Rank(pool[i]) /\ j >= i)
      pairPicks == IF ~pair THEN {}
                   ELSE {pool[peak]} \union (IF peak > 1 /\ max > 1 THEN {pool[peak - 1]} ELSE {})
  IN  IF Cardinality(pairPicks) < max THEN pairPicks \union {pool[Len(pool)]} ELSE pairPicks

\* The others by rank, while there is room, and none too close to one already picked.
WithRoom(got, s, max) ==
  IF Cardinality(got) >= max \/ TooClose(s, got) THEN got ELSE got \union {s}
PickMore(pool, max, picks, rest) ==
  LET picked[k \in 0..Len(rest)] ==
        IF k = 0 THEN picks ELSE WithRoom(picked[k - 1], pool[rest[k]], max)
  IN  picked[Len(rest)]

SelectSamples(pool, max, pair) ==
  IF Len(pool) <= max THEN Elements(pool)
  ELSE LET picks == FirstPicks(pool, max, pair)
           left == {i \in DOMAIN pool : pool[i] \notin picks}
       IN  PickMore(pool, max, picks, Sorted(left, [i \in DOMAIN pool |-> -Rank(pool[i])]))

\* The newest sample stands in when nothing else is found, however old it is.
ContextPool(since, minScore) ==
  LET found == QueryResult(since, minScore)
  IN  IF found # <<>> THEN found ELSE IF newest = NoSample THEN <<>> ELSE <<newest>>

-----------------------------------------------------------------------------
(* Properties *)

\* VisualHistory: one budget of pictures and bytes for all tiers together, whatever
\* was promoted, aged out or limited in between.
WithPixels(seq, pics) == {s \in Elements(seq) : s.id \in pics}
FramesWithinBudget == Fits(WithPixels(hot \o warm \o keyframes, pictured), limits)

\* VisualHistoryLimits: a reader never gets a sample older than the user's window, or than
\* the age of the hot tier, which no setting shortens; but for the time a frame was late: a
\* late sample hides behind a younger one.
RetentionWindow ==
  \A s \in Elements(QueryResult(-MaxLag, 0)) :
    s.at >= clock - MaxLag - (IF limits.maxAge > HotAge THEN limits.maxAge ELSE HotAge)

\* buildVisualContext, "the transition is the answer": a context about changes shows a
\* sample nothing outranks and, with room for two, the one before it; it never shows
\* more than was asked for, and is not empty while anything is remembered.
ContextShowsTheChange ==
  \A minScore \in {0, 4} :
    LET pool == ContextPool(clock - 4, minScore)
        top == {i \in DOMAIN pool : \A j \in DOMAIN pool : Rank(pool[j]) <= Rank(pool[i])}
    IN  /\ recorded \in 1..(MaxRecorded - 1) => pool # <<>>
        /\ pool # <<>> => \A max \in 1..3 :
             LET shown == SelectSamples(pool, max, TRUE)
             IN  /\ Cardinality(shown) <= max
                 /\ \E i \in top : /\ pool[i] \in shown
                                  /\ i > 1 /\ max > 1 => pool[i - 1] \in shown
=============================================================================
