----------------------- MODULE OperationalModelProofs ------------------------
(***************************************************************************)
(* Proofs about OperationalModel, for every set of addresses and of data   *)
(* that the generated programs may use.                                    *)
(*                                                                         *)
(* For the outcomes the invariant is that of the store buffers' litmus     *)
(* tests in StoreBufferProofs, in a simpler form: here a store leaves the  *)
(* buffer in the step that writes it to the cache, so every event comes    *)
(* last in the memory order when it is performed.                          *)
(***************************************************************************)
EXTENDS OperationalModel, SequenceTheorems, FiniteSetTheorems, TLAPS

Data == 0 .. 255

(* A program the two harts can run, of four instructions at most.          *)
WellFormed(p) ==
  /\ DOMAIN p = Hart
  /\ \A h \in Hart :
       /\ Len(p[h]) \in 0 .. 4
       /\ \A k \in 1 .. Len(p[h]) :
            /\ p[h][k].op \in {"store", "load", "fence"}
            /\ p[h][k].op # "fence" => p[h][k].addr \in Location
            /\ p[h][k].op = "store" => p[h][k].data \in Data

-----------------------------------------------------------------------------
(* A memory order g of the events performed so far.                        *)
Distinct(g) == \A m, n \in DOMAIN g : g[m] = g[n] => m = n

(* The stores to a load's word that come before it in program order, and   *)
(* not in memory order: it takes the newest from the buffer.               *)
Buffered(p, g, e) == {s \in Kind(p, "store") : /\ Op(p, s).addr = Op(p, e).addr
                                               /\ PoBefore(s, e) /\ ~GmoBefore(g, s, e)}
StoresBefore(p, g, e) == {s \in Kind(p, "store") : /\ Op(p, s).addr = Op(p, e).addr
                                                   /\ GmoBefore(g, s, e)}
Source(p, g, e) ==
  IF Buffered(p, g, e) # {}
  THEN {s \in Buffered(p, g, e) : \A r \in Buffered(p, g, e) : r[2] <= s[2]}
  ELSE {s \in StoresBefore(p, g, e) :
          \A r \in StoresBefore(p, g, e) : r = s \/ GmoBefore(g, r, s)}

(* The last store to a word.                                               *)
StoresTo(p, g, a) == {s \in Kind(p, "store") : Op(p, s).addr = a /\ s \in ToSet(g)}
Latest(p, g, a) == {s \in StoresTo(p, g, a) :
                      \A r \in StoresTo(p, g, a) : r = s \/ GmoBefore(g, r, s)}

(* Program order that total store order keeps.                             *)
Kept(p, d, e) ==
  /\ PoBefore(d, e)
  /\ \/ Op(p, d).op = "load"
     \/ Op(p, e).op = "store"
     \/ \E f \in Kind(p, "fence") : PoBefore(d, f) /\ PoBefore(f, e)

Ordered(p, g) ==
  \A d \in Events(p), e \in ToSet(g) : Kept(p, d, e) => GmoBefore(g, d, e)

Order(p, g) == g \in Seq(Events(p)) /\ Distinct(g) /\ Ordered(p, g)

(* One hart: s are the positions of its buffered stores, and n             *)
(* instructions have been executed.                                        *)
Positions(p, h, s, n) ==
  /\ s \in Seq(1 .. 4)
  /\ \A i \in DOMAIN s : s[i] <= n /\ p[h][s[i]].op = "store"
  /\ \A i, j \in DOMAIN s : i < j => s[i] < s[j]
  /\ \A k \in 1 .. n : p[h][k].op # "load" => \/ \E i \in DOMAIN s : s[i] = k
                                             \/ \A i \in DOMAIN s : k < s[i]

InMemory(s, n, k) == k <= n /\ \A i \in DOMAIN s : s[i] # k

HartOrder(p, g, h, s, n) ==
  /\ n \in 0 .. Len(p[h])
  /\ Positions(p, h, s, n)
  /\ \A k \in 1 .. Len(p[h]) : p[h][k].op # "fence" =>
       (<<h, k>> \in ToSet(g) <=> InMemory(s, n, k))

-----------------------------------------------------------------------------
(* The model's state, explained by g and, for each hart, s and n.          *)
Entries(p, h, s, b) ==
  /\ b \in Seq({p[h][k] : k \in 1 .. Len(p[h])}) /\ Len(b) = Len(s)
  /\ \A i \in DOMAIN s : b[i] = p[h][s[i]]

HartExplained(p, g, h, s, n) ==
  /\ pc[h] = n + 1
  /\ HartOrder(p, g, h, s, n)
  /\ Entries(p, h, s, buffers[h]) /\ Len(buffers[h]) \in 0 .. 2

LoadsExplained(p, g) ==
  /\ registers = [e \in DOMAIN registers |-> registers[e]]
  /\ \A e : e \in DOMAIN registers <=> e \in Kind(p, "load") /\ e[2] < pc[e[1]]
  /\ \A e \in DOMAIN registers : registers[e] = ValueOf(p, Source(p, g, e))

(* The current datum of a word: of the modified copy, or in memory.        *)
Held(a) == IF cache_state[1][a] = "M" THEN cache_data[1][a]
           ELSE IF cache_state[2][a] = "M" THEN cache_data[2][a]
           ELSE memory[a]

Explained(p, g) ==
  /\ Order(p, g)
  /\ \A h \in Hart : \E s \in Seq(1 .. 4), n \in 0 .. 4 : HartExplained(p, g, h, s, n)
  /\ LoadsExplained(p, g)
  /\ \A a \in Location : Held(a) = ValueOf(p, Latest(p, g, a))

(* The caches of a simulation without a mutation.                          *)
Caches ==
  /\ memory \in [Location -> Data]
  /\ cache_state \in [Hart -> [Location -> {"I", "S", "M"}]]
  /\ cache_data \in [Hart -> [Location -> 0 .. Absent]]
  /\ \A h \in Hart, a \in Location :
       /\ cache_state[h][a] = "M" => cache_state[Other(h)][a] = "I"
       /\ cache_state[h][a] = "S" => cache_data[h][a] = memory[a]
       /\ cache_state[h][a] # "I" => cache_data[h][a] # Absent

Plain == /\ Caches
         /\ \E g \in Seq(Events(run.program)) : Explained(run.program, g)
         /\ "fence over a store" \notin seen
         /\ ended # "raised"

(* The simulation with two modified copies: once hart 1's store has        *)
(* drained, both caches hold the word modified.                            *)
DualModified ==
  /\ run = Run("mutations", Probe, "illegal_dual_modified", FALSE)
  /\ cache_state \in [Hart -> [Location -> {"I", "S", "M"}]]
  /\ pc[2] \in {1, 2} /\ buffers[2] = <<>>
  /\ \/ pc[1] = 1 /\ buffers[1] = <<>>
     \/ pc[1] = 2 /\ buffers[1] = <<Probe[1][1]>>
     \/ pc[1] \in {2, 3} /\ buffers[1] = <<>> /\ \A h \in Hart : cache_state[h]["x"] = "M"

IInv == /\ run \in Runs
        /\ pc \in [Hart -> Nat]
        /\ DOMAIN buffers = Hart /\ buffers = [h \in Hart |-> buffers[h]]
        /\ ended \in {"no", "done", "limit", "raised"}
        /\ ended = "limit" => run.backpressure
        /\ ended = "done" => Finished
        /\ Unmutated => Plain
        /\ Mutated("illegal_dual_modified") => DualModified

-----------------------------------------------------------------------------
(* The unmutated simulation has none of the mutations' names.              *)
LEMMA NotAMutation ==
  /\ NoMutation \notin DOMAIN MutationRun
  /\ NoMutation # "early_fence_completion" /\ NoMutation # "broken_forwarding"
  /\ NoMutation # "dropped_buffered_store" /\ NoMutation # "skipped_invalidation"
  /\ NoMutation # "stale_intervention_data" /\ NoMutation # "illegal_dual_modified"
  /\ NoMutation # "response_hart_corruption" /\ NoMutation # "axi_home_id_corruption"
BY DEF NoMutation, MutationRun

(* Memory orders: a strict total order of their events.                    *)
LEMMA BeforeIn ==
  ASSUME NEW g, NEW d, NEW e, GmoBefore(g, d, e)
  PROVE  d \in ToSet(g) /\ e \in ToSet(g)
BY DEF GmoBefore, ToSet

(* No event comes before itself, nor two before each other.                *)
LEMMA BeforeStrict ==
  ASSUME NEW E, NEW g \in Seq(E), Distinct(g), NEW d, NEW e, GmoBefore(g, d, e)
  PROVE  d # e /\ ~GmoBefore(g, e, d)
BY DEF GmoBefore, Distinct

(* Of two performed events one comes before the other.                     *)
LEMMA BeforeTotal ==
  ASSUME NEW E, NEW g \in Seq(E), NEW d \in ToSet(g), NEW e \in ToSet(g), d # e
  PROVE  GmoBefore(g, d, e) \/ GmoBefore(g, e, d)
<1>1. PICK m \in DOMAIN g, n \in DOMAIN g : g[m] = d /\ g[n] = e
  BY DEF ToSet
<1>2. m < n \/ n < m
  BY <1>1
<1> QED
  BY <1>1, <1>2 DEF GmoBefore

(* What comes before what comes before comes before.                       *)
LEMMA BeforeTransitive ==
  ASSUME NEW E, NEW g \in Seq(E), Distinct(g), NEW c, NEW d, NEW e,
         GmoBefore(g, c, d), GmoBefore(g, d, e)
  PROVE  GmoBefore(g, c, e)
<1>1. PICK i \in DOMAIN g, j \in DOMAIN g : i < j /\ g[i] = c /\ g[j] = d
  BY DEF GmoBefore
<1>2. PICK m \in DOMAIN g, n \in DOMAIN g : m < n /\ g[m] = d /\ g[n] = e
  BY DEF GmoBefore
<1>3. j = m
  BY <1>1, <1>2 DEF Distinct
<1>4. i < n
  BY <1>1, <1>2, <1>3
<1> QED
  BY <1>1, <1>2, <1>4 DEF GmoBefore

(* g2 is g with the new event x after all others.                          *)
Follows(E, g, g2, x) ==
  /\ g2 \in Seq(E) /\ Distinct(g2)
  /\ ToSet(g2) = ToSet(g) \cup {x} /\ x \notin ToSet(g)
  /\ \A d, e \in ToSet(g) : GmoBefore(g2, d, e) <=> GmoBefore(g, d, e)
  /\ \A d \in ToSet(g) : GmoBefore(g2, d, x) /\ ~GmoBefore(g2, x, d)

LEMMA AtTheEnd ==
  ASSUME NEW E, NEW g \in Seq(E), Distinct(g), NEW x \in E, x \notin ToSet(g)
  PROVE  \E g2 : Follows(E, g, g2, x)
<1> DEFINE N == Len(g)
           g2 == Append(g, x)
<1>1. N \in Nat /\ DOMAIN g = 1 .. N /\ \A i \in 1 .. N : g[i] \in E /\ g[i] # x
  BY DEF ToSet
<1>2. /\ g2 \in Seq(E) /\ DOMAIN g2 = 1 .. N + 1
      /\ g2[N + 1] = x /\ \A i \in 1 .. N : g2[i] = g[i]
  BY <1>1
<1> HIDE DEF N, g2
<1>3. \A i \in 1 .. N + 1 : i = N + 1 \/ i \in 1 .. N
  BY <1>1
<1>4. /\ \A i \in 1 .. N : i \in 1 .. N + 1 /\ i < N + 1 /\ ~(N + 1 < i)
      /\ N + 1 \in 1 .. N + 1
  BY <1>1
<1>5. ToSet(g2) = ToSet(g) \cup {x}
  <2>1. ASSUME NEW y \in ToSet(g2) PROVE y \in ToSet(g) \cup {x}
    BY <1>1, <1>2, <1>3 DEF ToSet
  <2>2. ASSUME NEW y \in ToSet(g) PROVE y \in ToSet(g2)
    BY <1>1, <1>2, <1>4 DEF ToSet
  <2>3. x \in ToSet(g2)
    BY <1>2, <1>4 DEF ToSet
  <2> QED
    BY <2>1, <2>2, <2>3
<1>6. Distinct(g2)
  BY <1>1, <1>2, <1>3 DEF Distinct
<1>7. ASSUME NEW i \in 1 .. N, NEW j \in 1 .. N
      PROVE  GmoBefore(g2, g[i], g[j]) <=> GmoBefore(g, g[i], g[j])
  <2>1. \A m \in DOMAIN g2 : (g2[m] = g[i] <=> m = i) /\ (g2[m] = g[j] <=> m = j)
    BY <1>1, <1>2, <1>4, <1>6 DEF Distinct
  <2>2. \A m \in DOMAIN g : (g[m] = g[i] <=> m = i) /\ (g[m] = g[j] <=> m = j)
    BY <1>1 DEF Distinct
  <2>3. i \in DOMAIN g2 /\ j \in DOMAIN g2 /\ i \in DOMAIN g /\ j \in DOMAIN g
    BY <1>1, <1>2, <1>4
  <2> QED
    BY <2>1, <2>2, <2>3 DEF GmoBefore
<1>8. ASSUME NEW i \in 1 .. N
      PROVE  GmoBefore(g2, g[i], x) /\ ~GmoBefore(g2, x, g[i])
  <2>1. \A m \in DOMAIN g2 : (g2[m] = g[i] <=> m = i) /\ (g2[m] = x <=> m = N + 1)
    BY <1>1, <1>2, <1>4, <1>6 DEF Distinct
  <2> QED
    BY <1>2, <1>4, <2>1 DEF GmoBefore
<1>9. \A d \in ToSet(g) : \E i \in 1 .. N : d = g[i]
  BY <1>1 DEF ToSet
<1> QED
  BY <1>2, <1>5, <1>6, <1>7, <1>8, <1>9 DEF Follows

-----------------------------------------------------------------------------
(* What an order explains stays explained when it is extended.             *)
LEMMA SourceStays ==
  ASSUME NEW E, NEW p, NEW g, NEW g2, NEW x, Follows(E, g, g2, x), NEW e \in ToSet(g)
  PROVE  Source(p, g2, e) = Source(p, g, e)
<1>1. \A t : GmoBefore(g2, t, e) <=> GmoBefore(g, t, e)
  <2> SUFFICES ASSUME NEW t
               PROVE  GmoBefore(g2, t, e) <=> GmoBefore(g, t, e)
    OBVIOUS
  <2>1. CASE t \in ToSet(g)
    BY <2>1 DEF Follows
  <2>2. CASE t = x
    BY <2>2, BeforeIn DEF Follows
  <2>3. CASE t \notin ToSet(g) /\ t # x
    <3>1. t \notin ToSet(g2)
      BY <2>3 DEF Follows
    <3> QED
      BY <2>3, <3>1, BeforeIn
  <2> QED
    BY <2>1, <2>2, <2>3
<1>2. Buffered(p, g2, e) = Buffered(p, g, e)
  BY <1>1 DEF Buffered
<1>3. StoresBefore(p, g2, e) = StoresBefore(p, g, e)
  BY <1>1 DEF StoresBefore
<1>4. StoresBefore(p, g, e) \subseteq ToSet(g)
  BY BeforeIn DEF StoresBefore
<1>5. \A r, t \in StoresBefore(p, g, e) : GmoBefore(g2, r, t) <=> GmoBefore(g, r, t)
  BY <1>4 DEF Follows
<1>6. {t \in StoresBefore(p, g, e) :
         \A r \in StoresBefore(p, g, e) : r = t \/ GmoBefore(g2, r, t)} =
      {t \in StoresBefore(p, g, e) :
         \A r \in StoresBefore(p, g, e) : r = t \/ GmoBefore(g, r, t)}
  BY <1>5
<1> QED
  BY <1>2, <1>3, <1>6 DEF Source

(* An access to another word, and a load, leaves the last store to a word  *)
(* as it was.                                                              *)
LEMMA LatestStays ==
  ASSUME NEW E, NEW p, NEW g, NEW g2, NEW x, Follows(E, g, g2, x), NEW a,
         x \notin StoresTo(p, g2, a)
  PROVE  Latest(p, g2, a) = Latest(p, g, a)
<1>1. StoresTo(p, g2, a) = StoresTo(p, g, a)
  BY DEF StoresTo, Follows
<1>2. \A r, t \in StoresTo(p, g, a) : GmoBefore(g2, r, t) <=> GmoBefore(g, r, t)
  BY DEF StoresTo, Follows
<1> QED
  BY <1>1, <1>2 DEF Latest

(* A new store is the last store to its word.                              *)
LEMMA LatestNew ==
  ASSUME NEW E, NEW p, NEW g, NEW g2, NEW x, Follows(E, g, g2, x), NEW a,
         x \in StoresTo(p, g2, a)
  PROVE  Latest(p, g2, a) = {x}
<1>1. \A r : r \in StoresTo(p, g2, a) <=> r \in StoresTo(p, g, a) \/ r = x
  BY DEF StoresTo, Follows
<1>2. \A r \in StoresTo(p, g, a) : GmoBefore(g2, r, x) /\ ~GmoBefore(g2, x, r) /\ r # x
  BY DEF StoresTo, Follows
<1> QED
  BY <1>1, <1>2 DEF Latest

(* A load that reads memory returns its last store.                        *)
LEMMA ReadsLatest ==
  ASSUME NEW E, NEW p, NEW g, NEW g2, NEW x, Follows(E, g, g2, x),
         Buffered(p, g2, x) = {}
  PROVE  Source(p, g2, x) = Latest(p, g, Op(p, x).addr)
<1>1. \A r : GmoBefore(g2, r, x) <=> r \in ToSet(g)
  <2> SUFFICES ASSUME NEW r, GmoBefore(g2, r, x) PROVE r \in ToSet(g)
    BY DEF Follows
  <2>1. r # x /\ r \in ToSet(g2)
    BY BeforeIn, BeforeStrict DEF Follows
  <2> QED
    BY <2>1 DEF Follows
<1>2. StoresBefore(p, g2, x) = StoresTo(p, g, Op(p, x).addr)
  BY <1>1 DEF StoresBefore, StoresTo
<1>3. \A r, t \in StoresTo(p, g, Op(p, x).addr) : GmoBefore(g2, r, t) <=> GmoBefore(g, r, t)
  BY DEF StoresTo, Follows
<1> QED
  BY <1>2, <1>3 DEF Source, Latest

(* The longer order keeps program order if everything the new event must   *)
(* follow is in it.                                                        *)
LEMMA OrderedStep ==
  ASSUME NEW p, NEW g, Order(p, g), NEW g2, NEW x, Follows(Events(p), g, g2, x),
         \A d \in Events(p) : Kept(p, d, x) => d \in ToSet(g)
  PROVE  Order(p, g2)
<1>1. ASSUME NEW d \in Events(p), NEW e \in ToSet(g2), Kept(p, d, e)
      PROVE  GmoBefore(g2, d, e)
  <2>1. CASE e = x
    BY <1>1, <2>1 DEF Follows
  <2>2. CASE e \in ToSet(g)
    <3>1. GmoBefore(g, d, e)
      BY <1>1, <2>2 DEF Order, Ordered
    <3>2. d \in ToSet(g)
      BY <3>1, BeforeIn
    <3> QED
      BY <2>2, <3>1, <3>2 DEF Follows
  <2> QED
    BY <2>1, <2>2 DEF Follows
<1> QED
  BY <1>1 DEF Order, Ordered, Follows

(* Nothing changes for the other hart.                                     *)
LEMMA OtherHartOrder ==
  ASSUME NEW p, NEW g, NEW g2, NEW x, Follows(Events(p), g, g2, x),
         NEW o, x[1] # o, NEW t, NEW n, HartOrder(p, g, o, t, n)
  PROVE  HartOrder(p, g2, o, t, n)
<1>1. \A k : <<o, k>> \in ToSet(g2) <=> <<o, k>> \in ToSet(g)
  BY DEF Follows
<1> QED
  BY <1>1 DEF HartOrder

(* The longer order has one position of the hart more.                     *)
LEMMA NewIn ==
  ASSUME NEW E, NEW g, NEW g2, NEW h, NEW k, Follows(E, g, g2, <<h, k>>), NEW l
  PROVE  <<h, l>> \in ToSet(g2) <=> <<h, l>> \in ToSet(g) \/ l = k
BY DEF Follows

-----------------------------------------------------------------------------
(* What has to be in memory before an event is.                            *)
LEMMA EventIn ==
  ASSUME NEW p, NEW e
  PROVE  e \in Events(p) <=> /\ e \in {1, 2} \X (1 .. 4) /\ e[2] <= Len(p[e[1]])
                             /\ p[e[1]][e[2]].op \in {"load", "store"}
BY DEF Events, Kind, Op

(* An instruction of a program that is not a FENCE is an event.            *)
LEMMA NewEvent ==
  ASSUME NEW p, WellFormed(p), NEW h \in Hart, NEW k \in 1 .. Len(p[h]),
         p[h][k].op # "fence"
  PROVE  <<h, k>> \in Events(p) /\ Op(p, <<h, k>>) = p[h][k]
<1>1. k \in 1 .. 4 /\ h \in {1, 2}
  BY DEF WellFormed, Hart
<1>2. p[h][k].op \in {"store", "load"}
  BY DEF WellFormed
<1> QED
  BY <1>1, <1>2, EventIn DEF Op

(* The positions in the buffer grow, and are those of earlier stores.      *)
LEMMA PositionsGrow ==
  ASSUME NEW p, NEW h, NEW s, NEW n, Positions(p, h, s, n)
  PROVE  /\ s \in Seq(1 .. 4) /\ DOMAIN s = 1 .. Len(s) /\ Len(s) \in Nat
         /\ \A i \in DOMAIN s : s[i] \in 1 .. 4 /\ s[i] <= n /\ p[h][s[i]].op = "store"
         /\ \A i, j \in DOMAIN s : (s[i] <= s[j] <=> i <= j) /\ (s[i] = s[j] <=> i = j)
<1>1. /\ s \in Seq(1 .. 4) /\ DOMAIN s = 1 .. Len(s) /\ Len(s) \in Nat
      /\ \A i \in DOMAIN s : s[i] \in 1 .. 4 /\ s[i] <= n /\ p[h][s[i]].op = "store"
  BY DEF Positions
<1>2. ASSUME NEW i \in DOMAIN s, NEW j \in DOMAIN s
      PROVE  (s[i] <= s[j] <=> i <= j) /\ (s[i] = s[j] <=> i = j)
  <2>1. s[i] \in Int /\ s[j] \in Int /\ i \in Int /\ j \in Int
    BY <1>1
  <2>2. (i < j => s[i] < s[j]) /\ (j < i => s[j] < s[i])
    BY DEF Positions
  <2> QED
    BY <2>1, <2>2
<1> QED
  BY <1>1, <1>2

(* Earlier loads have been executed; earlier stores, unless they are       *)
(* buffered, have reached memory, and those before a FENCE are not         *)
(* buffered.                                                               *)
LEMMA KeptIsIn ==
  ASSUME NEW p, WellFormed(p), NEW g, NEW h \in Hart, NEW s, NEW n,
         HartOrder(p, g, h, s, n),
         NEW k \in 1 .. Len(p[h]), NEW d \in Events(p), Kept(p, d, <<h, k>>),
         \/ p[h][k].op = "load" /\ k = n + 1
         \/ p[h][k].op = "store" /\ s # <<>> /\ k = s[1]
  PROVE  d \in ToSet(g)
<1> DEFINE j == d[2]
<1>1. /\ d = <<h, j>> /\ j \in 1 .. Len(p[h]) /\ j < k /\ j \in 1 .. 4
      /\ p[h][j].op \in {"load", "store"}
  BY EventIn DEF Kept, PoBefore
<1> HIDE DEF j
<1>2. n \in 0 .. Len(p[h]) /\ Len(p[h]) \in 0 .. 4 /\ Positions(p, h, s, n)
  BY DEF HartOrder, WellFormed
<1>3. /\ s \in Seq(1 .. 4) /\ DOMAIN s = 1 .. Len(s) /\ Len(s) \in Nat
      /\ \A i \in DOMAIN s : s[i] \in 1 .. 4 /\ s[i] <= n /\ p[h][s[i]].op = "store"
      /\ \A i, l \in DOMAIN s : (s[i] <= s[l] <=> i <= l) /\ (s[i] = s[l] <=> i = l)
  BY <1>2, PositionsGrow
<1>4. s # <<>> => 1 \in DOMAIN s /\ s[1] \in 1 .. 4 /\ s[1] <= n
                  /\ \A i \in DOMAIN s : s[1] <= s[i]
  <2> SUFFICES ASSUME s # <<>>
               PROVE  1 \in DOMAIN s /\ s[1] \in 1 .. 4 /\ s[1] <= n
                      /\ \A i \in DOMAIN s : s[1] <= s[i]
    OBVIOUS
  <2>1. 1 \in DOMAIN s /\ \A i \in DOMAIN s : 1 <= i
    BY <1>3
  <2> QED
    BY <1>3, <2>1
<1>5. j <= n
  <2>1. CASE k = n + 1
    BY <1>1, <1>2, <2>1
  <2>2. CASE s # <<>> /\ k = s[1]
    BY <1>1, <1>2, <1>4, <2>2
  <2> QED
    BY <2>1, <2>2
<1>6. \A i \in DOMAIN s : s[i] # j
  <2>1. CASE p[h][j].op = "load"
    BY <1>3, <2>1
  <2>2. CASE p[h][j].op = "store" /\ p[h][k].op = "store"
    <3>1. s # <<>> /\ j < s[1]
      BY <1>1, <2>2
    <3> QED
      BY <1>1, <1>3, <1>4, <3>1
  <2>3. CASE p[h][j].op = "store" /\ p[h][k].op = "load"
    <3>1. Op(p, d).op = "store" /\ Op(p, <<h, k>>).op = "load"
      BY <1>1, <2>3 DEF Op
    <3>2. PICK u \in Kind(p, "fence") : PoBefore(d, u) /\ PoBefore(u, <<h, k>>)
      BY <3>1 DEF Kept
    <3>3. PICK l \in 1 .. 4 : l = u[2] /\ p[h][l].op = "fence" /\ j < l /\ l < k
      BY <1>1, <3>2 DEF Kind, Op, PoBefore
    <3>4. l \in 1 .. n
      BY <1>2, <2>3, <3>3
    <3>5. \A i \in DOMAIN s : s[i] # l
      BY <1>3, <3>3
    <3>6. \A i \in DOMAIN s : l < s[i]
      BY <1>2, <3>3, <3>4, <3>5 DEF Positions
    <3> QED
      BY <1>1, <1>3, <3>3, <3>6
  <2> QED
    BY <1>1, <2>1, <2>2, <2>3
<1> QED
  BY <1>1, <1>5, <1>6 DEF HartOrder, InMemory

-----------------------------------------------------------------------------
(* The steps of a hart: a store enters the buffer ...                      *)
LEMMA EnqueueOrder ==
  ASSUME NEW p, WellFormed(p), NEW g, NEW h \in Hart, NEW s, NEW n, HartOrder(p, g, h, s, n),
         n < Len(p[h]), p[h][n + 1].op = "store"
  PROVE  HartOrder(p, g, h, Append(s, n + 1), n + 1)
<1> DEFINE t == Append(s, n + 1)
<1>1. /\ Positions(p, h, s, n) /\ n \in Nat /\ n + 1 \in 1 .. 4 /\ n + 1 \in 0 .. Len(p[h])
      /\ Len(p[h]) \in 0 .. 4
  BY DEF HartOrder, WellFormed
<1>2. /\ s \in Seq(1 .. 4) /\ DOMAIN s = 1 .. Len(s) /\ Len(s) \in Nat
      /\ \A i \in DOMAIN s : s[i] \in 1 .. 4 /\ s[i] <= n /\ p[h][s[i]].op = "store"
      /\ \A i, j \in DOMAIN s : i < j => s[i] < s[j]
  BY <1>1, PositionsGrow DEF Positions
<1>3. /\ t \in Seq(1 .. 4) /\ DOMAIN t = 1 .. Len(s) + 1
      /\ t[Len(s) + 1] = n + 1 /\ \A i \in 1 .. Len(s) : t[i] = s[i]
  BY <1>1, <1>2
<1> HIDE DEF t
<1>4. \A i \in DOMAIN t : (i \in DOMAIN s /\ t[i] = s[i]) \/ (i = Len(s) + 1 /\ t[i] = n + 1)
  BY <1>2, <1>3
<1>5. \A i \in DOMAIN s : i \in DOMAIN t /\ t[i] = s[i] /\ i < Len(s) + 1
  BY <1>2, <1>3
<1>6. Len(s) + 1 \in DOMAIN t
  BY <1>2, <1>3
<1>7. Positions(p, h, t, n + 1)
  <2>1. \A i \in DOMAIN t : t[i] <= n + 1 /\ p[h][t[i]].op = "store"
    BY <1>1, <1>2, <1>4
  <2>2. ASSUME NEW i \in DOMAIN t, NEW j \in DOMAIN t, i < j PROVE t[i] < t[j]
    <3>1. i \in DOMAIN s /\ t[i] = s[i] /\ s[i] <= n /\ s[i] \in 1 .. 4
      BY <1>2, <1>3, <1>4, <2>2
    <3>2. CASE j \in DOMAIN s /\ t[j] = s[j]
      BY <1>2, <2>2, <3>1, <3>2
    <3>3. CASE t[j] = n + 1
      BY <1>1, <3>1, <3>3
    <3> QED
      BY <1>4, <3>2, <3>3
  <2>3. ASSUME NEW k \in 1 .. n + 1, p[h][k].op # "load"
        PROVE  (\E i \in DOMAIN t : t[i] = k) \/ \A i \in DOMAIN t : k < t[i]
    <3>1. CASE k = n + 1
      BY <1>3, <1>6, <3>1
    <3>2. CASE k # n + 1
      <4>1. k \in 1 .. n
        BY <1>1, <3>2
      <4>2. (\E i \in DOMAIN s : s[i] = k) \/ \A i \in DOMAIN s : k < s[i]
        BY <1>1, <2>3, <4>1 DEF Positions
      <4>3. CASE \E i \in DOMAIN s : s[i] = k
        BY <1>5, <4>3
      <4>4. CASE \A i \in DOMAIN s : k < s[i]
        BY <1>1, <1>4, <4>1, <4>4
      <4> QED
        BY <4>2, <4>3, <4>4
    <3> QED
      BY <3>1, <3>2
  <2> QED
    BY <1>3, <2>1, <2>2, <2>3 DEF Positions
<1>8. ASSUME NEW k \in 1 .. Len(p[h])
      PROVE  InMemory(s, n, k) <=> InMemory(t, n + 1, k)
  <2>1. CASE k = n + 1
    <3>1. ~(k <= n) /\ t[Len(s) + 1] = k
      BY <1>1, <1>3, <2>1
    <3> QED
      BY <1>6, <3>1 DEF InMemory
  <2>2. CASE k # n + 1
    <3>1. k <= n <=> k <= n + 1
      BY <1>1, <2>2
    <3>2. (\A i \in DOMAIN s : s[i] # k) <=> \A i \in DOMAIN t : t[i] # k
      BY <1>4, <1>5, <2>2
    <3> QED
      BY <3>1, <3>2 DEF InMemory
  <2> QED
    BY <2>1, <2>2
<1>9. HartOrder(p, g, h, t, n + 1)
  BY <1>1, <1>7, <1>8 DEF HartOrder
<1> QED
  BY <1>9 DEF t

(* ... a FENCE passes the empty buffer ...                                 *)
LEMMA FenceOrder ==
  ASSUME NEW p, WellFormed(p), NEW g, NEW h \in Hart, NEW s, NEW n, HartOrder(p, g, h, s, n),
         s = <<>>, n < Len(p[h]), p[h][n + 1].op = "fence"
  PROVE  HartOrder(p, g, h, s, n + 1)
<1>1. n \in Nat /\ n + 1 \in 0 .. Len(p[h])
  BY DEF HartOrder, WellFormed
<1>2. Positions(p, h, s, n + 1)
  BY DEF Positions
<1>3. ASSUME NEW k \in 1 .. Len(p[h]), p[h][k].op # "fence"
      PROVE  InMemory(s, n, k) <=> InMemory(s, n + 1, k)
  <2>1. k # n + 1
    BY <1>3
  <2>2. k <= n <=> k <= n + 1
    BY <1>1, <2>1
  <2> QED
    BY <2>2 DEF InMemory
<1> QED
  BY <1>1, <1>2, <1>3 DEF HartOrder

(* ... a load is performed ...                                             *)
LEMMA LoadOrder ==
  ASSUME NEW p, WellFormed(p), NEW g, Order(p, g), NEW h \in Hart, NEW s, NEW n,
         HartOrder(p, g, h, s, n), n < Len(p[h]), p[h][n + 1].op = "load"
  PROVE  \E g2 : /\ Follows(Events(p), g, g2, <<h, n + 1>>)
                 /\ Order(p, g2)
                 /\ HartOrder(p, g2, h, s, n + 1)
<1> DEFINE x == <<h, n + 1>>
<1>1. n \in 0 .. Len(p[h]) /\ n + 1 \in 1 .. Len(p[h]) /\ Len(p[h]) \in 0 .. 4
  BY DEF HartOrder, WellFormed
<1>2. x \in Events(p)
  BY <1>1, NewEvent
<1>3. x \notin ToSet(g)
  BY <1>1 DEF HartOrder, InMemory
<1>4. PICK g2 : Follows(Events(p), g, g2, x)
  BY <1>2, <1>3, AtTheEnd DEF Order
<1>5. Order(p, g2)
  <2>1. \A d \in Events(p) : Kept(p, d, x) => d \in ToSet(g)
    BY <1>1, KeptIsIn
  <2> QED
    BY <1>4, <2>1, OrderedStep
<1>6. /\ s \in Seq(1 .. 4)
      /\ \A i \in DOMAIN s : s[i] \in 1 .. 4 /\ s[i] <= n /\ p[h][s[i]].op = "store"
  BY PositionsGrow DEF HartOrder
<1>7. Positions(p, h, s, n + 1)
  <2>1. ASSUME NEW k \in 1 .. n + 1, p[h][k].op # "load" PROVE k \in 1 .. n
    BY <1>1, <2>1
  <2>2. \A i \in DOMAIN s : s[i] <= n + 1
    BY <1>1, <1>6
  <2> QED
    BY <2>1, <2>2 DEF HartOrder, Positions
<1>8. ASSUME NEW k \in 1 .. Len(p[h]), p[h][k].op # "fence"
      PROVE  <<h, k>> \in ToSet(g2) <=> InMemory(s, n + 1, k)
  <2>1. <<h, k>> \in ToSet(g2) <=> <<h, k>> \in ToSet(g) \/ k = n + 1
    BY <1>4, NewIn
  <2>2. <<h, k>> \in ToSet(g) <=> InMemory(s, n, k)
    BY <1>8 DEF HartOrder
  <2>3. k <= n + 1 <=> k <= n \/ k = n + 1
    BY <1>1
  <2>4. \A i \in DOMAIN s : s[i] # n + 1
    BY <1>6
  <2> QED
    BY <2>1, <2>2, <2>3, <2>4 DEF InMemory
<1>9. HartOrder(p, g2, h, s, n + 1)
  BY <1>1, <1>7, <1>8 DEF HartOrder
<1> QED
  BY <1>4, <1>5, <1>9

(* ... or the oldest store reaches memory.                                 *)
LEMMA DrainOrder ==
  ASSUME NEW p, WellFormed(p), NEW g, Order(p, g), NEW h \in Hart, NEW s, NEW n,
         HartOrder(p, g, h, s, n), s # <<>>
  PROVE  \E g2 : /\ Follows(Events(p), g, g2, <<h, s[1]>>)
                 /\ Order(p, g2)
                 /\ HartOrder(p, g2, h, Tail(s), n)
<1> DEFINE x == <<h, s[1]>>
           t == Tail(s)
<1>1. n \in 0 .. Len(p[h]) /\ Len(p[h]) \in 0 .. 4 /\ Positions(p, h, s, n)
  BY DEF HartOrder, WellFormed
<1>2. /\ s \in Seq(1 .. 4) /\ DOMAIN s = 1 .. Len(s) /\ Len(s) \in Nat
      /\ \A i \in DOMAIN s : s[i] \in 1 .. 4 /\ s[i] <= n /\ p[h][s[i]].op = "store"
      /\ \A i, j \in DOMAIN s : (s[i] <= s[j] <=> i <= j) /\ (s[i] = s[j] <=> i = j)
  BY <1>1, PositionsGrow
<1>3. 1 \in DOMAIN s /\ s[1] \in 1 .. Len(p[h]) /\ p[h][s[1]].op = "store"
  BY <1>1, <1>2
<1>4. x \in Events(p)
  BY <1>3, NewEvent
<1>5. x \notin ToSet(g)
  <2>1. ~InMemory(s, n, s[1])
    BY <1>3 DEF InMemory
  <2> QED
    BY <1>3, <2>1 DEF HartOrder
<1>6. PICK g2 : Follows(Events(p), g, g2, x)
  BY <1>4, <1>5, AtTheEnd DEF Order
<1>7. Order(p, g2)
  <2>1. PICK k \in 1 .. Len(p[h]) : k = s[1] /\ p[h][k].op = "store" /\ x = <<h, k>>
    BY <1>3
  <2>2. ASSUME NEW d \in Events(p), Kept(p, d, <<h, k>>) PROVE d \in ToSet(g)
    <3> HIDE DEF x
    <3> QED
      BY <2>1, <2>2, KeptIsIn
  <2> QED
    BY <1>6, <2>1, <2>2, OrderedStep
<1>8. /\ t \in Seq(1 .. 4) /\ DOMAIN t = 1 .. Len(s) - 1
      /\ \A i \in DOMAIN t : i + 1 \in DOMAIN s /\ i + 1 # 1 /\ t[i] = s[i + 1]
      /\ \A j \in DOMAIN s : j # 1 => j - 1 \in DOMAIN t /\ s[j] = t[j - 1]
  <2>1. Len(s) \in Nat \ {0} /\ t \in Seq(1 .. 4) /\ DOMAIN t = 1 .. Len(s) - 1
        /\ \A i \in 1 .. Len(s) - 1 : t[i] = s[i + 1]
    BY <1>2
  <2> HIDE DEF t
  <2>2. \A i \in 1 .. Len(s) - 1 : i + 1 \in 1 .. Len(s) /\ i + 1 # 1
    BY <2>1
  <2>3. \A j \in 1 .. Len(s) : j # 1 => j - 1 \in 1 .. Len(s) - 1 /\ (j - 1) + 1 = j
    BY <2>1
  <2> QED
    BY <1>2, <2>1, <2>2, <2>3
<1> HIDE DEF t
<1>9. Positions(p, h, t, n)
  <2>1. \A i \in DOMAIN t : t[i] <= n /\ p[h][t[i]].op = "store"
    BY <1>2, <1>8
  <2>2. ASSUME NEW i \in DOMAIN t, NEW j \in DOMAIN t, i < j PROVE t[i] < t[j]
    <3>1. i + 1 \in DOMAIN s /\ j + 1 \in DOMAIN s /\ i + 1 < j + 1
      BY <1>2, <1>8, <2>2
    <3>2. s[i + 1] < s[j + 1]
      BY <1>1, <3>1 DEF Positions
    <3> QED
      BY <1>8, <3>2
  <2>3. ASSUME NEW k \in 1 .. n, p[h][k].op # "load"
        PROVE  (\E i \in DOMAIN t : t[i] = k) \/ \A i \in DOMAIN t : k < t[i]
    <3>1. CASE \A i \in DOMAIN s : k < s[i]
      BY <1>8, <3>1
    <3>2. CASE k = s[1]
      <4>1. ASSUME NEW i \in DOMAIN t PROVE s[1] < t[i]
        <5>1. 1 < i + 1
          BY <1>2, <1>8
        <5> QED
          BY <1>1, <1>3, <1>8, <5>1 DEF Positions
      <4> QED
        BY <3>2, <4>1
    <3>3. CASE \E i \in DOMAIN s : i # 1 /\ s[i] = k
      BY <1>8, <3>3
    <3> QED
      BY <1>1, <2>3, <3>1, <3>2, <3>3 DEF Positions
  <2> QED
    BY <1>8, <2>1, <2>2, <2>3 DEF Positions
<1>10. ASSUME NEW k \in 1 .. Len(p[h]), p[h][k].op # "fence"
       PROVE  <<h, k>> \in ToSet(g2) <=> InMemory(t, n, k)
  <2>1. <<h, k>> \in ToSet(g2) <=> <<h, k>> \in ToSet(g) \/ k = s[1]
    BY <1>6, NewIn
  <2>2. <<h, k>> \in ToSet(g) <=> InMemory(s, n, k)
    BY <1>10 DEF HartOrder
  <2>3. CASE k = s[1]
    <3>1. \A i \in DOMAIN t : t[i] # k
      BY <1>2, <1>3, <1>8, <2>3
    <3> QED
      BY <1>2, <1>3, <2>1, <2>3, <3>1 DEF InMemory
  <2>4. CASE k # s[1]
    <3>1. (\A i \in DOMAIN s : s[i] # k) <=> \A i \in DOMAIN t : t[i] # k
      BY <1>8, <2>4
    <3> QED
      BY <2>1, <2>2, <2>4, <3>1 DEF InMemory
  <2> QED
    BY <2>3, <2>4
<1>11. HartOrder(p, g2, h, t, n)
  BY <1>1, <1>9, <1>10 DEF HartOrder
<1> QED
  BY <1>6, <1>7, <1>11 DEF t

-----------------------------------------------------------------------------
(* An earlier store of the hart is in memory or in the buffer.             *)
LEMMA BufferedIsIn ==
  ASSUME NEW p, WellFormed(p), NEW g, NEW h \in Hart, NEW s, NEW n,
         HartOrder(p, g, h, s, n), NEW t \in Kind(p, "store"), t[1] = h, t[2] \in 1 .. n
  PROVE  t \in ToSet(g) \/ \E i \in DOMAIN s : s[i] = t[2]
<1>1. n \in 0 .. Len(p[h]) /\ Len(p[h]) \in 0 .. 4
  BY DEF HartOrder, WellFormed
<1>2. t \in {1, 2} \X (1 .. 4) /\ p[h][t[2]].op = "store"
  BY DEF Kind, Op
<1>3. PICK k \in 1 .. n : k = t[2]
  OBVIOUS
<1>4. k \in 1 .. Len(p[h]) /\ k <= n /\ t = <<h, k>>
  BY <1>1, <1>2, <1>3
<1> QED
  BY <1>2, <1>3, <1>4 DEF HartOrder, InMemory

(* The stores that the load at k finds in the buffer.                      *)
Found(p, h, s, k) == {<<h, s[i]>> : i \in {i \in DOMAIN s : p[h][s[i]].addr = p[h][k].addr}}

LEMMA BufferedAre ==
  ASSUME NEW p, WellFormed(p), NEW g, NEW h \in Hart, NEW s, NEW n, HartOrder(p, g, h, s, n),
         NEW k \in 1 .. Len(p[h]), k = n + 1, p[h][k].op = "load",
         NEW g2, Follows(Events(p), g, g2, <<h, k>>)
  PROVE  Buffered(p, g2, <<h, k>>) = Found(p, h, s, k)
<1> DEFINE x == <<h, k>>
<1>1. /\ n \in 0 .. Len(p[h]) /\ Len(p[h]) \in 0 .. 4
      /\ Positions(p, h, s, n) /\ h \in {1, 2}
  BY DEF HartOrder, WellFormed, Hart
<1>2. \A i \in DOMAIN s : s[i] \in 1 .. 4 /\ s[i] <= n /\ p[h][s[i]].op = "store"
  BY <1>1, PositionsGrow
<1>3. Op(p, x) = p[h][k]
  BY DEF Op
<1>4. ASSUME NEW r \in Buffered(p, g2, x)
      PROVE  \E i \in DOMAIN s : r = <<h, s[i]>> /\ p[h][s[i]].addr = p[h][k].addr
  <2>1. /\ r \in Kind(p, "store") /\ PoBefore(r, x) /\ ~GmoBefore(g2, r, x)
        /\ Op(p, r).addr = p[h][k].addr
    BY <1>3 DEF Buffered
  <2>2. r[1] = h /\ r[2] \in 1 .. n /\ r = <<h, r[2]>>
    BY <1>1, <2>1 DEF PoBefore, Kind
  <2>3. r \notin ToSet(g)
    BY <2>1 DEF Follows
  <2>4. \E i \in DOMAIN s : s[i] = r[2]
    <3> HIDE DEF x
    <3> QED
      BY <2>1, <2>2, <2>3, BufferedIsIn
  <2>5. Op(p, r) = p[h][r[2]]
    BY <2>2 DEF Op
  <2> QED
    BY <2>1, <2>2, <2>4, <2>5
<1>5. ASSUME NEW i \in DOMAIN s, p[h][s[i]].addr = p[h][k].addr
      PROVE  <<h, s[i]>> \in Buffered(p, g2, x)
  <2>1. PICK l \in 1 .. 4 : l = s[i] /\ l <= n /\ p[h][l].op = "store"
    BY <1>2
  <2>2. l \in 1 .. Len(p[h]) /\ l < k
    BY <1>1, <2>1
  <2>3. ~InMemory(s, n, l)
    BY <2>1 DEF InMemory
  <2>4. <<h, l>> \notin ToSet(g)
    BY <2>1, <2>2, <2>3 DEF HartOrder
  <2>5. <<h, l>> \notin ToSet(g2)
    BY <2>2, <2>4, NewIn, <1>1
  <2>6. <<h, l>> \in Kind(p, "store") /\ Op(p, <<h, l>>) = p[h][l]
    BY <1>1, <2>1, <2>2 DEF Kind, Op
  <2>7. PoBefore(<<h, l>>, x) /\ ~GmoBefore(g2, <<h, l>>, x)
    BY <2>2, <2>5, BeforeIn DEF PoBefore
  <2> QED
    BY <1>3, <1>5, <2>1, <2>6, <2>7 DEF Buffered
<1> HIDE DEF x
<1>6. \A r \in Buffered(p, g2, x) : r \in Found(p, h, s, k)
  BY <1>4 DEF Found
<1>7. \A r \in Found(p, h, s, k) : r \in Buffered(p, g2, x)
  BY <1>5 DEF Found
<1> QED
  BY <1>6, <1>7 DEF x

(* The i-th buffered store serves the load at k.                           *)
Serves(p, h, s, k, i) ==
  /\ i \in DOMAIN s /\ p[h][s[i]].addr = p[h][k].addr
  /\ \A j \in DOMAIN s : p[h][s[j]].addr = p[h][k].addr => j <= i

(* The load reads the buffered store that serves it.                       *)
LEMMA ForwardSource ==
  ASSUME NEW p, WellFormed(p), NEW g, NEW h \in Hart, NEW s, NEW n, HartOrder(p, g, h, s, n),
         NEW k \in 1 .. Len(p[h]), k = n + 1, p[h][k].op = "load",
         NEW g2, Follows(Events(p), g, g2, <<h, k>>),
         NEW i, Serves(p, h, s, k, i)
  PROVE  Source(p, g2, <<h, k>>) = {<<h, s[i]>>}
<1> DEFINE B == Buffered(p, g2, <<h, k>>)
           y == <<h, s[i]>>
<1>1. \A r : r \in B <=>
        \E j \in DOMAIN s : r = <<h, s[j]>> /\ p[h][s[j]].addr = p[h][k].addr
  <2>1. B = Found(p, h, s, k)
    BY BufferedAre
  <2> HIDE DEF B
  <2> QED
    BY <2>1 DEF Found
<1>2. /\ i \in DOMAIN s /\ p[h][s[i]].addr = p[h][k].addr
      /\ \A j \in DOMAIN s : p[h][s[j]].addr = p[h][k].addr => j <= i
  BY DEF Serves
<1>3. /\ \A j \in DOMAIN s : s[j] \in 1 .. 4
      /\ \A j, l \in DOMAIN s : (s[j] <= s[l] <=> j <= l) /\ (s[j] = s[l] <=> j = l)
      /\ DOMAIN s = 1 .. Len(s) /\ Len(s) \in Nat
  BY PositionsGrow DEF HartOrder
<1>4. y \in B
  BY <1>1, <1>2
<1>5. ASSUME NEW r \in B PROVE r[2] <= s[i] /\ (s[i] <= r[2] => r = y)
  <2>1. PICK j \in DOMAIN s : r = <<h, s[j]>> /\ p[h][s[j]].addr = p[h][k].addr
    BY <1>1
  <2>2. j <= i /\ r[2] = s[j]
    BY <1>2, <2>1
  <2>3. s[i] <= s[j] => j = i
    BY <1>2, <1>3, <2>2
  <2> QED
    BY <1>2, <1>3, <2>1, <2>2, <2>3
<1>6. \A r : (r \in B /\ \A t \in B : t[2] <= r[2]) <=> r = y
  BY <1>4, <1>5
<1>7. {r \in B : \A t \in B : t[2] <= r[2]} = {y}
  <2> HIDE DEF B, y
  <2> QED
    BY <1>6
<1> QED
  BY <1>4, <1>7 DEF Source

(* A load that no buffered store serves reads the last store to its word.  *)
LEMMA MissSource ==
  ASSUME NEW p, WellFormed(p), NEW g, NEW h \in Hart, NEW s, NEW n, HartOrder(p, g, h, s, n),
         NEW k \in 1 .. Len(p[h]), k = n + 1, p[h][k].op = "load",
         NEW g2, Follows(Events(p), g, g2, <<h, k>>),
         \A i \in DOMAIN s : p[h][s[i]].addr # p[h][k].addr
  PROVE  Source(p, g2, <<h, k>>) = Latest(p, g, p[h][k].addr)
<1>1. Buffered(p, g2, <<h, k>>) = {}
  <2>1. Buffered(p, g2, <<h, k>>) = Found(p, h, s, k)
    BY BufferedAre
  <2> QED
    BY <2>1 DEF Found
<1>2. Op(p, <<h, k>>) = p[h][k]
  BY DEF Op
<1> QED
  BY <1>1, <1>2, ReadsLatest

-----------------------------------------------------------------------------
(* The buffer holds the stores at a hart's positions.                      *)
LEMMA EntriesAppend ==
  ASSUME NEW p, NEW h, NEW s \in Seq(1 .. 4), NEW b, Entries(p, h, s, b),
         NEW k \in 1 .. 4, k \in 1 .. Len(p[h])
  PROVE  Entries(p, h, Append(s, k), Append(b, p[h][k]))
<1> DEFINE E == {p[h][l] : l \in 1 .. Len(p[h])}
<1>1. b \in Seq(E) /\ Len(b) = Len(s) /\ \A i \in DOMAIN s : b[i] = p[h][s[i]]
  BY DEF Entries
<1>2. p[h][k] \in E
  OBVIOUS
<1>3. PICK e \in E : e = p[h][k]
  BY <1>2
<1> HIDE DEF E
<1>4. /\ Append(b, e) \in Seq(E) /\ Len(Append(b, e)) = Len(s) + 1
      /\ Append(b, e)[Len(s) + 1] = e /\ \A i \in 1 .. Len(s) : Append(b, e)[i] = b[i]
  BY <1>1
<1>5. /\ Len(Append(s, k)) = Len(s) + 1 /\ DOMAIN Append(s, k) = 1 .. Len(s) + 1
      /\ Append(s, k)[Len(s) + 1] = k /\ \A i \in 1 .. Len(s) : Append(s, k)[i] = s[i]
  OBVIOUS
<1>6. ASSUME NEW i \in 1 .. Len(s) + 1 PROVE Append(b, e)[i] = p[h][Append(s, k)[i]]
  <2>1. CASE i = Len(s) + 1
    BY <1>3, <1>4, <1>5, <2>1
  <2>2. CASE i # Len(s) + 1
    <3>1. i \in DOMAIN s /\ i \in 1 .. Len(s)
      BY <2>2
    <3>2. b[i] = p[h][s[i]]
      BY <1>1, <3>1
    <3> QED
      BY <1>4, <1>5, <3>1, <3>2
  <2> QED
    BY <2>1, <2>2
<1> QED
  BY <1>3, <1>4, <1>5, <1>6 DEF Entries, E

LEMMA EntriesTail ==
  ASSUME NEW p, NEW h, NEW s \in Seq(1 .. 4), NEW b, Entries(p, h, s, b), s # <<>>
  PROVE  /\ Entries(p, h, Tail(s), Tail(b)) /\ b # <<>> /\ 1 \in DOMAIN s
         /\ Head(b) = p[h][s[1]]
<1> DEFINE E == {p[h][l] : l \in 1 .. Len(p[h])}
<1>1. b \in Seq(E) /\ Len(b) = Len(s) /\ \A i \in DOMAIN s : b[i] = p[h][s[i]]
  BY DEF Entries
<1> HIDE DEF E
<1>2. Len(s) \in Nat \ {0} /\ DOMAIN s = 1 .. Len(s) /\ b # <<>> /\ 1 \in DOMAIN s
  BY <1>1
<1>3. /\ Tail(b) \in Seq(E) /\ Len(Tail(b)) = Len(s) - 1 /\ Head(b) = b[1]
      /\ \A i \in 1 .. Len(s) - 1 : Tail(b)[i] = b[i + 1]
  BY <1>1, <1>2
<1>4. /\ Len(Tail(s)) = Len(s) - 1 /\ DOMAIN Tail(s) = 1 .. Len(s) - 1
      /\ \A i \in 1 .. Len(s) - 1 : Tail(s)[i] = s[i + 1]
  BY <1>2
<1>5. \A i \in 1 .. Len(s) - 1 : i + 1 \in DOMAIN s
  BY <1>2
<1>6. Entries(p, h, Tail(s), Tail(b))
  BY <1>1, <1>3, <1>4, <1>5 DEF Entries, E
<1> QED
  BY <1>1, <1>2, <1>3, <1>6

LEMMA ValueOfOne ==
  ASSUME NEW p, NEW y
  PROVE  ValueOf(p, {y}) = Op(p, y).data
<1>1. (CHOOSE t \in {y} : TRUE) = y
  OBVIOUS
<1> QED
  BY <1>1 DEF ValueOf

(* A datum a program writes, or 0.                                         *)
LEMMA ValuesAreData ==
  ASSUME NEW p, WellFormed(p), NEW S \in SUBSET Kind(p, "store")
  PROVE  ValueOf(p, S) \in Data
<1>1. CASE S = {}
  BY <1>1 DEF ValueOf, Data
<1>2. CASE S # {}
  <2>1. PICK y : y = CHOOSE t \in S : TRUE
    OBVIOUS
  <2>2. y \in S
    BY <1>2, <2>1
  <2>3. y[1] \in Hart /\ y[2] \in 1 .. 4 /\ y[2] <= Len(p[y[1]]) /\ Op(p, y).op = "store"
    BY <2>2 DEF Kind, Hart
  <2>4. Len(p[y[1]]) \in 0 .. 4
    BY <2>3 DEF WellFormed
  <2>5. y[2] \in 1 .. Len(p[y[1]])
    BY <2>3, <2>4
  <2>6. Op(p, y).data \in Data
    BY <2>3, <2>5 DEF WellFormed, Op
  <2> QED
    BY <1>2, <2>1, <2>6 DEF ValueOf
<1> QED
  BY <1>1, <1>2

-----------------------------------------------------------------------------
(* A complete order is one RVWMO allows, and its outcome the machine's.    *)
LEMMA CompleteSource ==
  ASSUME NEW p, NEW g, Order(p, g), ToSet(g) = Events(p), NEW e \in Kind(p, "load")
  PROVE  ReadsFrom(p, g, e) = Source(p, g, e)
<1> DEFINE B == Buffered(p, g, e)
           P == StoresBefore(p, g, e)
           visible == {s \in Kind(p, "store") :
                         Op(p, s).addr = Op(p, e).addr /\ (GmoBefore(g, s, e) \/ PoBefore(s, e))}
<1>1. ReadsFrom(p, g, e) = {s \in visible : \A r \in visible : r = s \/ GmoBefore(g, r, s)}
  BY DEF ReadsFrom
<1>2. \A s : s \in visible <=> s \in B \/ s \in P
  BY DEF Buffered, StoresBefore
<1>3. CASE B = {}
  <2>1. visible = P
    BY <1>2, <1>3
  <2> QED
    BY <1>1, <1>3, <2>1 DEF Source
<1>4. CASE B # {}
  <2>1. g \in Seq(Events(p)) /\ Distinct(g)
    BY DEF Order
  <2>2. \A s \in B : /\ s \in Kind(p, "store") /\ s \in ToSet(g) /\ s # e
                     /\ PoBefore(s, e) /\ ~GmoBefore(g, s, e)
                     /\ s \in {1, 2} \X (1 .. 4) /\ s[1] = e[1]
    BY DEF Buffered, Events, Kind, PoBefore
  <2>3. e \in ToSet(g)
    BY DEF Events
  <2>4. \A s \in B : GmoBefore(g, e, s)
    BY <2>1, <2>2, <2>3, BeforeTotal
  <2>5. \A s \in B, t \in P : GmoBefore(g, t, s)
    BY <2>1, <2>4, BeforeTransitive DEF StoresBefore
  <2>6. \A r, s \in B : r[2] < s[2] => GmoBefore(g, r, s)
    <3> SUFFICES ASSUME NEW r \in B, NEW s \in B, r[2] < s[2] PROVE GmoBefore(g, r, s)
      OBVIOUS
    <3>1. Kept(p, r, s)
      BY <2>2 DEF Kept, PoBefore, Kind
    <3>2. r \in Events(p)
      BY <2>2 DEF Events
    <3> QED
      BY <2>2, <3>1, <3>2 DEF Order, Ordered
  <2>7. \A r, s \in B : r = s \/ r[2] < s[2] \/ s[2] < r[2]
    <3> SUFFICES ASSUME NEW r \in B, NEW s \in B, r # s PROVE r[2] < s[2] \/ s[2] < r[2]
      OBVIOUS
    <3>1. r = <<r[1], r[2]>> /\ s = <<s[1], s[2]>> /\ r[1] = s[1]
      BY <2>2
    <3>2. r[2] \in 1 .. 4 /\ s[2] \in 1 .. 4 /\ r[2] # s[2]
      BY <2>2, <3>1
    <3> QED
      BY <3>2
  <2>8. \A r, s \in B : GmoBefore(g, r, s) => ~(s[2] < r[2])
    BY <2>1, <2>6, BeforeStrict
  <2>9. \A r, s \in B : (r = s \/ GmoBefore(g, r, s)) <=> r[2] <= s[2]
    <3> SUFFICES ASSUME NEW r \in B, NEW s \in B
                 PROVE  (r = s \/ GmoBefore(g, r, s)) <=> r[2] <= s[2]
      OBVIOUS
    <3>1. r[2] \in 1 .. 4 /\ s[2] \in 1 .. 4
      BY <2>2
    <3>2. CASE r = s
      BY <3>1, <3>2
    <3>3. CASE r[2] < s[2]
      BY <2>6, <3>1, <3>3
    <3>4. CASE s[2] < r[2]
      <4>1. r # s /\ ~GmoBefore(g, r, s) /\ ~(r[2] <= s[2])
        BY <2>8, <3>1, <3>4
      <4> QED
        BY <4>1
    <3> QED
      BY <2>7, <3>2, <3>3, <3>4
  <2>10. ASSUME NEW s \in visible
         PROVE  (\A r \in visible : r = s \/ GmoBefore(g, r, s))
                  <=> s \in B /\ \A r \in B : r[2] <= s[2]
    <3>1. CASE s \in B
      <4>1. (\A r \in visible : r = s \/ GmoBefore(g, r, s))
              <=> \A r \in B : r = s \/ GmoBefore(g, r, s)
        BY <1>2, <2>5, <3>1
      <4> HIDE DEF B, visible
      <4> QED
        BY <2>9, <3>1, <4>1
    <3>2. CASE s \notin B
      <4>1. s \in P
        BY <1>2, <3>2
      <4>2. PICK b : b \in B
        BY <1>4
      <4>3. b \in visible /\ b # s /\ GmoBefore(g, s, b)
        BY <1>2, <2>5, <3>2, <4>1, <4>2
      <4>4. ~GmoBefore(g, b, s)
        BY <2>1, <4>3, BeforeStrict
      <4> QED
        BY <3>2, <4>3, <4>4
    <3> QED
      BY <3>1, <3>2
  <2>11. {s \in visible : \A r \in visible : r = s \/ GmoBefore(g, r, s)} =
           {s \in B : \A r \in B : r[2] <= s[2]}
    <3> HIDE DEF B, visible, P
    <3> QED
      BY <1>2, <2>10
  <2> QED
    BY <1>1, <1>4, <2>11 DEF Source
<1> QED
  BY <1>3, <1>4

(* A complete order meets the load value axiom's and the preserved program *)
(* order's conditions.                                                     *)
LEMMA CompleteOrder ==
  ASSUME NEW p, NEW g, Order(p, g), ToSet(g) = Events(p)
  PROVE  g \in SetToSeqs(Events(p)) /\ Consistent(p, g)
<1> DEFINE E == Events(p)
           N == Len(g)
<1>1. g \in Seq(E) /\ N \in Nat /\ g \in [1 .. N -> E]
  BY DEF Order
<1>2. \A i, j \in 1 .. N : i # j => g[i] # g[j]
  BY <1>1 DEF Order, Distinct
<1>3. \A e \in E : \E i \in 1 .. N : g[i] = e
  BY <1>1 DEF ToSet
<1>4. Cardinality(E) = N
  <2>1. g \in Bijection(1 .. N, E)
    BY <1>1, <1>2, <1>3 DEF Bijection, Injection, Surjection, IsInjective
  <2>2. ExistsBijection(1 .. N, E)
    BY <2>1 DEF ExistsBijection
  <2> QED
    BY <1>1, <2>2, FS_CountingElements
<1>5. g \in SetToSeqs(E)
  BY <1>1, <1>2, <1>4 DEF SetToSeqs
<1>6. ASSUME NEW d \in E, NEW e \in E, Ppo(p, g, d, e) PROVE GmoBefore(g, d, e)
  <2>1. \A x \in E : Op(p, x).op = "load" \/ Op(p, x).op = "store"
    BY DEF Events, Kind
  <2>2. Kept(p, d, e)
    BY <1>6, <2>1 DEF Ppo, Kept
  <2> QED
    BY <2>2 DEF Order, Ordered
<1> QED
  BY <1>5, <1>6 DEF Consistent

-----------------------------------------------------------------------------
(* The two harts.                                                          *)
LEMMA Others ==
  ASSUME NEW h \in Hart
  PROVE  /\ Other(h) \in Hart /\ Other(h) # h /\ Other(Other(h)) = h
         /\ \A o \in Hart : o = h \/ o = Other(h)
BY DEF Hart, Other

(* Every entry of a cache but the absent one is a datum.                   *)
LEMMA DataOrAbsent == \A v : v \in Data <=> v \in 0 .. Absent /\ v # Absent
BY DEF Data, Absent

(* What a hart reads from the caches is the word's current datum.          *)
LEMMA ReadsHeld ==
  ASSUME Caches, ~Mutated("stale_intervention_data"), NEW h \in Hart, NEW a \in Location
  PROVE  ReadValue(h, a) = Held(a) /\ Held(a) \in Data
<1>1. CASE h = 1
  <2>1. Other(h) = 2 /\ 1 \in Hart /\ 2 \in Hart
    BY <1>1 DEF Other, Hart
  <2>2. /\ memory[a] \in Data
        /\ \A o \in Hart : cache_state[o][a] \in {"I", "S", "M"} /\ cache_data[o][a] \in 0 .. Absent
    BY DEF Caches
  <2>3. /\ \A o \in Hart : /\ cache_state[o][a] = "S" => cache_data[o][a] = memory[a]
                           /\ cache_state[o][a] # "I" => cache_data[o][a] # Absent
        /\ cache_state[1][a] = "M" => cache_state[2][a] = "I"
        /\ cache_state[2][a] = "M" => cache_state[1][a] = "I"
    BY <1>1, <2>1, Others DEF Caches
  <2>4. \A o \in Hart : cache_state[o][a] # "I" => cache_data[o][a] \in Data
    BY <2>2, <2>3, DataOrAbsent
  <2> QED
    BY <1>1, <2>1, <2>2, <2>3, <2>4 DEF ReadValue, Held, Intervenes
<1>2. CASE h = 2
  <2>1. Other(h) = 1 /\ 1 \in Hart /\ 2 \in Hart
    BY <1>2 DEF Other, Hart
  <2>2. /\ memory[a] \in Data
        /\ \A o \in Hart : cache_state[o][a] \in {"I", "S", "M"} /\ cache_data[o][a] \in 0 .. Absent
    BY DEF Caches
  <2>3. /\ \A o \in Hart : /\ cache_state[o][a] = "S" => cache_data[o][a] = memory[a]
                           /\ cache_state[o][a] # "I" => cache_data[o][a] # Absent
        /\ cache_state[2][a] = "M" => cache_state[1][a] = "I"
        /\ cache_state[1][a] = "M" => cache_state[2][a] = "I"
    BY <1>2, <2>1, Others DEF Caches
  <2>4. \A o \in Hart : cache_state[o][a] # "I" => cache_data[o][a] \in Data
    BY <2>2, <2>3, DataOrAbsent
  <2> QED
    BY <1>2, <2>1, <2>2, <2>3, <2>4 DEF ReadValue, Held, Intervenes
<1> QED
  BY <1>1, <1>2 DEF Hart

(* A read leaves the caches coherent and changes no word's datum ...       *)
LEMMA ReadKeeps ==
  ASSUME Caches, ~Mutated("stale_intervention_data"), NEW h \in Hart, NEW a \in Location,
         CoherentRead(h, a)
  PROVE  Caches' /\ \A b \in Location : Held(b)' = Held(b)
<1> DEFINE o == Other(h)
           v == ReadValue(h, a)
<1>1. /\ o \in Hart /\ o # h /\ Other(o) = h /\ \A c \in Hart : c = h \/ c = o
  BY Others
<1>2. /\ memory \in [Location -> Data] /\ cache_state \in [Hart -> [Location -> {"I", "S", "M"}]]
      /\ cache_data \in [Hart -> [Location -> 0 .. Absent]]
      /\ \A c \in Hart, b \in Location :
           /\ cache_state[c][b] = "M" => cache_state[Other(c)][b] = "I"
           /\ cache_state[c][b] = "S" => cache_data[c][b] = memory[b]
           /\ cache_state[c][b] # "I" => cache_data[c][b] # Absent
  BY DEF Caches
<1>3. v \in Data /\ v \in 0 .. Absent /\ v # Absent
  BY ReadsHeld, DataOrAbsent
<1>4. v = IF cache_state[h][a] # "I" THEN cache_data[h][a]
          ELSE IF cache_state[o][a] = "M" THEN cache_data[o][a] ELSE memory[a]
  BY DEF ReadValue, Intervenes
<1> HIDE DEF v
<1>5. /\ cache_data' = [cache_data EXCEPT ![h][a] = v]
      /\ memory' = IF cache_state[h][a] = "I" /\ cache_state[o][a] = "M"
                   THEN [memory EXCEPT ![a] = cache_data[o][a]] ELSE memory
      /\ cache_state' = IF cache_state[h][a] # "I" THEN cache_state
                        ELSE [cache_state EXCEPT ![h][a] = "S",
                                ![o][a] = IF @ = "M" THEN "S" ELSE @]
  BY DEF CoherentRead, Intervenes, v
<1> HIDE DEF o
<1>6. /\ cache_state' \in [Hart -> [Location -> {"I", "S", "M"}]]
      /\ \A c \in Hart, b \in Location : b # a => cache_state'[c][b] = cache_state[c][b]
      /\ cache_state'[h][a] = IF cache_state[h][a] # "I" THEN cache_state[h][a] ELSE "S"
      /\ cache_state'[o][a] = IF cache_state[h][a] = "I" /\ cache_state[o][a] = "M" THEN "S"
                              ELSE cache_state[o][a]
  <2>1. CASE cache_state[h][a] # "I"
    BY <1>1, <1>2, <1>5, <2>1
  <2>2. CASE cache_state[h][a] = "I"
    <3>1. PICK w \in {"I", "S", "M"} :
            w = IF cache_state[o][a] = "M" THEN "S" ELSE cache_state[o][a]
      BY <1>1, <1>2
    <3>2. cache_state' = [cache_state EXCEPT ![h][a] = "S", ![o][a] = w]
      <4>1. [cache_state EXCEPT ![h][a] = "S"][o][a] = cache_state[o][a]
        BY <1>1, <1>2
      <4> QED
        BY <1>1, <1>2, <1>5, <2>2, <3>1, <4>1
    <3> QED
      BY <1>1, <1>2, <2>2, <3>1, <3>2
  <2> QED
    BY <2>1, <2>2
<1>7. /\ cache_data' \in [Hart -> [Location -> 0 .. Absent]]
      /\ \A c \in Hart, b \in Location : b # a => cache_data'[c][b] = cache_data[c][b]
      /\ cache_data'[h][a] = v /\ cache_data'[o][a] = cache_data[o][a]
  BY <1>1, <1>2, <1>3, <1>5
<1>8. /\ cache_state[h][a] = "I" /\ cache_state[o][a] = "M" => v = cache_data[o][a]
      /\ memory' \in [Location -> Data]
      /\ \A b \in Location : b # a => memory'[b] = memory[b]
      /\ memory'[a] = IF cache_state[h][a] = "I" /\ cache_state[o][a] = "M"
                      THEN cache_data[o][a] ELSE memory[a]
  BY <1>1, <1>2, <1>3, <1>4, <1>5
<1>9. ASSUME NEW c \in Hart, NEW b \in Location
      PROVE  /\ cache_state'[c][b] = "M" => cache_state'[Other(c)][b] = "I"
             /\ cache_state'[c][b] = "S" => cache_data'[c][b] = memory'[b]
             /\ cache_state'[c][b] # "I" => cache_data'[c][b] # Absent
  <2>1. CASE b # a
    <3>1. Other(c) \in Hart
      BY Others
    <3>2. /\ cache_state'[c][b] = cache_state[c][b] /\ cache_data'[c][b] = cache_data[c][b]
          /\ cache_state'[Other(c)][b] = cache_state[Other(c)][b] /\ memory'[b] = memory[b]
      BY <1>6, <1>7, <1>8, <2>1, <3>1
    <3> QED
      BY <1>2, <3>2
  <2>2. CASE b = a /\ c = h
    <3>1. Other(c) = o
      BY <2>2 DEF o
    <3>2. cache_state[h][a] = "M" => cache_state[o][a] = "I"
      BY <1>2, <3>1, <2>2
    <3> QED
      BY <1>2, <1>3, <1>4, <1>6, <1>7, <1>8, <2>2, <3>1, <3>2
  <2>3. CASE b = a /\ c = o
    <3>1. Other(c) = h
      BY <1>1, <2>3
    <3>2. cache_state[o][a] = "M" => cache_state[h][a] = "I"
      BY <1>2, <3>1, <2>3
    <3> QED
      BY <1>2, <1>3, <1>4, <1>6, <1>7, <1>8, <2>3, <3>1, <3>2
  <2> QED
    BY <1>1, <2>1, <2>2, <2>3
<1>10. Caches'
  BY <1>6, <1>7, <1>8, <1>9 DEF Caches
<1>11. ASSUME NEW b \in Location PROVE Held(b)' = Held(b)
  <2>1. CASE b # a
    <3>1. 1 \in Hart /\ 2 \in Hart
      BY DEF Hart
    <3> QED
      BY <1>6, <1>7, <1>8, <2>1, <3>1 DEF Held
  <2>2. CASE b = a
    <3>1. cache_state[h][a] = "M" => cache_state[o][a] = "I"
      BY <1>2 DEF o
    <3>2. \/ h = 1 /\ o = 2
          \/ h = 2 /\ o = 1
      BY <1>1 DEF Hart
    <3> QED
      BY <1>2, <1>4, <1>6, <1>7, <1>8, <2>2, <3>1, <3>2 DEF Held
  <2> QED
    BY <2>1, <2>2
<1> QED
  BY <1>10, <1>11

(* ... a write changes that of its word.                                   *)
LEMMA WriteKeeps ==
  ASSUME Caches, Unmutated, NEW h \in Hart, NEW a \in Location, NEW v \in Data,
         CoherentWrite(h, a, v)
  PROVE  Caches' /\ \A b \in Location : Held(b)' = IF b = a THEN v ELSE Held(b)
<1> DEFINE o == Other(h)
<1>1. /\ o \in Hart /\ o # h /\ Other(o) = h /\ \A c \in Hart : c = h \/ c = o
  BY Others
<1>2. /\ memory \in [Location -> Data] /\ cache_state \in [Hart -> [Location -> {"I", "S", "M"}]]
      /\ cache_data \in [Hart -> [Location -> 0 .. Absent]]
      /\ \A c \in Hart, b \in Location :
           /\ cache_state[c][b] = "M" => cache_state[Other(c)][b] = "I"
           /\ cache_state[c][b] = "S" => cache_data[c][b] = memory[b]
           /\ cache_state[c][b] # "I" => cache_data[c][b] # Absent
  BY DEF Caches
<1>3. v \in 0 .. Absent /\ v # Absent
  BY DataOrAbsent
<1>4. /\ cache_data' = [cache_data EXCEPT ![h][a] = v]
      /\ memory' = IF cache_state[o][a] = "M"
                   THEN [memory EXCEPT ![a] = cache_data[o][a]] ELSE memory
      /\ cache_state' = [cache_state EXCEPT ![h][a] = "M", ![o][a] = "I"]
  BY NotAMutation DEF CoherentWrite, Unmutated, Mutated
<1> HIDE DEF o
<1>5. /\ cache_state' \in [Hart -> [Location -> {"I", "S", "M"}]]
      /\ \A c \in Hart, b \in Location : b # a => cache_state'[c][b] = cache_state[c][b]
      /\ cache_state'[h][a] = "M" /\ cache_state'[o][a] = "I"
  BY <1>1, <1>2, <1>4
<1>6. /\ cache_data' \in [Hart -> [Location -> 0 .. Absent]]
      /\ \A c \in Hart, b \in Location : b # a => cache_data'[c][b] = cache_data[c][b]
      /\ cache_data'[h][a] = v
  BY <1>1, <1>2, <1>3, <1>4
<1>7. /\ memory' \in [Location -> Data]
      /\ \A b \in Location : b # a => memory'[b] = memory[b]
  <2>1. cache_state[o][a] = "M" => cache_data[o][a] \in Data
    <3>1. cache_data[o][a] \in 0 .. Absent
      BY <1>1, <1>2
    <3>2. cache_state[o][a] # "I" => cache_data[o][a] # Absent
      BY <1>1, <1>2
    <3> QED
      BY <3>1, <3>2, DataOrAbsent
  <2> QED
    BY <1>2, <1>4, <2>1
<1>8. ASSUME NEW c \in Hart, NEW b \in Location
      PROVE  /\ cache_state'[c][b] = "M" => cache_state'[Other(c)][b] = "I"
             /\ cache_state'[c][b] = "S" => cache_data'[c][b] = memory'[b]
             /\ cache_state'[c][b] # "I" => cache_data'[c][b] # Absent
  <2>1. CASE b # a
    <3>1. Other(c) \in Hart
      BY Others
    <3>2. /\ cache_state'[c][b] = cache_state[c][b] /\ cache_data'[c][b] = cache_data[c][b]
          /\ cache_state'[Other(c)][b] = cache_state[Other(c)][b] /\ memory'[b] = memory[b]
      BY <1>5, <1>6, <1>7, <2>1, <3>1
    <3> QED
      BY <1>2, <3>2
  <2>2. CASE b = a /\ c = h
    <3>1. Other(c) = o
      BY <2>2 DEF o
    <3> QED
      BY <1>3, <1>5, <1>6, <2>2, <3>1
  <2>3. CASE b = a /\ c = o
    BY <1>5, <2>3
  <2> QED
    BY <1>1, <2>1, <2>2, <2>3
<1>9. Caches'
  BY <1>5, <1>6, <1>7, <1>8 DEF Caches
<1>10. ASSUME NEW b \in Location PROVE Held(b)' = IF b = a THEN v ELSE Held(b)
  <2>1. CASE b # a
    <3>1. 1 \in Hart /\ 2 \in Hart
      BY DEF Hart
    <3> QED
      BY <1>5, <1>6, <1>7, <2>1, <3>1 DEF Held
  <2>2. CASE b = a
    <3>1. \/ h = 1 /\ o = 2
          \/ h = 2 /\ o = 1
      BY <1>1 DEF Hart
    <3> QED
      BY <1>5, <1>6, <2>2, <3>1 DEF Held
  <2> QED
    BY <2>1, <2>2
<1> QED
  BY <1>9, <1>10

-----------------------------------------------------------------------------
(* What a step of one hart leaves as it was.                               *)
LEMMA OtherHart ==
  ASSUME NEW p, NEW g, NEW g2, NEW x, Follows(Events(p), g, g2, x), NEW o, x[1] # o,
         NEW s, NEW n, HartExplained(p, g, o, s, n),
         pc'[o] = pc[o], buffers'[o] = buffers[o]
  PROVE  HartExplained(p, g2, o, s, n)'
<1>1. HartOrder(p, g2, o, s, n)
  BY OtherHartOrder DEF HartExplained
<1> QED
  BY <1>1 DEF HartExplained

(* Hart h executes the next instruction of its program, after n others.    *)
Executing(p, h, n, kind) ==
  /\ n \in Nat /\ n + 1 \in 1 .. Len(p[h]) /\ n < Len(p[h]) /\ Len(p[h]) \in 0 .. 4
  /\ Current(h) = p[h][n + 1] /\ p[h][n + 1].op = kind
  /\ pc[h] = n + 1 /\ pc'[h] = (n + 1) + 1
  /\ \A o \in Hart : o # h => pc'[o] = pc[o]

LEMMA Executes ==
  ASSUME NEW p, WellFormed(p), run.program = p, pc \in [Hart -> Nat], NEW g, NEW h \in Hart,
         NEW s, NEW n, HartExplained(p, g, h, s, n), NEW kind, Execute(h, kind)
  PROVE  Executing(p, h, n, kind)
<1>1. n \in 0 .. Len(p[h]) /\ Len(p[h]) \in 0 .. 4 /\ pc[h] = n + 1
  BY DEF HartExplained, HartOrder, WellFormed
<1>2. /\ pc[h] <= Len(p[h]) /\ p[h][pc[h]].op = kind /\ Current(h) = p[h][pc[h]]
      /\ pc' = [pc EXCEPT ![h] = @ + 1]
  BY DEF Execute, Running, Current
<1>3. pc'[h] = pc[h] + 1 /\ \A o \in Hart : o # h => pc'[o] = pc[o]
  BY <1>2
<1> QED
  BY <1>1, <1>2, <1>3 DEF Executing

(* No other instruction is a load.                                         *)
LEMMA NotLoad ==
  ASSUME NEW p, NEW h, NEW k, p[h][k].op # "load"
  PROVE  <<h, k>> \notin Kind(p, "load")
BY DEF Kind, Op

(* A load that is not next has been executed before as after the step.     *)
LEMMA Executed ==
  ASSUME NEW p, WellFormed(p), run.program = p, pc \in [Hart -> Nat], NEW g, NEW h \in Hart,
         NEW s, NEW n, HartExplained(p, g, h, s, n), NEW kind, Execute(h, kind),
         NEW e \in Kind(p, "load"), e # <<h, n + 1>>
  PROVE  e[2] < pc'[e[1]] <=> e[2] < pc[e[1]]
<1>1. /\ e \in {1, 2} \X (1 .. 4) /\ e[1] \in Hart /\ e[2] \in 1 .. 4 /\ e = <<e[1], e[2]>>
  BY DEF Kind, Hart
<1>2. /\ n \in Nat /\ pc[h] = n + 1 /\ pc'[h] = (n + 1) + 1
      /\ \A o \in Hart : o # h => pc'[o] = pc[o]
  <2>1. Executing(p, h, n, kind)
    BY Executes
  <2> QED
    BY <2>1 DEF Executing
<1>3. CASE e[1] # h
  BY <1>1, <1>2, <1>3
<1>4. CASE e[1] = h
  <2>1. e[2] # n + 1
    BY <1>1, <1>4
  <2>2. PICK k \in 1 .. 4 : k = e[2]
    BY <1>1
  <2>3. k < (n + 1) + 1 <=> k < n + 1
    BY <1>2, <2>1, <2>2
  <2> QED
    BY <1>2, <1>4, <2>2, <2>3
<1> QED
  BY <1>3, <1>4

(* An executed load has been performed.                                    *)
LEMMA LoadIsIn ==
  ASSUME NEW p, WellFormed(p), NEW g, Explained(p, g), NEW e \in Kind(p, "load"),
         e[2] < pc[e[1]]
  PROVE  e \in ToSet(g)
<1>1. PICK h \in Hart, k \in 1 .. 4 : e = <<h, k>> /\ k <= Len(p[h]) /\ p[h][k].op = "load"
  BY DEF Kind, Op, Hart
<1>2. PICK s \in Seq(1 .. 4), n \in 0 .. 4 : HartExplained(p, g, h, s, n)
  BY DEF Explained
<1>3. k <= n
  BY <1>1, <1>2 DEF HartExplained
<1>4. \A i \in DOMAIN s : s[i] # k
  BY <1>1, <1>2 DEF HartExplained, HartOrder, Positions
<1>5. k \in 1 .. Len(p[h])
  BY <1>1 DEF WellFormed
<1> QED
  BY <1>1, <1>2, <1>3, <1>4, <1>5 DEF HartExplained, HartOrder, InMemory

(* A step that executes no load leaves the registers explained.            *)
LEMMA ValuesStay ==
  ASSUME NEW p, WellFormed(p), NEW g, Explained(p, g), NEW g2,
         \A e \in ToSet(g) : Source(p, g2, e) = Source(p, g, e),
         registers' = registers,
         \A e \in Kind(p, "load") : e[2] < pc'[e[1]] <=> e[2] < pc[e[1]]
  PROVE  LoadsExplained(p, g2)'
<1>1. \A e \in DOMAIN registers : e \in ToSet(g)
  BY LoadIsIn DEF Explained, LoadsExplained
<1> QED
  BY <1>1 DEF Explained, LoadsExplained

(* A store enters its hart's buffer ...                                    *)
LEMMA StoreExplains ==
  ASSUME NEW p, WellFormed(p), run.program = p, pc \in [Hart -> Nat],
         buffers = [o \in Hart |-> buffers[o]],
         NEW g, Explained(p, g), NEW h \in Hart, Store(h)
  PROVE  Explained(p, g)'
<1>1. PICK s \in Seq(1 .. 4), n \in 0 .. 4 : HartExplained(p, g, h, s, n)
  BY DEF Explained
<1>2. Execute(h, "store")
  BY DEF Store
<1>3. /\ n \in Nat /\ n + 1 \in 1 .. Len(p[h]) /\ n < Len(p[h]) /\ Len(p[h]) \in 0 .. 4
      /\ Current(h) = p[h][n + 1] /\ p[h][n + 1].op = "store" /\ pc'[h] = (n + 1) + 1
      /\ \A o \in Hart : o # h => pc'[o] = pc[o]
  <2>1. Executing(p, h, n, "store")
    BY <1>1, <1>2, Executes
  <2> QED
    BY <2>1 DEF Executing
<1>4. /\ buffers'[h] = Append(buffers[h], p[h][n + 1]) /\ Len(buffers[h]) < 2
      /\ \A o \in Hart : o # h => buffers'[o] = buffers[o]
  BY <1>3 DEF Store
<1>5. /\ HartOrder(p, g, h, s, n) /\ Entries(p, h, s, buffers[h]) /\ Len(buffers[h]) \in 0 .. 2
      /\ n + 1 \in 1 .. 4
  BY <1>1, <1>3 DEF HartExplained
<1>6. /\ HartOrder(p, g, h, Append(s, n + 1), n + 1)
      /\ Entries(p, h, Append(s, n + 1), Append(buffers[h], p[h][n + 1]))
  BY <1>3, <1>5, EnqueueOrder, EntriesAppend
<1>7. HartExplained(p, g, h, Append(s, n + 1), n + 1)'
  <2>1. Len(Append(buffers[h], p[h][n + 1])) = Len(buffers[h]) + 1
    BY <1>5 DEF Entries
  <2> QED
    BY <1>3, <1>4, <1>5, <1>6, <2>1 DEF HartExplained
<1>8. ASSUME NEW o \in Hart
      PROVE  (\E t \in Seq(1 .. 4), m \in 0 .. 4 : HartExplained(p, g, o, t, m))'
  <2>1. CASE o = h
    <3>1. Append(s, n + 1) \in Seq(1 .. 4) /\ n + 1 \in 0 .. 4
      BY <1>5
    <3> QED
      BY <1>7, <2>1, <3>1
  <2>2. CASE o # h
    BY <1>3, <1>4, <2>2 DEF Explained, HartExplained
  <2> QED
    BY <2>1, <2>2
<1>9. LoadsExplained(p, g)'
  <2>1. \A e \in Kind(p, "load") : e # <<h, n + 1>>
    BY <1>3, NotLoad
  <2>2. \A e \in Kind(p, "load") : e[2] < pc'[e[1]] <=> e[2] < pc[e[1]]
    BY <1>1, <1>2, <2>1, Executed
  <2>3. registers' = registers
    BY DEF Store
  <2> QED
    BY <2>2, <2>3, ValuesStay
<1>10. \A a \in Location : Held(a)' = ValueOf(p, Latest(p, g, a))
  BY DEF Explained, Store, shared, Held
<1> QED
  BY <1>8, <1>9, <1>10 DEF Explained

(* ... a FENCE waits for an empty buffer ...                               *)
LEMMA FenceExplains ==
  ASSUME NEW p, WellFormed(p), run.program = p, pc \in [Hart -> Nat], Unmutated,
         NEW g, Explained(p, g), NEW h \in Hart, Fence(h)
  PROVE  Explained(p, g)' /\ seen' = seen
<1>1. PICK s \in Seq(1 .. 4), n \in 0 .. 4 : HartExplained(p, g, h, s, n)
  BY DEF Explained
<1>2. Execute(h, "fence")
  BY DEF Fence
<1>3. /\ n \in Nat /\ n + 1 \in 1 .. Len(p[h]) /\ n < Len(p[h]) /\ Len(p[h]) \in 0 .. 4
      /\ p[h][n + 1].op = "fence" /\ pc'[h] = (n + 1) + 1
      /\ \A o \in Hart : o # h => pc'[o] = pc[o]
  <2>1. Executing(p, h, n, "fence")
    BY <1>1, <1>2, Executes
  <2> QED
    BY <2>1 DEF Executing
<1>4. buffers[h] = <<>> /\ seen' = seen /\ buffers' = buffers
  BY NotAMutation DEF Fence, Unmutated, Mutated
<1>5. HartOrder(p, g, h, s, n + 1)
  <2>1. s = <<>>
    <3>1. Len(s) = 0
      BY <1>1, <1>4 DEF HartExplained, Entries
    <3>2. DOMAIN s = {}
      BY <3>1
    <3> QED
      BY <3>2
  <2> QED
    BY <1>1, <1>3, <2>1, FenceOrder DEF HartExplained
<1>6. ASSUME NEW o \in Hart
      PROVE  (\E t \in Seq(1 .. 4), m \in 0 .. 4 : HartExplained(p, g, o, t, m))'
  <2>1. CASE o = h
    <3>1. HartExplained(p, g, h, s, n + 1)'
      BY <1>1, <1>3, <1>4, <1>5 DEF HartExplained
    <3>2. n + 1 \in 0 .. 4
      BY <1>3
    <3> QED
      BY <2>1, <3>1, <3>2
  <2>2. CASE o # h
    BY <1>3, <1>4, <2>2 DEF Explained, HartExplained
  <2> QED
    BY <2>1, <2>2
<1>7. LoadsExplained(p, g)'
  <2>1. \A e \in Kind(p, "load") : e # <<h, n + 1>>
    BY <1>3, NotLoad
  <2>2. \A e \in Kind(p, "load") : e[2] < pc'[e[1]] <=> e[2] < pc[e[1]]
    BY <1>1, <1>2, <2>1, Executed
  <2>3. registers' = registers
    BY DEF Fence
  <2> QED
    BY <2>2, <2>3, ValuesStay
<1>8. \A a \in Location : Held(a)' = ValueOf(p, Latest(p, g, a))
  BY DEF Explained, Fence, shared, Held
<1> QED
  BY <1>4, <1>6, <1>7, <1>8 DEF Explained

(* A load's value: the newest buffered store to its word, or the word's    *)
(* current datum.                                                          *)
LEMMA NewestMatch ==
  ASSUME NEW h, NEW a, Len(buffers[h]) \in 0 .. 2, DOMAIN buffers[h] = 1 .. Len(buffers[h]),
         Matching(h, a) # {}
  PROVE  \E m \in Matching(h, a) : /\ \A n \in Matching(h, a) : n <= m
                                   /\ Forward(h, a) = buffers[h][m].data
<1>1. Matching(h, a) \subseteq {1, 2}
  BY DEF Matching
<1>2. \E m \in Matching(h, a) : \A n \in Matching(h, a) : n <= m
  <2>1. CASE 2 \in Matching(h, a)
    BY <1>1, <2>1
  <2>2. CASE 2 \notin Matching(h, a)
    BY <1>1, <2>2
  <2> QED
    BY <2>1, <2>2
<1>3. PICK m : m = CHOOSE k \in Matching(h, a) : \A n \in Matching(h, a) : n <= k
  OBVIOUS
<1>4. m \in Matching(h, a) /\ \A n \in Matching(h, a) : n <= m
  BY <1>2, <1>3
<1> QED
  BY <1>3, <1>4 DEF Forward

(* The value that a load returns.                                          *)
Loaded(h) == IF Forwarded(h) THEN Forward(h, Current(h).addr) ELSE ReadValue(h, Current(h).addr)

LEMMA LoadReturns ==
  ASSUME NEW p, WellFormed(p), run.program = p, pc \in [Hart -> Nat], Unmutated, Caches,
         NEW g, Explained(p, g), NEW h \in Hart, Execute(h, "load"),
         NEW s \in Seq(1 .. 4), NEW n, HartExplained(p, g, h, s, n),
         NEW g2, Follows(Events(p), g, g2, <<h, n + 1>>)
  PROVE  Loaded(h) = ValueOf(p, Source(p, g2, <<h, n + 1>>))
<1> DEFINE k == n + 1
           a == p[h][k].addr
<1>1. /\ n \in Nat /\ k \in 1 .. Len(p[h]) /\ Current(h) = p[h][k] /\ p[h][k].op = "load"
      /\ a \in Location
  <2>1. Executing(p, h, n, "load")
    BY Executes
  <2> QED
    BY <2>1 DEF Executing, WellFormed
<1>2. /\ HartOrder(p, g, h, s, n) /\ Len(buffers[h]) \in 0 .. 2 /\ Len(buffers[h]) = Len(s)
      /\ DOMAIN buffers[h] = 1 .. Len(buffers[h]) /\ DOMAIN s = DOMAIN buffers[h]
      /\ \A i \in DOMAIN s : buffers[h][i] = p[h][s[i]]
  BY DEF HartExplained, Entries
<1>3. PICK l \in 1 .. Len(p[h]) : l = k
  BY <1>1
<1>4. \A i : i \in Matching(h, a) <=> i \in DOMAIN s /\ p[h][s[i]].addr = p[h][l].addr
  BY <1>2, <1>3 DEF Matching
<1> HIDE DEF k, a
<1>5. CASE Matching(h, a) # {}
  <2>1. PICK i \in Matching(h, a) : /\ \A j \in Matching(h, a) : j <= i
                                    /\ Forward(h, a) = buffers[h][i].data
    BY <1>2, <1>5, NewestMatch
  <2>2. Serves(p, h, s, l, i)
    BY <1>4, <2>1 DEF Serves
  <2>3. Source(p, g2, <<h, l>>) = {<<h, s[i]>>}
    BY <1>1, <1>2, <1>3, <2>2, ForwardSource DEF k
  <2>4. Op(p, <<h, s[i]>>).data = p[h][s[i]].data
    BY DEF Op
  <2>5. Loaded(h) = Forward(h, a)
    BY <1>1, <1>5, NotAMutation DEF Loaded, Forwarded, Unmutated, Mutated, a
  <2>6. buffers[h][i] = p[h][s[i]]
    BY <1>2, <1>4, <2>1
  <2>7. ValueOf(p, {<<h, s[i]>>}) = Op(p, <<h, s[i]>>).data
    BY ValueOfOne
  <2> QED
    BY <1>3, <2>1, <2>3, <2>4, <2>5, <2>6, <2>7 DEF k
<1>6. CASE Matching(h, a) = {}
  <2>1. \A i \in DOMAIN s : p[h][s[i]].addr # p[h][l].addr
    BY <1>4, <1>6
  <2>2. Source(p, g2, <<h, l>>) = Latest(p, g, a)
    <3>1. /\ l = n + 1 /\ p[h][l].op = "load" /\ HartOrder(p, g, h, s, n)
          /\ Follows(Events(p), g, g2, <<h, l>>)
      BY <1>1, <1>2, <1>3 DEF k
    <3>2. Source(p, g2, <<h, l>>) = Latest(p, g, p[h][l].addr)
      BY <2>1, <3>1, MissSource
    <3> QED
      BY <1>3, <3>2 DEF a, k
  <2>3. Loaded(h) = ReadValue(h, a)
    BY <1>1, <1>6 DEF Loaded, Forwarded, a
  <2>4. ReadValue(h, a) = Held(a)
    <3>1. ~Mutated("stale_intervention_data")
      BY NotAMutation DEF Unmutated, Mutated
    <3> QED
      BY <1>1, <3>1, ReadsHeld
  <2>5. Held(a) = ValueOf(p, Latest(p, g, a))
    BY <1>1 DEF Explained
  <2> QED
    BY <1>3, <2>2, <2>3, <2>4, <2>5 DEF k
<1> QED
  BY <1>5, <1>6

(* ... a load comes last in the order so far ...                           *)
LEMMA LoadExplains ==
  ASSUME NEW p, WellFormed(p), run.program = p, pc \in [Hart -> Nat], Unmutated, Caches,
         NEW g, Explained(p, g), NEW h \in Hart, Load(h)
  PROVE  /\ \E g2 \in Seq(Events(p)) : Explained(p, g2)'
         /\ Caches' /\ ("fence over a store" \notin seen => "fence over a store" \notin seen')
<1>1. PICK s \in Seq(1 .. 4), n \in 0 .. 4 : HartExplained(p, g, h, s, n)
  BY DEF Explained
<1>2. Execute(h, "load")
  BY DEF Load
<1>3. /\ n \in Nat /\ n + 1 \in 1 .. Len(p[h]) /\ n < Len(p[h]) /\ Len(p[h]) \in 0 .. 4
      /\ Current(h) = p[h][n + 1] /\ p[h][n + 1].op = "load"
      /\ pc[h] = n + 1 /\ pc'[h] = (n + 1) + 1
      /\ \A o \in Hart : o # h => pc'[o] = pc[o]
  <2>1. Executing(p, h, n, "load")
    BY <1>1, <1>2, Executes
  <2> QED
    BY <2>1 DEF Executing
<1> DEFINE x == <<h, n + 1>>
<1>4. PICK g2 : /\ Follows(Events(p), g, g2, x)
                /\ Order(p, g2)
                /\ HartOrder(p, g2, h, s, n + 1)
  BY <1>1, <1>3, LoadOrder DEF HartExplained, Explained
<1>5. Loaded(h) = ValueOf(p, Source(p, g2, x))
  BY <1>1, <1>2, <1>4, LoadReturns
<1>6. registers' = [e \in DOMAIN registers \cup {x} |->
                      IF e = x THEN Loaded(h) ELSE registers[e]]
  BY <1>3 DEF Load, Loaded
<1>7. x \in Kind(p, "load") /\ x[1] = h /\ x[2] = n + 1
  BY <1>3 DEF Kind, Op, Hart
<1> HIDE DEF x
<1>8. ASSUME NEW o \in Hart
      PROVE  (\E t \in Seq(1 .. 4), m \in 0 .. 4 : HartExplained(p, g2, o, t, m))'
  <2>1. CASE o = h
    <3>1. HartExplained(p, g2, h, s, n + 1)'
      BY <1>1, <1>3, <1>4 DEF HartExplained, Load
    <3>2. n + 1 \in 0 .. 4
      BY <1>3
    <3> QED
      BY <2>1, <3>1, <3>2
  <2>2. CASE o # h
    <3>1. PICK t \in Seq(1 .. 4), m \in 0 .. 4 : HartExplained(p, g, o, t, m)
      BY DEF Explained
    <3>2. x[1] # o /\ pc'[o] = pc[o] /\ buffers'[o] = buffers[o]
      BY <1>3, <1>7, <2>2 DEF Load
    <3>3. HartExplained(p, g2, o, t, m)'
      BY <1>4, <3>1, <3>2, OtherHart
    <3> QED
      BY <3>3
  <2> QED
    BY <2>1, <2>2
<1>9. LoadsExplained(p, g2)'
  <2>1. ASSUME NEW e
        PROVE  e \in DOMAIN registers \cup {x} <=> e \in Kind(p, "load") /\ e[2] < pc'[e[1]]
    <3>1. CASE e = x
      <4>1. n + 1 < (n + 1) + 1
        BY <1>3
      <4> QED
        BY <1>3, <1>7, <3>1, <4>1
    <3>2. CASE e # x
      <4>1. e \in Kind(p, "load") => (e[2] < pc'[e[1]] <=> e[2] < pc[e[1]])
        BY <1>1, <1>2, <3>2, Executed DEF x
      <4>2. e \in DOMAIN registers <=> e \in Kind(p, "load") /\ e[2] < pc[e[1]]
        BY DEF Explained, LoadsExplained
      <4> QED
        BY <3>2, <4>1, <4>2
    <3> QED
      BY <3>1, <3>2
  <2>2. ASSUME NEW e \in DOMAIN registers
        PROVE  e # x /\ registers[e] = ValueOf(p, Source(p, g2, e))
    <3>1. /\ e \in Kind(p, "load") /\ e[2] < pc[e[1]]
          /\ registers[e] = ValueOf(p, Source(p, g, e))
      BY DEF Explained, LoadsExplained
    <3>2. e \in ToSet(g)
      BY <3>1, LoadIsIn
    <3>3. e # x
      BY <1>4, <3>2 DEF Follows
    <3> QED
      BY <1>4, <3>1, <3>2, <3>3, SourceStays
  <2>3. DOMAIN registers' = DOMAIN registers \cup {x}
    BY <1>6
  <2>4. \A e \in DOMAIN registers' : registers'[e] = ValueOf(p, Source(p, g2, e))
    BY <1>5, <1>6, <2>2, <2>3
  <2>5. registers' = [e \in DOMAIN registers' |-> registers'[e]]
    BY <1>6, <2>3
  <2> QED
    BY <2>1, <2>3, <2>4, <2>5 DEF LoadsExplained
<1>10. Caches' /\ \A b \in Location : Held(b)' = Held(b)
  <2>1. CASE Forwarded(h)
    BY <2>1 DEF Load, shared, Caches, Held
  <2>2. CASE ~Forwarded(h)
    <3>1. Current(h).addr \in Location
      BY <1>3 DEF WellFormed
    <3>2. CoherentRead(h, Current(h).addr)
      BY <2>2 DEF Load
    <3>3. ~Mutated("stale_intervention_data")
      BY NotAMutation DEF Unmutated, Mutated
    <3> QED
      BY <3>1, <3>2, <3>3, ReadKeeps
  <2> QED
    BY <2>1, <2>2
<1>11. \A b \in Location : Held(b)' = ValueOf(p, Latest(p, g2, b))
  <2>1. x \notin Kind(p, "store")
    BY <1>3, <1>7 DEF Kind, Op
  <2>2. ASSUME NEW b \in Location PROVE Latest(p, g2, b) = Latest(p, g, b)
    <3>1. x \notin StoresTo(p, g2, b)
      BY <2>1 DEF StoresTo
    <3> QED
      BY <1>4, <3>1, LatestStays
  <2> QED
    BY <1>10, <2>2 DEF Explained
<1>12. Explained(p, g2)'
  BY <1>4, <1>8, <1>9, <1>11 DEF Explained
<1>13. "fence over a store" \notin seen => "fence over a store" \notin seen'
  <2>1. CASE Forwarded(h)
    BY <2>1 DEF Load
  <2>2. CASE ~Forwarded(h)
    <3>1. PICK S \in {{"read other than 9"}, {}} : seen' = seen \cup {"load not forwarded"} \cup S
      BY <2>2 DEF Load
    <3> QED
      BY <3>1
  <2> QED
    BY <2>1, <2>2
<1>14. g2 \in Seq(Events(p))
  BY <1>4 DEF Order
<1> QED
  BY <1>10, <1>12, <1>13, <1>14

(* ... no load raises an error ...                                         *)
LEMMA NothingRaised ==
  ASSUME NEW p, WellFormed(p), run.program = p, pc \in [Hart -> Nat], Unmutated, Caches,
         NEW g, Explained(p, g), NEW h \in Hart
  PROVE  ~LoadRaises(h)
<1> SUFFICES ASSUME LoadRaises(h) PROVE FALSE
  OBVIOUS
<1>1. PICK s \in Seq(1 .. 4), n \in 0 .. 4 : HartExplained(p, g, h, s, n)
  BY DEF Explained
<1>2. Execute(h, "load") /\ ReadValue(h, Current(h).addr) = Absent
  BY DEF LoadRaises
<1>3. Current(h).addr \in Location
  <2>1. Executing(p, h, n, "load")
    BY <1>1, <1>2, Executes
  <2> QED
    BY <2>1 DEF Executing, WellFormed
<1>4. ~Mutated("stale_intervention_data")
  BY NotAMutation DEF Unmutated, Mutated
<1> QED
  BY <1>2, <1>3, <1>4, ReadsHeld, DataOrAbsent

(* ... and so does a store when it drains.                                 *)
LEMMA DrainExplains ==
  ASSUME NEW p, WellFormed(p), run.program = p, Unmutated, Caches,
         buffers = [o \in Hart |-> buffers[o]],
         NEW g, Explained(p, g), NEW h \in Hart, Drain(h)
  PROVE  (\E g2 \in Seq(Events(p)) : Explained(p, g2)') /\ Caches'
<1>1. PICK s \in Seq(1 .. 4), n \in 0 .. 4 : HartExplained(p, g, h, s, n)
  BY DEF Explained
<1>2. /\ HartOrder(p, g, h, s, n) /\ Entries(p, h, s, buffers[h])
      /\ Len(buffers[h]) \in 0 .. 2 /\ pc[h] = n + 1
  BY <1>1 DEF HartExplained
<1>3. s # <<>>
  <2>1. buffers[h] # <<>> /\ buffers[h] \in Seq({p[h][k] : k \in 1 .. Len(p[h])})
        /\ Len(buffers[h]) = Len(s)
    BY <1>2 DEF Drain, Entries
  <2>2. Len(buffers[h]) # 0
    BY <2>1
  <2> QED
    BY <2>1, <2>2
<1>4. PICK g2 : /\ Follows(Events(p), g, g2, <<h, s[1]>>)
                /\ Order(p, g2)
                /\ HartOrder(p, g2, h, Tail(s), n)
  BY <1>2, <1>3, DrainOrder DEF Explained
<1>5. /\ Entries(p, h, Tail(s), Tail(buffers[h])) /\ 1 \in DOMAIN s
      /\ Head(buffers[h]) = p[h][s[1]]
  BY <1>2, <1>3, EntriesTail
<1> DEFINE k == s[1]
           x == <<h, k>>
<1>6. k \in 1 .. 4 /\ k <= n /\ p[h][k].op = "store"
  BY <1>2, <1>5, PositionsGrow DEF HartOrder
<1>7. k \in 1 .. Len(p[h])
  BY <1>2, <1>6 DEF HartOrder
<1>8. p[h][k].addr \in Location /\ p[h][k].data \in Data
  BY <1>6, <1>7 DEF WellFormed
<1>9. x \in Kind(p, "store") /\ Op(p, x) = p[h][k] /\ x[1] = h
  BY <1>6, <1>7 DEF Kind, Op, Hart, WellFormed
<1>10. CoherentWrite(h, p[h][k].addr, p[h][k].data)
  BY <1>5, NotAMutation DEF Drain, Unmutated, Mutated
<1> HIDE DEF k, x
<1>11. Caches' /\ \A b \in Location : Held(b)' = IF b = p[h][k].addr THEN p[h][k].data ELSE Held(b)
  BY <1>8, <1>10, WriteKeeps
<1>12. Follows(Events(p), g, g2, x)
  BY <1>4 DEF k, x
<1>13. ASSUME NEW b \in Location PROVE Held(b)' = ValueOf(p, Latest(p, g2, b))
  <2>1. CASE b = p[h][k].addr
    <3>1. Latest(p, g2, b) = {x}
      <4>1. x \in StoresTo(p, g2, b)
        BY <1>9, <1>12, <2>1 DEF StoresTo, Follows
      <4> QED
        BY <1>12, <4>1, LatestNew
    <3> QED
      BY <1>9, <1>11, <2>1, <3>1, ValueOfOne
  <2>2. CASE b # p[h][k].addr
    <3>1. Latest(p, g2, b) = Latest(p, g, b)
      <4>1. x \notin StoresTo(p, g2, b)
        BY <1>9, <2>2 DEF StoresTo
      <4> QED
        BY <1>12, <4>1, LatestStays
    <3> QED
      BY <1>11, <2>2, <3>1 DEF Explained
  <2> QED
    BY <2>1, <2>2
<1>14. ASSUME NEW o \in Hart
       PROVE  (\E t \in Seq(1 .. 4), m \in 0 .. 4 : HartExplained(p, g2, o, t, m))'
  <2>1. CASE o = h
    <3>1. buffers'[h] = Tail(buffers[h]) /\ pc' = pc
      BY DEF Drain
    <3>2. Tail(s) \in Seq(1 .. 4) /\ Len(Tail(buffers[h])) \in 0 .. 2
      <4>1. buffers[h] # <<>> /\ buffers[h] \in Seq({p[h][i] : i \in 1 .. Len(p[h])})
        BY <1>2 DEF Drain, Entries
      <4> QED
        BY <1>2, <1>3, <4>1
    <3>3. HartExplained(p, g2, h, Tail(s), n)'
      BY <1>2, <1>4, <1>5, <3>1, <3>2 DEF HartExplained
    <3> QED
      BY <2>1, <3>2, <3>3
  <2>2. CASE o # h
    <3>1. PICK t \in Seq(1 .. 4), m \in 0 .. 4 : HartExplained(p, g, o, t, m)
      BY DEF Explained
    <3>2. x[1] # o /\ pc'[o] = pc[o] /\ buffers'[o] = buffers[o]
      BY <1>9, <2>2 DEF Drain
    <3>3. HartExplained(p, g2, o, t, m)'
      BY <1>12, <3>1, <3>2, OtherHart
    <3> QED
      BY <3>3
  <2> QED
    BY <2>1, <2>2
<1>15. LoadsExplained(p, g2)'
  <2>1. \A e \in ToSet(g) : Source(p, g2, e) = Source(p, g, e)
    BY <1>12, SourceStays
  <2>2. registers' = registers /\ pc' = pc
    BY DEF Drain
  <2> QED
    BY <2>1, <2>2, ValuesStay
<1>16. Explained(p, g2)' /\ g2 \in Seq(Events(p))
  BY <1>4, <1>13, <1>14, <1>15 DEF Explained, Order
<1> QED
  BY <1>11, <1>16

-----------------------------------------------------------------------------
(* The programs the modes run.                                             *)
Instruction(i) == /\ i.op \in {"store", "load", "fence"}
                  /\ i.op # "fence" => i.addr \in Location
                  /\ i.op = "store" => i.data \in Data

(* Instructions of the programs are ones the harts can run.                *)
LEMMA Instructions ==
  /\ \A a \in Location, v \in Data : Instruction(W(a, v))
  /\ \A a \in Location : Instruction(R(a))
  /\ Instruction(F)
BY DEF Instruction, W, R, F

(* Two short sequences of instructions make a program.                     *)
LEMMA PairRuns ==
  ASSUME NEW p, DOMAIN p = Hart, NEW S, \A i \in S : Instruction(i),
         \A h \in Hart : p[h] \in Seq(S) /\ Len(p[h]) \in 0 .. 4
  PROVE  WellFormed(p)
<1>1. ASSUME NEW h \in Hart, NEW k \in 1 .. Len(p[h]) PROVE Instruction(p[h][k])
  BY <1>1
<1> QED
  BY <1>1 DEF WellFormed, Instruction

(* Two or three instructions for a hart.                                   *)
Half(S, q) == q \in Seq(S) /\ Len(q) \in 2 .. 3

LEMMA TwoOrThree ==
  /\ \A S : \A i, j \in S : Half(S, <<i, j>>)
  /\ \A S : \A i, j, l \in S : Half(S, <<i, j, l>>)
BY DEF Half

LEMMA HalvesRun ==
  ASSUME NEW S, \A i \in S : Instruction(i), NEW a, Half(S, a), NEW b, Half(S, b)
  PROVE  WellFormed(<<a, b>>)
<1>1. DOMAIN <<a, b>> = Hart /\ <<a, b>>[1] = a /\ <<a, b>>[2] = b
  BY DEF Hart
<1> QED
  BY <1>1, PairRuns DEF Half, Hart

(* The instructions of the litmus tests.                                   *)
Used == {W("x", 1), W("x", 2), W("x", 3), W("y", 1), R("x"), R("y"), F}

LEMMA UsedRun ==
  /\ \A i \in Used : Instruction(i)
  /\ \A v \in 1 .. 3 : W("x", v) \in Used
  /\ W("y", 1) \in Used /\ R("x") \in Used /\ R("y") \in Used /\ F \in Used
<1>1. "x" \in Location /\ "y" \in Location /\ 1 \in Data /\ 2 \in Data /\ 3 \in Data
  BY LocationAssumption DEF Data
<1>2. \A i \in Used : Instruction(i)
  BY <1>1, Instructions DEF Used
<1>3. \A v \in 1 .. 3 : v = 1 \/ v = 2 \/ v = 3
  OBVIOUS
<1> QED
  BY <1>2, <1>3 DEF Used

(* Each of the sixteen litmus tests is a program both harts can run.       *)
LEMMA TestsRun ==
  ASSUME NEW t \in Test
  PROVE  WellFormed(Program[t])
<1>1. /\ W("x", 1) \in Used /\ W("x", 2) \in Used /\ W("x", 3) \in Used
      /\ W("y", 1) \in Used /\ R("x") \in Used /\ R("y") \in Used /\ F \in Used
  BY UsedRun
<1>2. ASSUME NEW i \in Used, NEW j \in Used, NEW c \in Used, NEW d \in Used
      PROVE  WellFormed(<< <<i, j>>, <<c, d>> >>)
  BY UsedRun, TwoOrThree, HalvesRun
<1>3. ASSUME NEW i \in Used, NEW j \in Used, NEW l \in Used,
             NEW c \in Used, NEW d \in Used, NEW e \in Used
      PROVE  WellFormed(<< <<i, j, l>>, <<c, d, e>> >>)
  BY UsedRun, TwoOrThree, HalvesRun
<1>4. ASSUME NEW i \in Used, NEW j \in Used, NEW l \in Used, NEW c \in Used, NEW d \in Used
      PROVE  WellFormed(<< <<i, j, l>>, <<c, d>> >>)
  BY UsedRun, TwoOrThree, HalvesRun
<1>5. CASE t \in {"SB", "MP", "LB", "RW"}
  BY <1>1, <1>2, <1>5 DEF Program
<1>6. CASE t \in {"WR", "CO_WW", "WRC"}
  BY <1>1, <1>2, <1>6 DEF Program
<1>7. CASE t = "CO_RR"
  BY <1>1, <1>4, <1>7 DEF Program
<1>8. CASE t = "SB_FENCE"
  BY <1>1, <1>3, <1>8 DEF Program
<1>9. CASE t = "MP_FENCE"
  BY <1>1, <1>3, <1>9 DEF Program
<1>10. CASE t = "LB_FENCE"
  BY <1>1, <1>3, <1>10 DEF Program
<1>11. CASE t = "RW_FENCE"
  BY <1>1, <1>3, <1>11 DEF Program
<1>12. CASE t = "WR_FENCE"
  BY <1>1, <1>3, <1>12 DEF Program
<1>13. CASE t = "CO_RR_FENCE"
  BY <1>1, <1>3, <1>13 DEF Program
<1>14. CASE t = "CO_WW_FENCE"
  BY <1>1, <1>3, <1>14 DEF Program
<1>15. CASE t = "WRC_FENCE"
  BY <1>1, <1>3, <1>15 DEF Program
<1> QED
  BY <1>5, <1>6, <1>7, <1>8, <1>9, <1>10, <1>11, <1>12, <1>13, <1>14, <1>15
     DEF Test, Program

(* A generated program, with or without FENCEs after its stores.           *)
LEMMA StoreLoadHalf ==
  ASSUME NEW S, F \in S, NEW a, NEW v, W(a, v) \in S, NEW b, R(b) \in S, NEW fence \in BOOLEAN
  PROVE  Half(S, StoreLoad(a, v, fence, b))
<1>1. PICK i \in S, j \in S : i = W(a, v) /\ j = R(b)
  OBVIOUS
<1>2. <<i>> \in Seq(S) /\ Len(<<i>>) = 1 /\ <<j>> \in Seq(S) /\ Len(<<j>>) = 1
      /\ <<F>> \in Seq(S) /\ Len(<<F>>) = 1 /\ <<>> \in Seq(S) /\ Len(<<>>) = 0
  OBVIOUS
<1>3. ASSUME NEW q \in Seq(S), Len(q) = 0 \/ Len(q) = 1
      PROVE  Half(S, <<i>> \o q \o <<j>>)
  <2>1. <<i>> \o q \in Seq(S) /\ Len(<<i>> \o q) = 1 + Len(q)
    BY <1>2
  <2>2. PICK r \in Seq(S) : r = <<i>> \o q
    BY <2>1
  <2>3. r \o <<j>> \in Seq(S) /\ Len(r \o <<j>>) = Len(r) + 1
    BY <1>2
  <2>4. Len(r) + 1 = 2 \/ Len(r) + 1 = 3
    BY <1>3, <2>1, <2>2
  <2> QED
    BY <2>2, <2>3, <2>4 DEF Half
<1>4. CASE fence
  BY <1>1, <1>2, <1>3, <1>4 DEF StoreLoad
<1>5. CASE ~fence
  BY <1>1, <1>2, <1>3, <1>5 DEF StoreLoad
<1> QED
  BY <1>4, <1>5

(* A program of two halves, all of whose instructions are in S.            *)
Halves(S, p) == /\ DOMAIN p = Hart /\ F \in S /\ \A i \in S : Instruction(i)
                /\ \A h \in Hart : Half(S, p[h])

LEMMA GeneratedHalves ==
  ASSUME NEW p, p \in generated_program
  PROVE  \E S : Halves(S, p)
<1>1. PICK a \in Location, b \in Location, u \in Value, v \in Value,
           f \in BOOLEAN, g \in BOOLEAN :
        p = <<StoreLoad(a, u, f, b), StoreLoad(b, v, g, a)>>
  BY DEF generated_program
<1> DEFINE S == {W(a, u), R(b), W(b, v), R(a), F}
<1>2. u \in Data /\ v \in Data
  BY ValueAssumption DEF Data
<1>3. /\ W(a, u) \in S /\ R(b) \in S /\ W(b, v) \in S /\ R(a) \in S /\ F \in S
      /\ \A i \in S : Instruction(i)
  BY <1>2, Instructions
<1> HIDE DEF S
<1>4. Half(S, StoreLoad(a, u, f, b)) /\ Half(S, StoreLoad(b, v, g, a))
  BY <1>3, StoreLoadHalf
<1>5. DOMAIN p = Hart /\ \A h \in Hart : Half(S, p[h])
  BY <1>1, <1>4 DEF Hart
<1> QED
  BY <1>3, <1>5 DEF Halves

LEMMA HalvesAreRun ==
  ASSUME NEW S, NEW p, Halves(S, p)
  PROVE  WellFormed(p) /\ WellFormed(Unbuffered(p))
<1>1. /\ DOMAIN p = Hart /\ F \in S /\ \A i \in S : Instruction(i)
      /\ \A h \in Hart : p[h] \in Seq(S) /\ Len(p[h]) \in 2 .. 3
  BY DEF Halves, Half
<1>2. WellFormed(p)
  <2>1. \A h \in Hart : p[h] \in Seq(S) /\ Len(p[h]) \in 0 .. 4
    BY <1>1
  <2> QED
    BY <1>1, <2>1, PairRuns
<1>3. DOMAIN Unbuffered(p) = Hart
  BY DEF Unbuffered
<1>4. ASSUME NEW h \in Hart
      PROVE  Unbuffered(p)[h] \in Seq(S) /\ Len(Unbuffered(p)[h]) \in 0 .. 4
  <2>1. PICK q \in Seq(S) : q = p[h] /\ Len(q) \in 2 .. 3
    BY <1>1
  <2>2. Head(q) \in S /\ Tail(q) \in Seq(S) /\ Len(Tail(q)) = Len(q) - 1
    <3>1. q # <<>>
      BY <2>1
    <3> QED
      BY <3>1
  <2>3. PICK i \in S : i = Head(q)
    BY <2>2
  <2>4. <<i, F>> \in Seq(S) /\ Len(<<i, F>>) = 2
    BY <1>1
  <2>5. <<i, F>> \o Tail(q) \in Seq(S) /\ Len(<<i, F>> \o Tail(q)) = 2 + (Len(q) - 1)
    BY <2>1, <2>2, <2>4
  <2>6. Unbuffered(p)[h] = <<i, F>> \o Tail(q)
    BY <2>1, <2>3 DEF Unbuffered
  <2>7. \A n \in 2 .. 3 : 2 + (n - 1) \in 0 .. 4
    OBVIOUS
  <2> QED
    BY <2>1, <2>5, <2>6, <2>7
<1>5. WellFormed(Unbuffered(p))
  <2> HIDE DEF Unbuffered
  <2> QED
    BY <1>1, <1>3, <1>4, PairRuns
<1> QED
  BY <1>2, <1>5

(* What the modes run.                                                     *)
LEMMA RunsAre ==
  ASSUME run \in Runs
  PROVE  /\ Unmutated => WellFormed(run.program)
         /\ run.mode = "litmus" => /\ ~run.backpressure
                                   /\ \E t \in Test : run.program = Program[t]
         /\ Mutated("illegal_dual_modified")
              => run = Run("mutations", Probe, "illegal_dual_modified", FALSE)
<1>1. CASE \E t \in Test : run = Run("litmus", Program[t], NoMutation, FALSE)
  BY <1>1, TestsRun, NotAMutation DEF Run, Mutated
<1>2. CASE \/ \E p \in generated_program, b \in BOOLEAN : run = Run("random", p, NoMutation, b)
           \/ \E p \in generated_program, b \in BOOLEAN :
                 run = Run("performance", Unbuffered(p), NoMutation, b)
  <2>1. PICK p \in generated_program, b \in BOOLEAN :
          \/ run = Run("random", p, NoMutation, b)
          \/ run = Run("performance", Unbuffered(p), NoMutation, b)
    BY <1>2
  <2>2. WellFormed(p) /\ WellFormed(Unbuffered(p))
    BY GeneratedHalves, HalvesAreRun
  <2> QED
    BY <2>1, <2>2, NotAMutation DEF Run, Mutated
<1>3. CASE \E m \in DOMAIN MutationRun : run = Run("mutations", MutationRun[m], m, FALSE)
  <2>1. PICK m \in DOMAIN MutationRun : run = Run("mutations", MutationRun[m], m, FALSE)
    BY <1>3
  <2>2. run.mode = "mutations" /\ run.mutation = m /\ m # NoMutation
    BY <2>1, NotAMutation DEF Run
  <2>3. MutationRun["illegal_dual_modified"] = Probe
    BY DEF MutationRun
  <2> QED
    BY <2>1, <2>2, <2>3 DEF Unmutated, Mutated
<1>4. CASE run \in LitmusRuns
  <2>1. \E t \in Test : run = Run("litmus", Program[t], NoMutation, FALSE)
    BY <1>4 DEF LitmusRuns
  <2> QED
    BY <1>1, <2>1
<1>5. CASE run \in RandomRuns
  <2>1. \E p \in generated_program, b \in BOOLEAN : run = Run("random", p, NoMutation, b)
    BY <1>5 DEF RandomRuns
  <2> QED
    BY <1>2, <2>1
<1>6. CASE run \in PerformanceRuns
  <2>1. \E p \in generated_program, b \in BOOLEAN :
          run = Run("performance", Unbuffered(p), NoMutation, b)
    BY <1>6 DEF PerformanceRuns
  <2> QED
    BY <1>2, <2>1
<1>7. CASE run \in MutationRuns
  <2>1. \E m \in DOMAIN MutationRun : run = Run("mutations", MutationRun[m], m, FALSE)
    BY <1>7 DEF MutationRuns
  <2> QED
    BY <1>3, <2>1
<1> QED
  BY <1>4, <1>5, <1>6, <1>7 DEF Runs

-----------------------------------------------------------------------------
(* The initial state, explained by the empty order.                        *)
LEMMA EmptyOrder ==
  ASSUME NEW p
  PROVE  /\ Order(p, <<>>) /\ ToSet(<<>>) = {}
         /\ \A a : Latest(p, <<>>, a) = {}
<1>1. ToSet(<<>>) = {} /\ DOMAIN <<>> = {}
  BY DEF ToSet
<1>2. <<>> \in Seq(Events(p))
  OBVIOUS
<1>3. Order(p, <<>>)
  BY <1>1, <1>2 DEF Order, Distinct, Ordered
<1> QED
  BY <1>1, <1>3 DEF Latest, StoresTo

LEMMA InitHart ==
  ASSUME NEW p, WellFormed(p), Init, NEW h \in Hart
  PROVE  HartExplained(p, <<>>, h, <<>>, 0)
<1>1. pc[h] = 0 + 1 /\ buffers[h] = <<>>
  BY DEF Init
<1>2. Len(p[h]) \in 0 .. 4
  BY DEF WellFormed
<1>3. Positions(p, h, <<>>, 0)
  BY DEF Positions
<1>4. ASSUME NEW k \in 1 .. Len(p[h])
      PROVE  <<h, k>> \notin ToSet(<<>>) /\ ~InMemory(<<>>, 0, k)
  <2>1. ~(k <= 0)
    BY <1>2
  <2> QED
    BY <2>1, EmptyOrder DEF InMemory
<1>5. 0 \in 0 .. Len(p[h])
  BY <1>2
<1>6. HartOrder(p, <<>>, h, <<>>, 0)
  BY <1>3, <1>4, <1>5 DEF HartOrder
<1>7. Entries(p, h, <<>>, <<>>) /\ Len(<<>>) \in 0 .. 2
  BY DEF Entries
<1> QED
  BY <1>1, <1>6, <1>7 DEF HartExplained

LEMMA InitCaches ==
  ASSUME Init
  PROVE  Caches /\ \A a \in Location : Held(a) = 0
<1>1. /\ memory = [a \in Location |-> 0]
      /\ cache_state = [h \in Hart |-> [a \in Location |-> "I"]]
      /\ cache_data = [h \in Hart |-> [a \in Location |-> Absent]]
  BY DEF Init
<1>2. 0 \in Data /\ Absent \in 0 .. Absent /\ 1 \in Hart /\ 2 \in Hart
  BY DEF Data, Absent, Hart
<1>3. Caches
  BY <1>1, <1>2, Others DEF Caches
<1> QED
  BY <1>1, <1>2, <1>3 DEF Held

LEMMA InitPlain ==
  ASSUME Init, Unmutated
  PROVE  Plain
<1>1. PICK p : p = run.program
  OBVIOUS
<1>2. WellFormed(p)
  BY <1>1, RunsAre DEF Init
<1>3. \A h \in Hart : \E s \in Seq(1 .. 4), n \in 0 .. 4 : HartExplained(p, <<>>, h, s, n)
  <2>1. <<>> \in Seq(1 .. 4) /\ 0 \in 0 .. 4
    OBVIOUS
  <2> QED
    BY <1>2, <2>1, InitHart
<1>4. LoadsExplained(p, <<>>)
  <2>1. DOMAIN registers = {} /\ registers = [e \in DOMAIN registers |-> registers[e]]
    BY DEF Init
  <2>2. ASSUME NEW e \in Kind(p, "load") PROVE ~(e[2] < pc[e[1]])
    <3>1. e[1] \in Hart /\ e[2] \in 1 .. 4
      BY DEF Kind, Hart
    <3>2. pc[e[1]] = 1
      BY <3>1 DEF Init
    <3> QED
      BY <3>1, <3>2
  <2> QED
    BY <2>1, <2>2 DEF LoadsExplained
<1>5. Explained(p, <<>>)
  BY <1>3, <1>4, InitCaches, EmptyOrder DEF Explained, ValueOf
<1>6. <<>> \in Seq(Events(p))
  OBVIOUS
<1>7. "fence over a store" \notin seen /\ ended # "raised"
  BY DEF Init
<1> QED
  BY <1>1, <1>5, <1>6, <1>7, InitCaches DEF Plain

LEMMA InitDual ==
  ASSUME Init, Mutated("illegal_dual_modified")
  PROVE  DualModified
<1>1. run = Run("mutations", Probe, "illegal_dual_modified", FALSE)
  BY RunsAre DEF Init
<1>2. 1 \in Hart /\ 2 \in Hart
  BY DEF Hart
<1>3. /\ cache_state = [h \in Hart |-> [a \in Location |-> "I"]]
      /\ pc[1] = 1 /\ pc[2] = 1 /\ buffers[1] = <<>> /\ buffers[2] = <<>>
  BY <1>2 DEF Init
<1> QED
  BY <1>1, <1>3 DEF DualModified

LEMMA InitHolds == Init => IInv
<1> SUFFICES ASSUME Init PROVE IInv
  OBVIOUS
<1>1. /\ run \in Runs /\ ended = "no" /\ pc \in [Hart -> Nat]
      /\ DOMAIN buffers = Hart /\ buffers = [h \in Hart |-> buffers[h]]
  BY DEF Init
<1> QED
  BY <1>1, InitPlain, InitDual DEF IInv

-----------------------------------------------------------------------------
(* Every step keeps the invariant.                                         *)
LEMMA StutterExplains ==
  ASSUME NEW p, NEW g, Explained(p, g),
         UNCHANGED <<pc, buffers, registers, shared>>
  PROVE  Explained(p, g)' /\ (Caches => Caches')
<1>1. /\ pc' = pc /\ buffers' = buffers /\ registers' = registers /\ memory' = memory
      /\ cache_state' = cache_state /\ cache_data' = cache_data
  BY DEF shared
<1>2. ASSUME NEW h \in Hart, NEW s, NEW n, HartExplained(p, g, h, s, n)
      PROVE  HartExplained(p, g, h, s, n)'
  BY <1>1, <1>2 DEF HartExplained
<1>3. LoadsExplained(p, g)'
  BY <1>1 DEF Explained, LoadsExplained
<1>4. \A a \in Location : Held(a)' = ValueOf(p, Latest(p, g, a))
  BY <1>1 DEF Explained, Held
<1>5. Caches => Caches'
  BY <1>1 DEF Caches
<1> QED
  BY <1>2, <1>3, <1>4, <1>5 DEF Explained

LEMMA StepPlain ==
  ASSUME IInv, Unmutated, [Next]_vars
  PROVE  Plain'
<1>1. PICK p : p = run.program
  OBVIOUS
<1>2. WellFormed(p)
  BY <1>1, RunsAre DEF IInv
<1>3. Caches /\ "fence over a store" \notin seen /\ ended # "raised"
  BY DEF IInv, Plain
<1>4. PICK g \in Seq(Events(p)) : Explained(p, g)
  BY <1>1 DEF IInv, Plain
<1>5. pc \in [Hart -> Nat] /\ buffers = [h \in Hart |-> buffers[h]]
  BY DEF IInv
<1> DEFINE Next1 == /\ Caches' /\ \E g2 \in Seq(Events(p)) : Explained(p, g2)'
                    /\ "fence over a store" \notin seen' /\ ended' # "raised" /\ run' = run
<1>6. ASSUME NEW h \in Hart, Store(h) PROVE Next1
  <2>1. Explained(p, g)'
    BY <1>1, <1>2, <1>4, <1>5, <1>6, StoreExplains
  <2>2. UNCHANGED <<shared, seen, ended, run>>
    BY <1>6 DEF Store, Execute
  <2>3. Caches'
    BY <1>3, <2>2 DEF Caches, shared
  <2> QED
    BY <1>3, <1>4, <2>1, <2>2, <2>3
<1>7. ASSUME NEW h \in Hart, Fence(h) PROVE Next1
  <2>1. Explained(p, g)' /\ seen' = seen
    BY <1>1, <1>2, <1>4, <1>5, <1>7, FenceExplains
  <2>2. UNCHANGED <<shared, ended, run>>
    BY <1>7 DEF Fence, Execute
  <2>3. Caches'
    BY <1>3, <2>2 DEF Caches, shared
  <2> QED
    BY <1>3, <1>4, <2>1, <2>2, <2>3
<1>8. ASSUME NEW h \in Hart, Load(h) PROVE Next1
  <2>1. ended' = ended /\ run' = run
    BY <1>8 DEF Load, Execute
  <2> QED
    BY <1>1, <1>2, <1>3, <1>4, <1>5, <1>8, <2>1, LoadExplains
<1>9. ASSUME NEW h \in Hart, LoadRaises(h) PROVE FALSE
  BY <1>1, <1>2, <1>3, <1>4, <1>5, <1>9, NothingRaised
<1>10. ASSUME NEW h \in Hart, Drain(h) PROVE Next1
  <2>1. UNCHANGED <<seen, ended, run>>
    BY <1>10 DEF Drain
  <2> QED
    BY <1>1, <1>2, <1>3, <1>4, <1>5, <1>10, <2>1, DrainExplains
<1>11. ASSUME End PROVE Next1
  <2>1. /\ UNCHANGED <<pc, buffers, registers, shared>> /\ seen' = seen /\ run' = run
        /\ ended' \in {"done", "limit"}
    BY <1>11 DEF End
  <2>2. Explained(p, g)' /\ Caches'
    BY <1>3, <1>4, <2>1, StutterExplains
  <2> QED
    BY <1>3, <1>4, <2>1, <2>2
<1>12. ASSUME UNCHANGED vars PROVE Next1
  <2>1. UNCHANGED <<pc, buffers, registers, shared>> /\ seen' = seen /\ run' = run /\ ended' = ended
    BY <1>12 DEF vars
  <2>2. Explained(p, g)' /\ Caches'
    BY <1>3, <1>4, <2>1, StutterExplains
  <2> QED
    BY <1>3, <1>4, <2>1, <2>2
<1>13. Next1
  <2> HIDE DEF Next1
  <2> QED
    BY <1>6, <1>7, <1>8, <1>9, <1>10, <1>11, <1>12 DEF Next
<1> QED
  BY <1>1, <1>13 DEF Plain

LEMMA StepDual ==
  ASSUME IInv, Mutated("illegal_dual_modified"), [Next]_vars
  PROVE  DualModified'
<1>1. DualModified /\ pc \in [Hart -> Nat] /\ buffers = [h \in Hart |-> buffers[h]]
  BY DEF IInv
<1>2. /\ Len(run.program[1]) = 2 /\ run.program[1][1] = Probe[1][1]
      /\ Probe[1][1].op = "store" /\ Probe[1][1].addr = "x" /\ run.program[1][2].op = "fence"
      /\ Len(run.program[2]) = 1 /\ run.program[2][1].op = "load" /\ run.program[2][1].addr = "x"
      /\ run.mutation = "illegal_dual_modified"
  BY <1>1 DEF DualModified, Run, Probe, W, R, F
<1>3. /\ 1 \in Hart /\ 2 \in Hart /\ Other(1) = 2 /\ Other(2) = 1
      /\ "x" \in Location /\ \A h \in Hart : h = 1 \/ h = 2
  BY LocationAssumption DEF Hart, Other
<1>4. ASSUME NEW h \in Hart, NEW kind, Execute(h, kind)
      PROVE  /\ run' = run /\ pc' = [pc EXCEPT ![h] = @ + 1]
             /\ \/ h = 1 /\ pc[1] = 1 /\ kind = "store" /\ Current(1) = Probe[1][1]
                \/ h = 1 /\ pc[1] = 2 /\ kind = "fence"
                \/ h = 2 /\ pc[2] = 1 /\ kind = "load" /\ Current(2).addr = "x"
  <2>1. /\ pc[h] <= Len(run.program[h]) /\ run.program[h][pc[h]].op = kind
        /\ Current(h) = run.program[h][pc[h]]
        /\ run' = run /\ pc' = [pc EXCEPT ![h] = @ + 1]
    BY <1>4 DEF Execute, Running, Current
  <2>2. pc[1] \in 1 .. 3 /\ pc[2] \in 1 .. 2
    BY <1>1 DEF DualModified
  <2>3. CASE h = 1
    <3>1. pc[1] = 1 \/ pc[1] = 2
      BY <1>2, <2>1, <2>2, <2>3
    <3> QED
      BY <1>2, <2>1, <2>3, <3>1
  <2>4. CASE h = 2
    <3>1. pc[2] = 1
      BY <1>2, <2>1, <2>2, <2>4
    <3> QED
      BY <1>2, <2>1, <2>4, <3>1
  <2> QED
    BY <1>3, <2>3, <2>4
<1>5. ASSUME NEW h \in Hart, Store(h) PROVE DualModified'
  <2>1. h = 1 /\ pc[1] = 1 /\ run' = run /\ pc' = [pc EXCEPT ![1] = @ + 1]
        /\ Current(1) = Probe[1][1]
    BY <1>4, <1>5 DEF Store
  <2>2. buffers' = [buffers EXCEPT ![1] = Append(@, Probe[1][1])] /\ cache_state' = cache_state
    BY <1>5, <2>1 DEF Store, shared
  <2>3. buffers'[1] = Append(<<>>, Probe[1][1]) /\ buffers'[2] = buffers[2]
    <3>1. buffers[1] = <<>>
      BY <1>1, <2>1 DEF DualModified
    <3>2. PICK b : b = Append(buffers[1], Probe[1][1])
      OBVIOUS
    <3>3. buffers' = [buffers EXCEPT ![1] = b]
      BY <2>2, <3>2
    <3>4. buffers'[1] = b /\ buffers'[2] = buffers[2]
      BY <1>1, <1>3, <3>3
    <3> QED
      BY <3>1, <3>2, <3>4
  <2>4. Append(<<>>, Probe[1][1]) = <<Probe[1][1]>>
    OBVIOUS
  <2>5. pc'[1] = 2 /\ pc'[2] = pc[2]
    BY <1>1, <1>3, <2>1
  <2> QED
    BY <1>1, <2>1, <2>2, <2>3, <2>4, <2>5 DEF DualModified
<1>6. ASSUME NEW h \in Hart, Fence(h) PROVE DualModified'
  <2>1. h = 1 /\ pc[1] = 2 /\ run' = run /\ pc' = [pc EXCEPT ![1] = @ + 1]
    <3>1. Execute(h, "fence")
      BY <1>6 DEF Fence
    <3> QED
      BY <1>4, <3>1
  <2>2. buffers[1] = <<>> /\ buffers' = buffers /\ cache_state' = cache_state
    BY <1>2, <1>6, <2>1 DEF Fence, shared, Mutated
  <2>3. pc'[1] = 3 /\ pc'[2] = pc[2]
    BY <1>1, <1>3, <2>1
  <2>4. <<Probe[1][1]>> # <<>>
    OBVIOUS
  <2> QED
    BY <1>1, <2>1, <2>2, <2>3, <2>4 DEF DualModified
<1>7. ASSUME NEW h \in Hart, Load(h) PROVE DualModified'
  <2>1. h = 2 /\ pc[2] = 1 /\ run' = run /\ pc' = [pc EXCEPT ![2] = @ + 1]
        /\ Current(2).addr = "x"
    <3>1. Execute(h, "load")
      BY <1>7 DEF Load
    <3> QED
      BY <1>4, <3>1
  <2>2. buffers' = buffers
    BY <1>7 DEF Load
  <2>3. cache_state' = cache_state \/ CoherentRead(2, "x")
    BY <1>7, <2>1 DEF Load, shared
  <2>4. /\ cache_state' \in [Hart -> [Location -> {"I", "S", "M"}]]
        /\ (\A c \in Hart : cache_state[c]["x"] = "M") => \A c \in Hart : cache_state'[c]["x"] = "M"
    <3>1. cache_state \in [Hart -> [Location -> {"I", "S", "M"}]]
      BY <1>1 DEF DualModified
    <3>2. CASE CoherentRead(2, "x")
      BY <1>3, <3>1, <3>2 DEF CoherentRead
    <3> QED
      BY <2>3, <3>1, <3>2
  <2>5. pc'[1] = pc[1] /\ pc'[2] = 2
    BY <1>1, <1>3, <2>1
  <2> QED
    BY <1>1, <2>1, <2>2, <2>4, <2>5 DEF DualModified
<1>8. ASSUME NEW h \in Hart, LoadRaises(h) PROVE DualModified'
  <2>1. h = 2 /\ pc[2] = 1 /\ run' = run /\ pc' = [pc EXCEPT ![2] = @ + 1]
    BY <1>4, <1>8 DEF LoadRaises
  <2>2. buffers' = buffers /\ cache_state' = cache_state
    BY <1>8 DEF LoadRaises, shared
  <2>3. pc'[1] = pc[1] /\ pc'[2] = 2
    BY <1>1, <1>3, <2>1
  <2> QED
    BY <1>1, <2>1, <2>2, <2>3 DEF DualModified
<1>9. ASSUME NEW h \in Hart, Drain(h) PROVE DualModified'
  <2>1. h = 1 /\ pc[1] = 2 /\ buffers[1] = <<Probe[1][1]>>
    BY <1>1, <1>3, <1>9 DEF Drain, DualModified
  <2>2. buffers' = [buffers EXCEPT ![1] = Tail(@)] /\ run' = run /\ pc' = pc
    BY <1>9, <2>1 DEF Drain
  <2>3. Head(<<Probe[1][1]>>) = Probe[1][1] /\ Tail(<<Probe[1][1]>>) = <<>>
    OBVIOUS
  <2>4. buffers'[1] = <<>> /\ buffers'[2] = buffers[2]
    BY <1>1, <1>3, <2>1, <2>2, <2>3
  <2>5. CoherentWrite(1, "x", Probe[1][1].data)
    BY <1>2, <1>9, <2>1, <2>3 DEF Drain, Mutated
  <2>6. cache_state' = [cache_state EXCEPT ![1]["x"] = "M", ![2]["x"] = "M"]
    BY <1>2, <1>3, <2>5 DEF CoherentWrite, Mutated
  <2>7. /\ cache_state' \in [Hart -> [Location -> {"I", "S", "M"}]]
        /\ \A c \in Hart : cache_state'[c]["x"] = "M"
    BY <1>1, <1>3, <2>6 DEF DualModified
  <2> QED
    BY <1>1, <2>1, <2>2, <2>4, <2>7 DEF DualModified
<1>10. ASSUME End \/ UNCHANGED vars PROVE DualModified'
  <2>1. run' = run /\ pc' = pc /\ buffers' = buffers /\ cache_state' = cache_state
    BY <1>10 DEF End, vars, shared
  <2> QED
    BY <1>1, <2>1 DEF DualModified
<1> QED
  BY <1>5, <1>6, <1>7, <1>8, <1>9, <1>10 DEF Next

(* The end of a run is recorded as it is.                                  *)
LEMMA StepEnds ==
  ASSUME IInv, [Next]_vars
  PROVE  /\ run' = run /\ pc' \in [Hart -> Nat]
         /\ DOMAIN buffers' = Hart /\ buffers' = [h \in Hart |-> buffers'[h]]
         /\ ended' \in {"no", "done", "limit", "raised"}
         /\ ended' = "limit" => run.backpressure
         /\ ended' = "done" => Finished'
<1>1. /\ pc \in [Hart -> Nat] /\ DOMAIN buffers = Hart /\ buffers = [h \in Hart |-> buffers[h]]
      /\ ended \in {"no", "done", "limit", "raised"}
      /\ ended = "limit" => run.backpressure
      /\ ended = "done" => Finished
  BY DEF IInv
<1> DEFINE Goal == /\ run' = run /\ pc' \in [Hart -> Nat]
                   /\ DOMAIN buffers' = Hart /\ buffers' = [h \in Hart |-> buffers'[h]]
                   /\ ended' \in {"no", "done", "limit", "raised"}
                   /\ ended' = "limit" => run.backpressure
                   /\ ended' = "done" => Finished'
<1>2. ASSUME NEW h \in Hart, NEW kind, Execute(h, kind)
      PROVE  run' = run /\ pc' \in [Hart -> Nat] /\ ended = "no"
  <2>1. run' = run /\ ended = "no" /\ pc' = [pc EXCEPT ![h] = pc[h] + 1]
    BY <1>2 DEF Execute
  <2>2. pc[h] + 1 \in Nat
    BY <1>1
  <2> QED
    BY <1>1, <2>1, <2>2
<1>3. ASSUME NEW h \in Hart, Store(h) PROVE Goal
  BY <1>1, <1>2, <1>3 DEF Store
<1>4. ASSUME NEW h \in Hart, Fence(h) \/ Load(h) \/ LoadRaises(h) PROVE Goal
  BY <1>1, <1>2, <1>4 DEF Fence, Load, LoadRaises
<1>5. ASSUME NEW h \in Hart, Drain(h) PROVE Goal
  BY <1>1, <1>5 DEF Drain
<1>6. ASSUME End PROVE Goal
  <2>1. /\ run' = run /\ pc' = pc /\ buffers' = buffers /\ ended = "no"
        /\ \/ Finished /\ ended' = "done"
           \/ run.backpressure /\ ended' = "limit"
    BY <1>6 DEF End
  <2>2. Finished' <=> Finished
    BY <2>1 DEF Finished, Running
  <2> QED
    BY <1>1, <2>1, <2>2
<1>7. ASSUME UNCHANGED vars PROVE Goal
  <2>1. run' = run /\ pc' = pc /\ buffers' = buffers /\ ended' = ended
    BY <1>7 DEF vars
  <2>2. Finished' <=> Finished
    BY <2>1 DEF Finished, Running
  <2> QED
    BY <1>1, <2>1, <2>2
<1>8. Goal
  <2> HIDE DEF Goal
  <2> QED
    BY <1>3, <1>4, <1>5, <1>6, <1>7 DEF Next
<1> QED
  BY <1>8

LEMMA StepHolds ==
  ASSUME IInv, [Next]_vars
  PROVE  IInv'
<1>1. run' = run
  BY StepEnds
<1>2. Unmutated' => Plain'
  BY <1>1, StepPlain DEF Unmutated, Mutated
<1>3. Mutated("illegal_dual_modified")' => DualModified'
  BY <1>1, StepDual DEF Mutated
<1>4. run' \in Runs
  BY <1>1 DEF IInv
<1> QED
  BY <1>1, <1>2, <1>3, <1>4, StepEnds DEF IInv

(* One memory order explains all that an unmutated simulation does, its    *)
(* caches stay coherent, and the planted write leaves two modified copies. *)
THEOREM Inductive == Spec => []IInv
<1>1. Init => IInv
  BY InitHolds
<1>2. IInv /\ [Next]_vars => IInv'
  BY StepHolds
<1> QED
  BY <1>1, <1>2, PTL DEF Spec

-----------------------------------------------------------------------------
(* The end of a run.                                                       *)
LEMMA FinishedHart ==
  ASSUME NEW p, WellFormed(p), run.program = p, NEW g, Finished,
         NEW h \in Hart, NEW s \in Seq(1 .. 4), NEW n \in 0 .. 4, HartExplained(p, g, h, s, n)
  PROVE  /\ n = Len(p[h]) /\ Len(p[h]) \in 0 .. 4
         /\ \A k \in 1 .. Len(p[h]) : p[h][k].op # "fence" => <<h, k>> \in ToSet(g)
<1>1. ~(pc[h] <= Len(p[h])) /\ buffers[h] = <<>>
  BY DEF Finished, Running
<1>2. Len(p[h]) \in 0 .. 4 /\ n \in 0 .. Len(p[h]) /\ pc[h] = n + 1
  BY DEF HartExplained, HartOrder, WellFormed
<1>3. n = Len(p[h])
  BY <1>1, <1>2
<1>4. DOMAIN s = {}
  <2>1. Len(s) = 0
    BY <1>1 DEF HartExplained, Entries
  <2> QED
    BY <2>1
<1>5. ASSUME NEW k \in 1 .. Len(p[h]), p[h][k].op # "fence" PROVE <<h, k>> \in ToSet(g)
  <2>1. InMemory(s, n, k)
    BY <1>2, <1>3, <1>4 DEF InMemory
  <2> QED
    BY <1>5, <2>1 DEF HartExplained, HartOrder
<1> QED
  BY <1>2, <1>3, <1>5

(* At the end every event has been performed.                              *)
LEMMA FinishedOrder ==
  ASSUME NEW p, WellFormed(p), run.program = p, NEW g, Explained(p, g), Finished
  PROVE  /\ Order(p, g) /\ ToSet(g) = Events(p)
         /\ \A e \in Kind(p, "load") : e \in DOMAIN registers
<1>1. Order(p, g)
  BY DEF Explained
<1>2. ASSUME NEW e \in Events(p) PROVE e \in ToSet(g) /\ e[2] < pc[e[1]]
  <2>1. e \in {1, 2} \X (1 .. 4) /\ e[2] <= Len(p[e[1]]) /\ p[e[1]][e[2]].op \in {"load", "store"}
    BY EventIn
  <2>2. PICK h \in Hart, k \in 1 .. 4 : e = <<h, k>>
    BY <2>1 DEF Hart
  <2>3. k <= Len(p[h]) /\ p[h][k].op # "fence"
    BY <2>1, <2>2
  <2>4. PICK s \in Seq(1 .. 4), n \in 0 .. 4 : HartExplained(p, g, h, s, n)
    BY DEF Explained
  <2>5. /\ n = Len(p[h]) /\ Len(p[h]) \in 0 .. 4
        /\ \A i \in 1 .. Len(p[h]) : p[h][i].op # "fence" => <<h, i>> \in ToSet(g)
    BY <2>4, FinishedHart
  <2>6. pc[h] = n + 1
    BY <2>4 DEF HartExplained
  <2>7. k \in 1 .. Len(p[h]) /\ k < n + 1
    BY <2>3, <2>5
  <2> QED
    BY <2>2, <2>3, <2>5, <2>6, <2>7
<1>3. ToSet(g) = Events(p)
  BY <1>1, <1>2 DEF Order, ToSet
<1>4. \A e \in Kind(p, "load") : e \in DOMAIN registers
  BY <1>2 DEF Events, Explained, LoadsExplained
<1> QED
  BY <1>1, <1>3, <1>4

(* What memory and the caches hold is each word's current datum.           *)
LEMMA FinalHeld ==
  ASSUME Caches
  PROVE  Final = [a \in Location |-> Held(a)]
<1>1. ASSUME NEW a \in Location
      PROVE  (IF \E h \in Hart : cache_state[h][a] = "M"
              THEN cache_data[CHOOSE h \in Hart : cache_state[h][a] = "M"][a]
              ELSE memory[a]) = Held(a)
  <2>1. /\ 1 \in Hart /\ 2 \in Hart /\ \A h \in Hart : h = 1 \/ h = 2
        /\ Other(1) = 2 /\ Other(2) = 1
    BY DEF Hart, Other
  <2>2. cache_state[1][a] = "M" => cache_state[2][a] # "M"
    BY <2>1 DEF Caches
  <2>3. CASE cache_state[1][a] = "M"
    <3>1. (CHOOSE h \in Hart : cache_state[h][a] = "M") = 1
      BY <2>1, <2>2, <2>3
    <3> QED
      BY <2>1, <2>3, <3>1 DEF Held
  <2>4. CASE cache_state[1][a] # "M" /\ cache_state[2][a] = "M"
    <3>1. (CHOOSE h \in Hart : cache_state[h][a] = "M") = 2
      BY <2>1, <2>4
    <3> QED
      BY <2>1, <2>4, <3>1 DEF Held
  <2>5. CASE cache_state[1][a] # "M" /\ cache_state[2][a] # "M"
    BY <2>1, <2>5 DEF Held
  <2> QED
    BY <2>3, <2>4, <2>5
<1> QED
  BY <1>1 DEF Final

LEMMA FinishedAllowed ==
  ASSUME NEW p, WellFormed(p), run.program = p, NEW g, Explained(p, g), Caches, Finished
  PROVE  [loads |-> registers, final |-> Final] \in AllowedFor(p)
<1>1. /\ Order(p, g) /\ ToSet(g) = Events(p)
      /\ \A e \in Kind(p, "load") : e \in DOMAIN registers
  BY FinishedOrder
<1>2. g \in SetToSeqs(Events(p)) /\ Consistent(p, g)
  BY <1>1, CompleteOrder
<1>3. registers = [e \in Kind(p, "load") |-> ValueOf(p, ReadsFrom(p, g, e))]
  <2>1. /\ registers = [e \in DOMAIN registers |-> registers[e]]
        /\ \A e \in DOMAIN registers : e \in Kind(p, "load")
        /\ \A e \in DOMAIN registers : registers[e] = ValueOf(p, Source(p, g, e))
    BY DEF Explained, LoadsExplained
  <2>2. DOMAIN registers = Kind(p, "load")
    BY <1>1, <2>1
  <2>3. \A e \in Kind(p, "load") : registers[e] = ValueOf(p, ReadsFrom(p, g, e))
    BY <1>1, <2>1, <2>2, CompleteSource
  <2> QED
    BY <2>1, <2>2, <2>3
<1>4. Final = [a \in Location |->
                 LET to == {s \in Kind(p, "store") : Op(p, s).addr = a}
                 IN  ValueOf(p, {s \in to : \A r \in to : r = s \/ GmoBefore(g, r, s)})]
  <2>1. Final = [a \in Location |-> ValueOf(p, Latest(p, g, a))]
    BY FinalHeld DEF Explained
  <2>2. ASSUME NEW a \in Location
        PROVE  StoresTo(p, g, a) = {s \in Kind(p, "store") : Op(p, s).addr = a}
    BY <1>1 DEF StoresTo, Events
  <2> QED
    BY <2>1, <2>2 DEF Latest
<1>5. [loads |-> registers, final |-> Final] = Outcome(p, g)
  BY <1>3, <1>4 DEF Outcome
<1> QED
  BY <1>2, <1>5 DEF AllowedFor

(* "outcomes that RVWMO allows": every load and the final memory of every  *)
(* unmutated simulation, of every litmus test and every program the modes  *)
(* generate from the given addresses and data.                             *)
THEOREM Outcomes == Spec => []OutcomeAllowed
<1>1. IInv => OutcomeAllowed
  <2> SUFFICES ASSUME IInv, Unmutated, ended = "done"
               PROVE  [loads |-> registers, final |-> Final] \in AllowedOutcomes[run.program]
    BY DEF OutcomeAllowed
  <2>1. PICK p : p = run.program
    OBVIOUS
  <2>2. WellFormed(p) /\ run \in Runs
    BY <2>1, RunsAre DEF IInv
  <2>3. Caches /\ Finished
    BY DEF IInv, Plain
  <2>4. PICK g \in Seq(Events(p)) : Explained(p, g)
    BY <2>1 DEF IInv, Plain
  <2>5. [loads |-> registers, final |-> Final] \in AllowedFor(p)
    BY <2>1, <2>2, <2>3, <2>4, FinishedAllowed
  <2>6. p \in {r.program : r \in Runs}
    BY <2>1, <2>2
  <2> QED
    BY <2>1, <2>5, <2>6 DEF AllowedOutcomes
<1> QED
  BY <1>1, Inductive, PTL

(* A modified copy of an unmutated simulation is the only one, and shared  *)
(* copies equal memory.                                                    *)
THEOREM CoherentCaches == Spec => []CachesCoherent
<1>1. IInv => CachesCoherent
  BY DEF IInv, Plain, Caches, CachesCoherent
<1> QED
  BY <1>1, Inductive, PTL

LEMMA NotDual ==
  ASSUME Caches
  PROVE  ~invariant_failure
<1> SUFFICES ASSUME NEW a \in Location, \A h \in Hart : cache_state[h][a] = "M" PROVE FALSE
  BY DEF invariant_failure
<1>1. 1 \in Hart /\ 2 \in Hart /\ Other(1) = 2
  BY DEF Hart, Other
<1> QED
  BY <1>1 DEF Caches

(* The last load of a hart.                                                *)
LEMMA LastLoad ==
  ASSUME NEW h \in Hart, NEW k \in 1 .. 4,
         \A n \in 1 .. 4 : <<h, n>> \in DOMAIN registers <=> n = k
  PROVE  outcome[h] = registers[<<h, k>>]
<1> DEFINE loads == {n \in 1 .. 4 : <<h, n>> \in DOMAIN registers}
<1>1. loads = {k}
  OBVIOUS
<1>2. (CHOOSE n \in {k} : \A m \in {k} : m <= n) = k
  OBVIOUS
<1>3. outcome[h] = IF loads = {} THEN 0
                   ELSE registers[<<h, CHOOSE n \in loads : \A m \in loads : m <= n>>]
  BY DEF outcome
<1> HIDE DEF loads
<1> QED
  BY <1>1, <1>2, <1>3

LEMMA NoLoad ==
  ASSUME NEW h \in Hart, \A n \in 1 .. 4 : <<h, n>> \notin DOMAIN registers
  PROVE  outcome[h] = 0
BY DEF outcome

(* A load after a store of 1 to its word, and after no other, reads 1.     *)
LEMMA ReadsOne ==
  ASSUME NEW p, NEW g, NEW e, NEW x \in Kind(p, "store"), GmoBefore(g, x, e),
         Op(p, x).addr = Op(p, e).addr, Op(p, x).data = 1, ~PoBefore(x, e),
         \A s \in Kind(p, "store") : Op(p, s).addr = Op(p, e).addr => s = x
  PROVE  ValueOf(p, Source(p, g, e)) = 1
<1>1. Buffered(p, g, e) = {}
  BY DEF Buffered
<1>2. StoresBefore(p, g, e) = {x}
  BY DEF StoresBefore
<1>3. Source(p, g, e) = {x}
  BY <1>1, <1>2 DEF Source
<1> QED
  BY <1>3, ValueOfOne

(* SB_FENCE: both loads cannot come before the other hart's store.         *)
LEMMA FencedStores ==
  ASSUME NEW p, p = Program["SB_FENCE"], WellFormed(p), run.program = p,
         NEW g, Explained(p, g), Finished
  PROVE  outcome # <<0, 0>>
<1>1. /\ Len(p[1]) = 3 /\ Len(p[2]) = 3
      /\ p[1][1] = W("x", 1) /\ p[1][2] = F /\ p[1][3] = R("y")
      /\ p[2][1] = W("y", 1) /\ p[2][2] = F /\ p[2][3] = R("x")
  BY DEF Program
<1>2. /\ W("x", 1).op = "store" /\ W("x", 1).addr = "x" /\ W("x", 1).data = 1
      /\ W("y", 1).op = "store" /\ W("y", 1).addr = "y" /\ W("y", 1).data = 1
      /\ R("x").op = "load" /\ R("x").addr = "x" /\ R("y").op = "load" /\ R("y").addr = "y"
      /\ F.op = "fence"
  BY DEF W, R, F
<1>3. \A h \in {1, 2} : /\ Len(p[h]) = 3 /\ p[h][1].op = "store" /\ p[h][2].op = "fence"
                        /\ p[h][3].op = "load"
  BY <1>1, <1>2
<1>4. ASSUME NEW h \in {1, 2}, NEW k \in 1 .. 4
      PROVE  /\ <<h, k>> \in Kind(p, "load") <=> k = 3
             /\ <<h, k>> \in Kind(p, "store") <=> k = 1
             /\ <<h, k>> \in Kind(p, "fence") <=> k = 2
  <2>1. <<h, k>> \in {1, 2} \X (1 .. 4) /\ <<h, k>>[1] = h /\ <<h, k>>[2] = k
    OBVIOUS
  <2>2. \A c : <<h, k>> \in Kind(p, c) <=> k <= Len(p[h]) /\ p[h][k].op = c
    BY <2>1 DEF Kind, Op
  <2>3. CASE k = 1
    BY <1>3, <2>2, <2>3
  <2>4. CASE k = 2
    BY <1>3, <2>2, <2>4
  <2>5. CASE k = 3
    BY <1>3, <2>2, <2>5
  <2>6. CASE k = 4
    BY <1>3, <2>2, <2>6
  <2> QED
    BY <2>3, <2>4, <2>5, <2>6
<1>5. \A s \in Kind(p, "store") : s = <<1, 1>> \/ s = <<2, 1>>
  <2>1. ASSUME NEW s \in Kind(p, "store") PROVE s = <<1, 1>> \/ s = <<2, 1>>
    <3>1. PICK h \in {1, 2}, k \in 1 .. 4 : s = <<h, k>>
      BY DEF Kind
    <3> QED
      BY <1>4, <3>1
  <2> QED
    BY <2>1
<1>6. /\ Order(p, g) /\ ToSet(g) = Events(p)
      /\ \A e \in Kind(p, "load") : e \in DOMAIN registers
  BY FinishedOrder
<1>7. /\ \A e \in DOMAIN registers : e \in Kind(p, "load")
      /\ \A e \in DOMAIN registers : registers[e] = ValueOf(p, Source(p, g, e))
  BY DEF Explained, LoadsExplained
<1>8. ASSUME NEW h \in {1, 2}
      PROVE  outcome[h] = ValueOf(p, Source(p, g, <<h, 3>>))
  <2>1. \A n \in 1 .. 4 : <<h, n>> \in DOMAIN registers <=> n = 3
    BY <1>4, <1>6, <1>7
  <2>2. outcome[h] = registers[<<h, 3>>]
    BY <2>1, LastLoad DEF Hart
  <2> QED
    BY <1>7, <2>1, <2>2
<1>9. ASSUME NEW h \in {1, 2} PROVE GmoBefore(g, <<h, 1>>, <<h, 3>>)
  <2>1. <<h, 1>> \in Events(p) /\ <<h, 3>> \in ToSet(g) /\ <<h, 2>> \in Kind(p, "fence")
    BY <1>4, <1>6 DEF Events
  <2>2. Kept(p, <<h, 1>>, <<h, 3>>)
    BY <2>1 DEF Kept, PoBefore
  <2> QED
    BY <1>6, <2>1, <2>2 DEF Order, Ordered
<1>10. /\ Op(p, <<1, 1>>) = W("x", 1) /\ Op(p, <<1, 3>>) = R("y")
       /\ Op(p, <<2, 1>>) = W("y", 1) /\ Op(p, <<2, 3>>) = R("x")
  BY <1>1 DEF Op
<1>11. GmoBefore(g, <<2, 1>>, <<1, 3>>) => outcome[1] = 1
  <2>1. <<2, 1>> \in Kind(p, "store") /\ ~PoBefore(<<2, 1>>, <<1, 3>>)
    BY <1>4 DEF PoBefore
  <2>2. /\ Op(p, <<2, 1>>).addr = "y" /\ Op(p, <<2, 1>>).data = 1 /\ Op(p, <<1, 3>>).addr = "y"
        /\ Op(p, <<1, 1>>).addr = "x"
    BY <1>2, <1>10
  <2>3. \A s \in Kind(p, "store") : Op(p, s).addr = Op(p, <<1, 3>>).addr => s = <<2, 1>>
    BY <1>5, <2>2
  <2> QED
    BY <1>8, <2>1, <2>2, <2>3, ReadsOne
<1>12. GmoBefore(g, <<1, 1>>, <<2, 3>>) => outcome[2] = 1
  <2>1. <<1, 1>> \in Kind(p, "store") /\ ~PoBefore(<<1, 1>>, <<2, 3>>)
    BY <1>4 DEF PoBefore
  <2>2. /\ Op(p, <<1, 1>>).addr = "x" /\ Op(p, <<1, 1>>).data = 1 /\ Op(p, <<2, 3>>).addr = "x"
        /\ Op(p, <<2, 1>>).addr = "y"
    BY <1>2, <1>10
  <2>3. \A s \in Kind(p, "store") : Op(p, s).addr = Op(p, <<2, 3>>).addr => s = <<1, 1>>
    BY <1>5, <2>2
  <2> QED
    BY <1>8, <2>1, <2>2, <2>3, ReadsOne
<1>13. GmoBefore(g, <<2, 1>>, <<1, 3>>) \/ GmoBefore(g, <<1, 1>>, <<2, 3>>)
  <2> SUFFICES ASSUME ~GmoBefore(g, <<2, 1>>, <<1, 3>>), ~GmoBefore(g, <<1, 1>>, <<2, 3>>)
               PROVE  FALSE
    OBVIOUS
  <2>1. /\ <<1, 1>> \in ToSet(g) /\ <<1, 3>> \in ToSet(g)
        /\ <<2, 1>> \in ToSet(g) /\ <<2, 3>> \in ToSet(g)
    BY <1>4, <1>6 DEF Events
  <2>2. g \in Seq(Events(p)) /\ Distinct(g)
    BY <1>6 DEF Order
  <2>3. <<1, 3>> # <<2, 1>> /\ <<2, 3>> # <<1, 1>>
    OBVIOUS
  <2>4. GmoBefore(g, <<1, 3>>, <<2, 1>>) /\ GmoBefore(g, <<2, 3>>, <<1, 1>>)
    BY <2>1, <2>2, <2>3, BeforeTotal
  <2>5. GmoBefore(g, <<1, 1>>, <<2, 1>>) /\ GmoBefore(g, <<2, 1>>, <<1, 1>>)
    BY <1>9, <2>2, <2>4, BeforeTransitive
  <2> QED
    BY <2>2, <2>5, BeforeStrict
<1>14. outcome[1] = 1 \/ outcome[2] = 1
  BY <1>11, <1>12, <1>13
<1>15. <<0, 0>>[1] = 0 /\ <<0, 0>>[2] = 0
  OBVIOUS
<1> QED
  BY <1>14, <1>15

(* MP_FENCE: hart 1, whose load the pair puts first, has none.             *)
LEMMA WriterReadsNothing ==
  ASSUME NEW p, p = Program["MP_FENCE"], NEW g, Explained(p, g)
  PROVE  outcome # <<1, 0>>
<1>1. Len(p[1]) = 3 /\ p[1] = <<W("x", 1), F, W("y", 1)>>
  BY DEF Program
<1>2. ASSUME NEW k \in 1 .. 4, <<1, k>> \in Kind(p, "load") PROVE FALSE
  <2>1. k <= 3 /\ p[1][k].op = "load"
    BY <1>1, <1>2 DEF Kind, Op
  <2>2. k = 1 \/ k = 2 \/ k = 3
    BY <2>1
  <2> QED
    BY <1>1, <2>1, <2>2 DEF W, F
<1>3. \A n \in 1 .. 4 : <<1, n>> \notin DOMAIN registers
  BY <1>2 DEF Explained, LoadsExplained
<1>4. outcome[1] = 0
  BY <1>3, NoLoad DEF Hart
<1>5. <<1, 0>>[1] = 1
  OBVIOUS
<1> QED
  BY <1>4, <1>5

(* No litmus test and no generated program is ever reported as failing:    *)
(* the pairs LITMUS forbids do not come up.                                *)
THEOREM Verdicts == Spec => []NoFalseAlarm
<1>1. IInv => NoFalseAlarm
  <2> SUFFICES ASSUME IInv, ended # "no", Unmutated
               PROVE  /\ ended # "raised"
                      /\ run.mode = "litmus" => run_litmus
                      /\ run.mode = "random" => run_random
    BY DEF NoFalseAlarm
  <2>1. PICK p : p = run.program
    OBVIOUS
  <2>2. ended # "raised" /\ ~invariant_failure
    BY NotDual DEF IInv, Plain
  <2>3. ASSUME run.mode = "litmus" PROVE outcome \notin forbidden
    <3>1. WellFormed(p) /\ ~run.backpressure
      BY <2>1, <2>3, RunsAre DEF IInv
    <3>2. Finished
      BY <2>2, <3>1 DEF IInv
    <3>3. PICK g \in Seq(Events(p)) : Explained(p, g)
      BY <2>1 DEF IInv, Plain
    <3>4. p = Program["SB_FENCE"] => outcome # <<0, 0>>
      BY <2>1, <3>1, <3>2, <3>3, FencedStores
    <3>5. p = Program["MP_FENCE"] => outcome # <<1, 0>>
      BY <3>3, WriterReadsNothing
    <3> QED
      BY <2>1, <3>4, <3>5 DEF forbidden
  <2> QED
    BY <2>2, <2>3 DEF run_litmus, run_random
<1> QED
  BY <1>1, Inductive, PTL

(* Two of the detectors report what they are for and nothing else.         *)
THEOREM Detectors == Spec => []DetectorsDiscriminate
<1>1. IInv /\ Unmutated => ~detected("illegal_dual_modified") /\ ~detected("early_fence_completion")
  BY NotDual DEF IInv, Plain, detected
<1>2. IInv /\ Mutated("illegal_dual_modified") /\ ended = "done" => run_mutations
  <2> SUFFICES ASSUME IInv, Mutated("illegal_dual_modified"), ended = "done" PROVE run_mutations
    OBVIOUS
  <2>1. DualModified /\ Finished
    BY DEF IInv
  <2>2. Len(run.program[1]) = 2 /\ 1 \in Hart /\ "x" \in Location
    BY <2>1, LocationAssumption DEF DualModified, Run, Probe, Hart
  <2>3. ~(pc[1] <= 2)
    BY <2>1, <2>2 DEF Finished, Running
  <2>4. \A h \in Hart : cache_state[h]["x"] = "M"
    BY <2>1, <2>3 DEF DualModified
  <2>5. invariant_failure
    BY <2>2, <2>4 DEF invariant_failure
  <2> QED
    BY <2>5 DEF run_mutations, detected, Mutated
<1>3. IInv => DetectorsDiscriminate
  BY <1>1, <1>2 DEF DetectorsDiscriminate
<1> QED
  BY <1>3, Inductive, PTL
=============================================================================
