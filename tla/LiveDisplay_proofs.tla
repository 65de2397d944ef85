--------------------------- MODULE LiveDisplay_proofs ---------------------------
(***************************************************************************)
(* From the samples to the screen, for any setups, ports, points, chunks,  *)
(* bad samples, lost connections and other clients: the two paths of a     *)
(* sweep agree (SweepPreview), and what the browser draws is of one        *)
(* generation, whole after All S, and never goes back (LiveDisplay).       *)
(*                                                                         *)
(* PreviewInv says what a preview is made of: while nothing of a sweep was *)
(* bad, the assembler has the samples of every trace whose port has been   *)
(* begun, and what the exchange retains is that.  That the exchange never  *)
(* turns such a preview down is part of the argument, not assumed.         *)
(* LiveInv adds what previews, frame sets and messages say of the sweep    *)
(* they are of, and that nothing drawn is newer than what is on its way.   *)
(***************************************************************************)
EXTENDS LiveDisplay, SequenceTheorems, FiniteSetTheorems, WellFoundedInduction,
        TLAPS

-------------------------------------------------------------------------------
(* The invariant.                                                           *)

Qualities == {"good", "zero reference", "zero response"}
Samples == [sweep : Nat, point : Nat, quality : Qualities]
Places == {"boundary", "held", "prepared", "source", "calculate", "published"}
InFlight == sweep.pc \in {"source", "calculate"}

Types ==
    /\ state.setup \in Setups
    /\ plan.gen \in Nat \ {0} /\ plan.setup \in Setups
    /\ sweep \in [pc : Places, id : Nat, samples : [Ports -> Seq(Samples)],
                  active : BOOLEAN, asked : BOOLEAN, more : BOOLEAN, stop : BOOLEAN]
    /\ assembler \in [raw : [Ports -> Nat], traces : {assembler.traces},
                      rejected : BOOLEAN]

\* A cycle is entered for a request, so no configuration is applied under it.
Requested == sweep.pc \in {"prepared", "source", "calculate", "published"} => sweep.more

Ex(gen, st, active, current, last, event) ==
    [gen |-> gen, status |-> st, active |-> active, current |-> current, last |-> last,
     event |-> event]
\* The exchange retains this, whatever its status and latest event are.
Retains(gen, active, current, last) ==
    exchange = Ex(gen, exchange.status, active, current, last, exchange.event)

\* The exchange is of the plan's generation and shows the worker's sweep or none.
ExchangeStands ==
    /\ Retains(plan.gen, exchange.active, exchange.current, exchange.last)
    /\ exchange.active \in {Nobody, Identity}
    /\ exchange.active = Nobody => exchange.current = NoPreview
    /\ exchange.active # Nobody => sweep.pc \in {"source", "calculate", "published"}
    /\ exchange.last \in 0..sweep.id

\* What has been captured: point after point, and in the end all of them.
CaptureStands ==
    \A p \in Ports :
        /\ Len(sweep.samples[p]) <= Points
        /\ \A i \in 1..Len(sweep.samples[p]) : sweep.samples[p][i].point = i
        /\ At("calculate") => Len(sweep.samples[p]) = Points

\* What both paths may find wrong with the samples of a port.
Fine(port, samples) ==
    /\ Synthesizes(plan.setup, port, samples)
    /\ \A t \in Measured(plan.setup, port) : Projects(plan.setup[t].format, samples)
AllFine == \A p \in Ports : Fine(p, sweep.samples[p])

\* The traces that have samples, and those samples.
Begun == {t \in DOMAIN plan.setup : Len(sweep.samples[plan.setup[t].source]) > 0}
Captured(t) == sweep.samples[plan.setup[t].source]

\* The assembler has what has been captured, and the exchange has it too.
Assembling ==
    /\ AllFine
    /\ \A p \in Ports : assembler.raw[p] = Len(sweep.samples[p])
    /\ DOMAIN assembler.traces = Begun
    /\ Begun # {} => /\ assembler.traces = [t \in Begun |-> Captured(t)]
                     /\ exchange.active = Identity
                     /\ exchange.current = Preview(assembler)
    /\ Begun = {} => exchange.active = Nobody /\ exchange.last < sweep.id

PreviewStands ==
    InFlight /\ sweep.active =>
        IF assembler.rejected THEN exchange.active = Nobody /\ ~AllFine
        ELSE Assembling

PreviewInv == Types /\ Requested /\ ExchangeStands /\ CaptureStands /\ PreviewStands

-------------------------------------------------------------------------------
(* Ports and sequences.                                                     *)

LEMMA PortsThere ==
    ASSUME Types
    PROVE  /\ \A i \in DOMAIN Sources : Sources[i] \in Ports
           /\ \A t \in DOMAIN plan.setup : plan.setup[t].source \in Ports
BY SourcesAssumption DEF Types, Ports

LEMMA IdentityIsSomebody ==
    ASSUME Types
    PROVE  Identity # Nobody
BY DEF Types, Identity, Nobody

LEMMA SeqFacts ==
    ASSUME NEW S, NEW s \in Seq(S)
    PROVE  /\ Len(s) \in Nat /\ DOMAIN s = 1..Len(s)
           /\ Len(s) = 0 => s = <<>>
BY LenProperties, EmptySeq

LEMMA PrefixOfConcat ==
    ASSUME NEW S, NEW s \in Seq(S), NEW t \in Seq(S)
    PROVE  IsPrefix(s, s \o t)
<1>1. /\ s \o t \in Seq(S) /\ Len(s \o t) = Len(s) + Len(t)
      /\ \A i \in 1..Len(s) : (s \o t)[i] = s[i]
    BY ConcatProperties
<1>2. Len(s) <= Len(s \o t)
    BY <1>1
<1>3. SubSeq(s, 1, Len(s)) = SubSeq(s \o t, 1, Len(s))
    BY <1>1
<1> QED
    BY <1>2, <1>3 DEF IsPrefix

\* A nonempty set of places in a sequence has a first one.
LEMMA FirstExists ==
    ASSUME NEW S \in SUBSET Nat, S # {}
    PROVE  \E x \in S : \A y \in S : x <= y
<1> DEFINE R == StrictSubsetOrdering(Nat)
           T == {0..x : x \in S}
<1>1. IsWellFoundedOn(R, FiniteSubsetsOf(Nat))
    BY FS_StrictSubsetOrderingWellFounded
<1>2. T \subseteq FiniteSubsetsOf(Nat) /\ T # {}
  <2>1. \A x \in S : 0..x \subseteq Nat /\ IsFiniteSet(0..x)
      BY FS_Interval
  <2> QED
      BY <2>1 DEF FiniteSubsetsOf
<1>3. PICK i \in T : \A j \in T : ~ (<<j, i>> \in R)
  <2> HIDE DEF R, T
  <2> QED
      BY <1>1, <1>2, WFMin
<1>4. PICK x \in S : i = 0..x
    OBVIOUS
<1>5. ASSUME NEW y \in S, y < x
      PROVE  FALSE
  <2>1. 0..y \subseteq 0..x /\ x \in 0..x /\ x \notin 0..y
      BY <1>5
  <2>2. 0..y \in SUBSET Nat /\ 0..x \in SUBSET Nat
      OBVIOUS
  <2>3. <<0..y, 0..x>> \in R
      BY <2>1, <2>2 DEF StrictSubsetOrdering
  <2> QED
      BY <1>3, <1>4, <2>3
<1> QED
    BY <1>5

LEMMA SourceThere ==
    ASSUME Types, Unfinished # {}
    PROVE  /\ Source \in Ports
           /\ Len(sweep.samples[Source]) < Points
<1>1. Sources \in Seq(Ports)
    BY SourcesAssumption
<1>2. Unfinished \in SUBSET Nat
    BY <1>1, LenProperties DEF Unfinished
<1>3. \E i \in Unfinished : \A j \in Unfinished : i <= j
    BY <1>2, FirstExists
<1>4. \E i \in Unfinished : Source = Sources[i]
    BY <1>3 DEF Source
<1> QED
    BY <1>4, PortsThere DEF Unfinished

-------------------------------------------------------------------------------
(* A chunk.                                                                 *)

LEMMA IntervalEnds ==
    ASSUME NEW m \in Nat, NEW n \in Nat, 1..m = 1..n
    PROVE  m = n
<1>1. CASE m < n
  <2>1. n \in 1..n /\ n \notin 1..m
      BY <1>1
  <2> QED
      BY <2>1
<1>2. CASE n < m
  <2>1. m \in 1..m /\ m \notin 1..n
      BY <1>2
  <2> QED
      BY <2>1
<1> QED
    BY <1>1, <1>2

LEMMA ProducedIs ==
    ASSUME Types, NEW first \in Nat, NEW count \in Nat, NEW quality \in Qualities
    PROVE  /\ Produced(first, count, quality) \in Seq(Samples)
           /\ Len(Produced(first, count, quality)) = count
           /\ \A i \in 1..count : /\ Produced(first, count, quality)[i].point = first + i
                                 /\ Produced(first, count, quality)[i].sweep = sweep.id
<1> DEFINE P == Produced(first, count, quality)
<1>1. P \in [1..count -> Samples]
  <2>0. sweep.id \in Nat
      BY DEF Types
  <2>1. \A i \in 1..count :
            [sweep |-> sweep.id, point |-> first + i,
             quality |-> IF i = count THEN quality ELSE "good"] \in Samples
    <3> TAKE i \in 1..count
    <3> DEFINE q == IF i = count THEN quality ELSE "good"
    <3>1. first + i \in Nat
        OBVIOUS
    <3>2. q \in Qualities
        BY DEF Qualities
    <3> HIDE DEF q
    <3>3. [sweep |-> sweep.id, point |-> first + i, quality |-> q] \in Samples
        BY <2>0, <3>1, <3>2 DEF Samples
    <3> QED
        BY <3>3 DEF q
  <2> QED
      BY <2>1 DEF Produced
<1>2. P \in Seq(Samples)
    BY <1>1, SeqDef
<1>3. DOMAIN P = 1..Len(P) /\ Len(P) \in Nat
    BY <1>2, LenProperties
<1>4. DOMAIN P = 1..count
    BY DEF Produced
<1> HIDE DEF P
<1>5. Len(P) = count
  <2>1. 1..Len(P) = 1..count
      BY <1>3, <1>4
  <2> QED
      BY <1>3, <2>1, IntervalEnds
<1>6. \A i \in 1..count : P[i].point = first + i /\ P[i].sweep = sweep.id
    BY DEF P, Produced
<1> QED
    BY <1>2, <1>5, <1>6 DEF P

\* What captureRawSweep hands to the observer.
ChunkOf(range) ==
    /\ range.source \in Ports
    /\ range.samples \in Seq(Samples)
    /\ Len(range.samples) >= 1
    /\ range.first = Len(sweep.samples[range.source])
    /\ range.first + Len(range.samples) <= Points
    /\ \A i \in 1..Len(range.samples) : /\ range.samples[i].point = range.first + i
                                        /\ range.samples[i].sweep = sweep.id

LEMMA ChunkIs ==
    ASSUME Types, Unfinished # {}, NEW quality \in Qualities
    PROVE  /\ ChunkOf(Chunk(quality))
           /\ Chunk(quality).source = Source
<1> DEFINE first == Len(sweep.samples[Source])
           count == Least(Points - first, ChunkPoints)
<1>1. Source \in Ports /\ first < Points
    BY SourceThere
<1>2. first \in Nat
    BY <1>1, LenProperties DEF Types
<1>4. Chunk(quality) = [source |-> Source, first |-> first,
                        samples |-> Produced(first, count, quality)]
    BY DEF Chunk
<1> HIDE DEF first
<1>3. count \in Nat /\ count >= 1 /\ first + count <= Points
    BY <1>1, <1>2, PreviewAssumption DEF Least
<1> HIDE DEF count
<1>5. /\ Produced(first, count, quality) \in Seq(Samples)
      /\ Len(Produced(first, count, quality)) = count
      /\ \A i \in 1..count : /\ Produced(first, count, quality)[i].point = first + i
                            /\ Produced(first, count, quality)[i].sweep = sweep.id
    BY <1>2, <1>3, ProducedIs
<1>6. /\ Chunk(quality).source = Source /\ Chunk(quality).first = first
      /\ Chunk(quality).samples = Produced(first, count, quality)
    BY <1>4
<1>7. first = Len(sweep.samples[Source])
    BY DEF first
<1> QED
    BY <1>1, <1>2, <1>3, <1>5, <1>6, <1>7 DEF ChunkOf

LEMMA FineTogether ==
    ASSUME NEW p, NEW s \in Seq(Samples), NEW t \in Seq(Samples)
    PROVE  Fine(p, s \o t) <=> Fine(p, s) /\ Fine(p, t)
<1>1. /\ s \o t \in Seq(Samples) /\ Len(s \o t) = Len(s) + Len(t)
      /\ \A i \in 1..(Len(s) + Len(t)) :
            (s \o t)[i] = IF i <= Len(s) THEN s[i] ELSE t[i - Len(s)]
    BY ConcatProperties
<1>2. /\ Len(s) \in Nat /\ Len(t) \in Nat
      /\ DOMAIN s = 1..Len(s) /\ DOMAIN t = 1..Len(t)
      /\ DOMAIN (s \o t) = 1..(Len(s) + Len(t))
    BY <1>1, LenProperties
<1>3. \A q : (\A i \in DOMAIN (s \o t) : (s \o t)[i].quality # q)
             <=> /\ \A i \in DOMAIN s : s[i].quality # q
                 /\ \A i \in DOMAIN t : t[i].quality # q
  <2> TAKE q
  <2>1. ASSUME \A i \in DOMAIN (s \o t) : (s \o t)[i].quality # q
        PROVE  /\ \A i \in DOMAIN s : s[i].quality # q
               /\ \A i \in DOMAIN t : t[i].quality # q
    <3>1. \A i \in DOMAIN s : i \in DOMAIN (s \o t) /\ (s \o t)[i] = s[i]
        BY <1>1, <1>2
    <3>2. \A i \in DOMAIN t : /\ i + Len(s) \in DOMAIN (s \o t)
                              /\ (s \o t)[i + Len(s)] = t[i]
        BY <1>1, <1>2
    <3> QED
        BY <2>1, <3>1, <3>2
  <2>2. ASSUME \A i \in DOMAIN s : s[i].quality # q, \A i \in DOMAIN t : t[i].quality # q
        PROVE  \A i \in DOMAIN (s \o t) : (s \o t)[i].quality # q
      BY <1>1, <1>2, <2>2
  <2> QED
      BY <2>1, <2>2
<1>4. Synthesizes(plan.setup, p, s \o t)
      <=> Synthesizes(plan.setup, p, s) /\ Synthesizes(plan.setup, p, t)
    BY <1>3 DEF Synthesizes
<1>5. \A f : Projects(f, s \o t) <=> Projects(f, s) /\ Projects(f, t)
    BY <1>3 DEF Projects
<1> QED
    BY <1>4, <1>5 DEF Fine

-------------------------------------------------------------------------------
(* The exchange.                                                            *)

LEMMA Fields ==
    ASSUME NEW ex, NEW g, NEW s, NEW a, NEW c, NEW l, NEW e, ex = Ex(g, s, a, c, l, e)
    PROVE  /\ ex.gen = g /\ ex.status = s /\ ex.active = a
           /\ ex.current = c /\ ex.last = l /\ ex.event = e
BY DEF Ex

LEMMA Emitted ==
    ASSUME NEW ex, NEW g, NEW s, NEW a, NEW c, NEW l, NEW e, ex = Ex(g, s, a, c, l, e),
           NEW ev
    PROVE  Emit(ex, ev) = Ex(g, s, a, c, l, ev)
BY DEF Ex, Emit

LEMMA StatusSet ==
    ASSUME NEW ex, NEW g, NEW s, NEW a, NEW c, NEW l, NEW e, ex = Ex(g, s, a, c, l, e),
           NEW st
    PROVE  [ex EXCEPT !.status = st] = Ex(g, st, a, c, l, e)
BY DEF Ex

Shows(ex, st, active, current) ==
    [ex EXCEPT !.active = active, !.current = current, !.status = st]
Opens(ex, gen, st, active, current) ==
    [ex EXCEPT !.gen = gen, !.status = st, !.active = active, !.current = current]

Adopts(ex, st, active, current, last) ==
    [ex EXCEPT !.active = active, !.last = last, !.current = current, !.status = st]

LEMMA AdoptedSet ==
    ASSUME NEW ex, NEW g, NEW s, NEW a, NEW c, NEW l, NEW e, ex = Ex(g, s, a, c, l, e),
           NEW st, NEW a2, NEW c2, NEW l2
    PROVE  Adopts(ex, st, a2, c2, l2) = Ex(g, st, a2, c2, l2, e)
<1>1. [ex EXCEPT !.active = a2] = Ex(g, s, a2, c, l, e)
    BY DEF Ex
<1>2. [Ex(g, s, a2, c, l, e) EXCEPT !.last = l2] = Ex(g, s, a2, c, l2, e)
    BY DEF Ex
<1>3. [Ex(g, s, a2, c, l2, e) EXCEPT !.current = c2] = Ex(g, s, a2, c2, l2, e)
    BY DEF Ex
<1>4. [Ex(g, s, a2, c2, l2, e) EXCEPT !.status = st] = Ex(g, st, a2, c2, l2, e)
    BY DEF Ex
<1>5. [ex EXCEPT !.active = a2, !.last = l2, !.current = c2, !.status = st]
      = [[[[ex EXCEPT !.active = a2] EXCEPT !.last = l2] EXCEPT !.current = c2]
            EXCEPT !.status = st]
    OBVIOUS
<1> QED
    BY <1>1, <1>2, <1>3, <1>4, <1>5 DEF Adopts

LEMMA ShownSet ==
    ASSUME NEW ex, NEW g, NEW s, NEW a, NEW c, NEW l, NEW e, ex = Ex(g, s, a, c, l, e),
           NEW st, NEW a2, NEW c2
    PROVE  Shows(ex, st, a2, c2) = Ex(g, st, a2, c2, l, e)
<1>1. [ex EXCEPT !.active = a2] = Ex(g, s, a2, c, l, e)
    BY DEF Ex
<1>2. [Ex(g, s, a2, c, l, e) EXCEPT !.current = c2] = Ex(g, s, a2, c2, l, e)
    BY DEF Ex
<1>3. [Ex(g, s, a2, c2, l, e) EXCEPT !.status = st] = Ex(g, st, a2, c2, l, e)
    BY DEF Ex
<1>4. [ex EXCEPT !.active = a2, !.current = c2, !.status = st]
      = [[[ex EXCEPT !.active = a2] EXCEPT !.current = c2] EXCEPT !.status = st]
    OBVIOUS
<1> QED
    BY <1>1, <1>2, <1>3, <1>4 DEF Shows

LEMMA AdvancedSet ==
    ASSUME NEW ex, NEW g, NEW s, NEW a, NEW c, NEW l, NEW e, ex = Ex(g, s, a, c, l, e),
           NEW st, NEW g2, NEW a2, NEW c2
    PROVE  Opens(ex, g2, st, a2, c2) = Ex(g2, st, a2, c2, l, e)
<1>1. [ex EXCEPT !.gen = g2] = Ex(g2, s, a, c, l, e)
    BY DEF Ex
<1>2. [Ex(g2, s, a, c, l, e) EXCEPT !.status = st] = Ex(g2, st, a, c, l, e)
    BY DEF Ex
<1>3. [Ex(g2, st, a, c, l, e) EXCEPT !.active = a2] = Ex(g2, st, a2, c, l, e)
    BY DEF Ex
<1>4. [Ex(g2, st, a2, c, l, e) EXCEPT !.current = c2] = Ex(g2, st, a2, c2, l, e)
    BY DEF Ex
<1>5. [ex EXCEPT !.gen = g2, !.status = st, !.active = a2, !.current = c2]
      = [[[[ex EXCEPT !.gen = g2] EXCEPT !.status = st] EXCEPT !.active = a2]
            EXCEPT !.current = c2]
    OBVIOUS
<1> QED
    BY <1>1, <1>2, <1>3, <1>4, <1>5 DEF Opens

\* A status alone changes nothing of what is retained.
LEMMA UpdateKeeps ==
    ASSUME ExchangeStands, NEW st, exchange' = UpdateForRuntime(st)
    PROVE  exchange' = Ex(plan.gen, exchange'.status, exchange.active,
                          exchange.current, exchange.last, exchange'.event)
<1>1. exchange = Ex(plan.gen, exchange.status, exchange.active, exchange.current,
                    exchange.last, exchange.event)
    BY DEF ExchangeStands, Retains
<1>2. CASE exchange' = exchange
    BY <1>1, <1>2
<1>3. CASE exchange' = Emit([exchange EXCEPT !.status = st], StatusEvent(st))
  <2>1. [exchange EXCEPT !.status = st]
        = Ex(plan.gen, st, exchange.active, exchange.current, exchange.last,
             exchange.event)
      BY <1>1, StatusSet
  <2>2. exchange' = Ex(plan.gen, st, exchange.active, exchange.current, exchange.last,
                       StatusEvent(st))
      BY <1>3, <2>1, Emitted
  <2> QED
      BY <2>2, Fields
<1> QED
    BY <1>2, <1>3 DEF UpdateForRuntime

\* A withdrawal leaves no preview, whether there was one or not.
LEMMA WithdrawClears ==
    ASSUME ExchangeStands, NEW st, Withdraw(st)
    PROVE  exchange' = Ex(plan.gen, exchange'.status, Nobody, NoPreview,
                          exchange.last, exchange'.event)
<1>1. exchange = Ex(plan.gen, exchange.status, exchange.active, exchange.current,
                    exchange.last, exchange.event)
    BY DEF ExchangeStands, Retains
<1>2. exchange.gen = plan.gen /\ Identity.gen = plan.gen
    BY <1>1, Fields DEF Identity
<1>3. CASE exchange.active = Identity
  <2>1. exchange' = Emit(Shows(exchange, st, Nobody, NoPreview),
                         Event("invalidated", Identity, NoPreview, st))
      BY <1>2, <1>3 DEF Withdraw, InvalidateForRuntime, Shows
  <2>2. Shows(exchange, st, Nobody, NoPreview)
        = Ex(plan.gen, st, Nobody, NoPreview, exchange.last, exchange.event)
      BY <1>1, ShownSet
  <2>3. exchange' = Ex(plan.gen, st, Nobody, NoPreview, exchange.last,
                       Event("invalidated", Identity, NoPreview, st))
      BY <2>1, <2>2, Emitted
  <2> QED
      BY <2>3, Fields
<1>4. CASE exchange.active # Identity
  <2>1. exchange' = UpdateForRuntime(st)
      BY <1>2, <1>4 DEF Withdraw, InvalidateForRuntime
  <2>2. exchange.active = Nobody /\ exchange.current = NoPreview
      BY <1>4 DEF ExchangeStands
  <2> QED
      BY <2>1, <2>2, UpdateKeeps
<1> QED
    BY <1>3, <1>4

\* The exchange is left alone, is told a status, or gives its preview up.
LEMMA UnmovedStands ==
    ASSUME Types, ExchangeStands, NEW st,
           exchange' = exchange \/ exchange' = UpdateForRuntime(st),
           plan'.gen = plan.gen, sweep'.id = sweep.id,
           exchange.active # Nobody => sweep'.pc \in {"source", "calculate", "published"}
    PROVE  /\ ExchangeStands'
           /\ exchange'.active = exchange.active /\ exchange'.current = exchange.current
           /\ exchange'.last = exchange.last
<1>1. exchange' = Ex(plan.gen, exchange'.status, exchange.active, exchange.current,
                     exchange.last, exchange'.event)
    BY UpdateKeeps DEF ExchangeStands, Retains
<1>2. /\ exchange'.active = exchange.active /\ exchange'.current = exchange.current
      /\ exchange'.last = exchange.last
    BY <1>1, Fields
<1>3. Identity' = Identity
    BY DEF Identity
<1> QED
    BY <1>1, <1>2, <1>3 DEF ExchangeStands, Retains

LEMMA WithdrawnStands ==
    ASSUME Types, ExchangeStands, NEW st, Withdraw(st),
           plan'.gen = plan.gen, sweep'.id = sweep.id
    PROVE  ExchangeStands' /\ exchange'.active = Nobody
<1>1. exchange' = Ex(plan.gen, exchange'.status, Nobody, NoPreview,
                     exchange.last, exchange'.event)
    BY WithdrawClears
<1>2. /\ exchange'.active = Nobody /\ exchange'.current = NoPreview
      /\ exchange'.last = exchange.last
    BY <1>1, Fields
<1> QED
    BY <1>1, <1>2 DEF ExchangeStands, Retains

\* A sweep boundary: the plan, and with another generation the exchange is emptied.
LEMMA ApplyStands ==
    ASSUME Types, ExchangeStands, NEW rev, NEW setup \in Setups, Apply(rev, setup),
           sweep.pc \notin {"source", "calculate", "published"}, sweep'.id = sweep.id
    PROVE  /\ plan'.gen \in Nat \ {0} /\ plan'.setup \in Setups
           /\ ExchangeStands'
<1> DEFINE next == [gen |-> plan.gen + (IF setup # plan.setup THEN 1 ELSE 0),
                    rev |-> rev, setup |-> setup]
<1>1. plan' = next
    BY DEF Apply
<1>2. plan'.gen \in Nat \ {0} /\ plan'.setup \in Setups
    BY <1>1 DEF Types
<1>3. exchange.active = Nobody /\ exchange.current = NoPreview
    BY DEF ExchangeStands
<1>4. exchange = Ex(plan.gen, exchange.status, exchange.active, exchange.current,
                    exchange.last, exchange.event)
    BY DEF ExchangeStands, Retains
<1>5. exchange' = Ex(plan'.gen, exchange'.status, Nobody, NoPreview, exchange.last,
                     exchange'.event)
  <2>1. CASE setup # plan.setup
    <3> DEFINE st == HoldStatus(next)
    <3>1. exchange' = Advanced(plan'.gen, st)
        BY <1>1, <2>1 DEF Apply
    <3> HIDE DEF st
    <3>2. Opens(exchange, plan'.gen, st, Nobody, NoPreview)
          = Ex(plan'.gen, st, Nobody, NoPreview, exchange.last, exchange.event)
        BY <1>4, AdvancedSet
    <3>3. exchange' = Ex(plan'.gen, st, Nobody, NoPreview, exchange.last,
                         Event("generationAdvanced", Nobody, NoPreview, st))
        BY <3>1, <3>2, Emitted DEF Advanced, Opens
    <3> QED
        BY <3>3, Fields
  <2>2. CASE setup = plan.setup
    <3>1. exchange' = UpdateForRuntime(HoldStatus(next)) /\ plan'.gen = plan.gen
        BY <1>1, <2>2 DEF Apply, Types
    <3> QED
        BY <1>3, <3>1, UpdateKeeps
  <2> QED
      BY <2>1, <2>2
<1>6. /\ exchange'.active = Nobody /\ exchange'.current = NoPreview
      /\ exchange'.last = exchange.last
    BY <1>5, Fields
<1> QED
    BY <1>2, <1>5, <1>6 DEF ExchangeStands, Retains

-------------------------------------------------------------------------------
(* A chunk arrives.                                                         *)

Recorded(range) == sweep' = [sweep EXCEPT !.samples[range.source] = @ \o range.samples]

LEMMA DeliverIs ==
    ASSUME Types, NEW quality \in Qualities, Deliver(quality)
    PROVE  \E range : /\ ChunkOf(range) /\ Recorded(range) /\ Observe(range)
                      /\ At("source") /\ UNCHANGED <<state, plan, published>>
<1>1. Unfinished # {}
    BY DEF Deliver
<1>2. ChunkOf(Chunk(quality)) /\ Chunk(quality).source = Source
    BY <1>1, ChunkIs
<1>3. Recorded(Chunk(quality))
    BY <1>2 DEF Deliver, Recorded
<1> QED
    BY <1>2, <1>3 DEF Deliver

\* What has been captured of a port grows by the chunk, the rest stays.
LEMMA CaptureGrows ==
    ASSUME Types, CaptureStands, At("source"), NEW range, ChunkOf(range), Recorded(range)
    PROVE  /\ sweep' = [sweep EXCEPT !.samples = sweep'.samples]
           /\ sweep'.samples \in [Ports -> Seq(Samples)]
           /\ sweep'.samples[range.source]
                  = sweep.samples[range.source] \o range.samples
           /\ Len(sweep'.samples[range.source])
                  = Len(sweep.samples[range.source]) + Len(range.samples)
           /\ \A p \in Ports : p # range.source => sweep'.samples[p] = sweep.samples[p]
           /\ CaptureStands'
<1> DEFINE p == range.source
           old == sweep.samples[p]
           new == old \o range.samples
<1>1. /\ p \in Ports /\ old \in Seq(Samples) /\ range.samples \in Seq(Samples)
      /\ Len(old) \in Nat /\ Len(range.samples) \in Nat
    BY LenProperties DEF Types, ChunkOf
<1>2. /\ new \in Seq(Samples) /\ Len(new) = Len(old) + Len(range.samples)
      /\ \A i \in 1..(Len(old) + Len(range.samples)) :
            new[i] = IF i <= Len(old) THEN old[i] ELSE range.samples[i - Len(old)]
    BY <1>1, ConcatProperties
<1>3. sweep' = [sweep EXCEPT !.samples = [sweep.samples EXCEPT ![p] = new]]
    BY DEF Recorded
<1> HIDE DEF new
<1>4. sweep'.samples = [sweep.samples EXCEPT ![p] = new] /\ sweep'.pc = sweep.pc
    BY <1>3 DEF Types
<1>5. /\ sweep'.samples \in [Ports -> Seq(Samples)]
      /\ sweep'.samples[p] = new
      /\ \A q \in Ports : q # p => sweep'.samples[q] = sweep.samples[q]
    BY <1>1, <1>2, <1>4 DEF Types
<1>6. /\ Len(old) + Len(range.samples) <= Points
      /\ \A i \in 1..Len(range.samples) : range.samples[i].point = Len(old) + i
      /\ \A i \in 1..Len(old) : old[i].point = i
    BY <1>1 DEF ChunkOf, CaptureStands
<1>7. \A i \in 1..Len(new) : new[i].point = i
  <2> SUFFICES ASSUME NEW i \in 1..Len(new)
               PROVE  new[i].point = i
      OBVIOUS
  <2> HIDE DEF old
  <2>1. CASE i <= Len(old)
      BY <1>1, <1>2, <1>6, <2>1
  <2>2. CASE i > Len(old)
    <3>1. i - Len(old) \in 1..Len(range.samples)
        BY <1>1, <1>2, <2>2
    <3>2. new[i] = range.samples[i - Len(old)]
        BY <1>1, <1>2, <2>2
    <3>3. range.samples[i - Len(old)].point = Len(old) + (i - Len(old))
        BY <1>6, <3>1
    <3> QED
        BY <1>1, <3>2, <3>3
  <2> QED
      BY <1>1, <1>2, <2>1, <2>2
<1>8. CaptureStands'
    BY <1>1, <1>2, <1>4, <1>5, <1>6, <1>7 DEF CaptureStands, At
<1>9. sweep' = [sweep EXCEPT !.samples = sweep'.samples]
    BY <1>3, <1>4
<1> QED
    BY <1>2, <1>5, <1>8, <1>9 DEF new

LEMMA AppendedFields ==
    ASSUME NEW range,
           assembler \in [raw : [Ports -> Nat], traces : {assembler.traces},
                          rejected : BOOLEAN]
    PROVE  /\ Assembled(range) = [raw |-> Assembled(range).raw,
                                  traces |-> Assembled(range).traces,
                                  rejected |-> assembler.rejected]
           /\ Assembled(range).raw
                  = [assembler.raw EXCEPT
                        ![range.source] = assembler.raw[range.source] + Len(range.samples)]
           /\ Assembled(range).traces = Appended(assembler.traces, plan.setup, range)
<1> DEFINE raw == [assembler.raw EXCEPT
                       ![range.source] = assembler.raw[range.source] + Len(range.samples)]
           traces == Appended(assembler.traces, plan.setup, range)
<1>1. Assembled(range) = [[assembler EXCEPT !.raw = raw] EXCEPT !.traces = traces]
    BY DEF Assembled
<1>2. assembler = [raw |-> assembler.raw, traces |-> assembler.traces,
                   rejected |-> assembler.rejected]
    OBVIOUS
<1> HIDE DEF raw, traces
<1>3. [assembler EXCEPT !.raw = raw]
      = [raw |-> raw, traces |-> assembler.traces, rejected |-> assembler.rejected]
    BY <1>2
<1>4. Assembled(range)
      = [raw |-> raw, traces |-> traces, rejected |-> assembler.rejected]
    BY <1>1, <1>3
<1> QED
    BY <1>4 DEF raw, traces

\* What a chunk makes of the assembler and of what the paths may find wrong.
LEMMA ChunkAppends ==
    ASSUME Types, CaptureStands, Assembling, At("source"), plan' = plan,
           NEW range, ChunkOf(range), Recorded(range)
    PROVE  /\ Begun' = Begun \cup Measured(plan.setup, range.source)
           /\ AllFine' <=> Fine(range.source, range.samples)
           /\ Assembles(range) <=> Fine(range.source, range.samples)
           /\ \A t \in Begun : IsPrefix(Captured(t), Captured(t)')
           /\ DOMAIN Assembled(range).traces = Begun'
           /\ Begun' # {} => Assembled(range).traces = [t \in Begun' |-> Captured(t)']
           /\ \A p \in Ports : Assembled(range).raw[p] = Len(sweep'.samples[p])
           /\ Assembled(range) \in [raw : [Ports -> Nat],
                  traces : {Assembled(range).traces}, rejected : {assembler.rejected}]
<1> DEFINE q == range.source
           affected == Measured(plan.setup, q)
<1>1. /\ sweep'.samples \in [Ports -> Seq(Samples)]
      /\ sweep'.samples[q] = sweep.samples[q] \o range.samples
      /\ Len(sweep'.samples[q]) = Len(sweep.samples[q]) + Len(range.samples)
      /\ \A p \in Ports : p # q => sweep'.samples[p] = sweep.samples[p]
    BY CaptureGrows
<1>2. /\ q \in Ports /\ sweep.samples[q] \in Seq(Samples)
      /\ range.samples \in Seq(Samples)
      /\ Len(sweep.samples[q]) \in Nat /\ Len(range.samples) \in Nat
      /\ Len(range.samples) >= 1 /\ range.first = Len(sweep.samples[q])
    BY LenProperties DEF Types, ChunkOf
<1>3. /\ \A t \in DOMAIN plan.setup : plan.setup[t].source \in Ports
      /\ \A t : t \in affected <=> t \in DOMAIN plan.setup /\ plan.setup[t].source = q
    BY PortsThere DEF Measured
<1>4. /\ \A t \in affected : Captured(t)' = sweep.samples[q] \o range.samples
      /\ \A t \in DOMAIN plan.setup \ affected : Captured(t)' = Captured(t)
    BY <1>1, <1>3 DEF Captured
<1>5. Begun' = Begun \cup affected
  <2>1. /\ Begun' = {t \in DOMAIN plan.setup : Len(Captured(t)') > 0}
        /\ Begun = {t \in DOMAIN plan.setup : Len(Captured(t)) > 0}
      BY DEF Begun, Captured
  <2>2. \A t \in affected : Len(Captured(t)') > 0
    <3>1. Len(sweep.samples[q] \o range.samples) > 0
      <4>1. Len(sweep.samples[q] \o range.samples)
            = Len(sweep.samples[q]) + Len(range.samples)
          BY <1>2, ConcatProperties
      <4> DEFINE a == Len(sweep.samples[q])
                 b == Len(range.samples)
      <4>2. a \in Nat /\ b \in Nat /\ b >= 1
          BY <1>2
      <4>3. a + b > 0
        <5> HIDE DEF a, b
        <5> QED
            BY <4>2
      <4> QED
          BY <4>1, <4>3
    <3> HIDE DEF q, affected
    <3> QED
        BY <1>4, <3>1
  <2>3. \A t \in DOMAIN plan.setup : t \notin affected => Captured(t)' = Captured(t)
      BY <1>4
  <2>4. affected \subseteq DOMAIN plan.setup
      BY <1>3
  <2> HIDE DEF affected
  <2> QED
      BY <2>1, <2>2, <2>3, <2>4
<1>6. AllFine' <=> Fine(q, range.samples)
  <2>1. AllFine' <=> \A p \in Ports : Fine(p, sweep'.samples[p])
      BY DEF AllFine, Fine
  <2>2. \A p \in Ports : Fine(p, sweep.samples[p])
      BY DEF Assembling, AllFine
  <2>3. Fine(q, sweep'.samples[q]) <=> Fine(q, sweep.samples[q]) /\ Fine(q, range.samples)
      BY <1>1, <1>2, FineTogether
  <2> QED
      BY <1>1, <1>2, <2>1, <2>2, <2>3
<1>7. Assembles(range) <=> Fine(q, range.samples)
  <2>1. InOrder(range)
      BY <1>2 DEF Assembling, InOrder
  <2>2. \A t \in affected : t \in DOMAIN assembler.traces \/ range.first = 0
      BY <1>2, <1>3 DEF Assembling, Begun
  <2> QED
      BY <2>1, <2>2 DEF Assembles, Fine
<1>8. \A t \in Begun : IsPrefix(Captured(t), Captured(t)')
  <2> SUFFICES ASSUME NEW t \in Begun
               PROVE  IsPrefix(Captured(t), Captured(t)')
      OBVIOUS
  <2>1. t \in DOMAIN plan.setup /\ Captured(t) \in Seq(Samples)
      BY <1>3 DEF Begun, Captured, Types
  <2>2. CASE t \in affected
    <3>1. Captured(t)' = Captured(t) \o range.samples
        BY <1>3, <1>4, <2>2 DEF Captured
    <3> QED
        BY <1>2, <2>1, <3>1, PrefixOfConcat
  <2>3. CASE t \notin affected
    <3>1. Captured(t)' = Captured(t)
        BY <1>4, <2>1, <2>3
    <3> QED
        BY <2>1, <3>1, LenProperties DEF IsPrefix
  <2> QED
      BY <2>2, <2>3
<1>9. Assembled(range) = [raw |-> Assembled(range).raw, traces |-> Assembled(range).traces,
                          rejected |-> assembler.rejected]
      /\ Assembled(range).raw
             = [assembler.raw EXCEPT ![q] = assembler.raw[q] + Len(range.samples)]
      /\ Assembled(range).traces = Appended(assembler.traces, plan.setup, range)
    BY AppendedFields DEF Types
<1>10. DOMAIN Assembled(range).traces = Begun'
    BY <1>5, <1>9 DEF Appended, Assembling
<1>11. Begun' # {} => Assembled(range).traces = [t \in Begun' |-> Captured(t)']
  <2>1. Appended(assembler.traces, plan.setup, range)
        = [t \in Begun' |->
              IF t \notin affected THEN assembler.traces[t]
              ELSE (IF t \in Begun THEN assembler.traces[t] ELSE <<>>) \o range.samples]
      BY <1>5 DEF Appended, Assembling
  <2>2. ASSUME NEW t \in Begun'
        PROVE  Captured(t)' =
                   IF t \notin affected THEN assembler.traces[t]
                   ELSE (IF t \in Begun THEN assembler.traces[t] ELSE <<>>) \o range.samples
    <3>1. t \in Begun => assembler.traces[t] = Captured(t)
        BY DEF Assembling
    <3>2. CASE t \notin affected
        BY <1>4, <1>5, <2>2, <3>1, <3>2 DEF Begun
    <3>3. CASE t \in affected /\ t \in Begun
        BY <1>3, <1>4, <3>1, <3>3 DEF Captured
    <3>4. CASE t \in affected /\ t \notin Begun
      <4>1. Len(sweep.samples[q]) = 0
          BY <1>2, <1>3, <3>4 DEF Begun
      <4>2. sweep.samples[q] = <<>>
          BY <1>2, <4>1, SeqFacts
      <4> QED
          BY <1>4, <3>4, <4>2
    <3> QED
        BY <3>2, <3>3, <3>4
  <2> QED
      BY <1>9, <2>1, <2>2
<1>12. /\ \A p \in Ports : Assembled(range).raw[p] = Len(sweep'.samples[p])
       /\ Assembled(range).raw \in [Ports -> Nat]
  <2>1. /\ assembler.raw \in [Ports -> Nat]
        /\ \A p \in Ports : assembler.raw[p] = Len(sweep.samples[p])
      BY DEF Assembling, Types
  <2>2. Assembled(range).raw
            = [assembler.raw EXCEPT ![q] = assembler.raw[q] + Len(range.samples)]
      BY <1>9
  <2>3. assembler.raw[q] + Len(range.samples) = Len(sweep'.samples[q])
      BY <1>1, <1>2, <2>1
  <2>4. assembler.raw[q] + Len(range.samples) \in Nat
      BY <1>2, <2>1
  <2>5. q \in Ports /\ \A p \in Ports : p # q => sweep'.samples[p] = sweep.samples[p]
      BY <1>1, <1>2
  <2> DEFINE raw == Assembled(range).raw
             more == assembler.raw[q] + Len(range.samples)
  <2> HIDE DEF q, raw, more
  <2>6. raw = [assembler.raw EXCEPT ![q] = more]
      BY <2>2 DEF raw, more
  <2>7. more = Len(sweep'.samples[q]) /\ more \in Nat
      BY <2>3, <2>4 DEF more
  <2>8. (\A p \in Ports : raw[p] = Len(sweep'.samples[p])) /\ raw \in [Ports -> Nat]
      BY <2>1, <2>5, <2>6, <2>7
  <2> QED
      BY <2>8 DEF raw
<1> QED
    BY <1>5, <1>6, <1>7, <1>8, <1>9, <1>10, <1>11, <1>12

\* The exchange takes the preview of a chunk that could be assembled.
LEMMA PreviewAccepted ==
    ASSUME PreviewInv, At("source"), sweep.active, ~assembler.rejected,
           plan' = plan, NEW range, ChunkOf(range), Recorded(range),
           Measured(plan.setup, range.source) # {}, NEW phase, NEW done
    PROVE  Accepts(Preview(Assembled(range)), Status(plan, phase, sweep.id, done))
<1> DEFINE next == Preview(Assembled(range))
<1>1. Assembling /\ Types /\ CaptureStands /\ ExchangeStands
    BY DEF PreviewInv, PreviewStands, InFlight, At
<1>2. /\ next.ident = Identity /\ next.rev = plan.rev
      /\ next.traces = Assembled(range).traces
    BY DEF Preview, Identity
<1>3. /\ Begun' = Begun \cup Measured(plan.setup, range.source)
      /\ next.traces = [t \in Begun' |-> Captured(t)']
      /\ \A t \in Begun : IsPrefix(Captured(t), Captured(t)')
    BY <1>1, <1>2, ChunkAppends
<1>4. Begun' \subseteq DOMAIN plan.setup
    BY DEF Begun
<1>5. ValidPreview(next)
  <2>1. DOMAIN next.traces # {}
      BY <1>3
  <2>2. ASSUME NEW t \in Begun'
        PROVE  ValidTrace(next.traces[t])
    <3> DEFINE p == plan.setup[t].source
               new == sweep'.samples[p]
    <3>1. p \in Ports /\ next.traces[t] = new
        BY <1>1, <1>3, <1>4, <2>2, PortsThere DEF Captured
    <3>2. /\ new \in Seq(Samples) /\ Len(new) <= Points
          /\ \A i \in 1..Len(new) : new[i].point = i
        BY <1>1, <3>1, CaptureGrows DEF CaptureStands
    <3>3. Len(new) > 0
        BY <2>2 DEF Begun
    <3> HIDE DEF new
    <3>4. Len(new) \in 1..Points
        BY <3>2, <3>3, LenProperties, PreviewAssumption
    <3>5. Increasing(new)
        BY <3>2, <3>4, PreviewAssumption DEF Increasing
    <3> QED
        BY <3>1, <3>4, <3>5 DEF ValidTrace
  <2> QED
      BY <1>3, <2>1, <2>2 DEF ValidPreview
<1>6. exchange.gen = plan.gen
    BY <1>1, Fields DEF ExchangeStands, Retains
<1>7. exchange.active = Identity => IsCumulativeExtension(exchange.current, next)
  <2> SUFFICES ASSUME exchange.active = Identity
               PROVE  IsCumulativeExtension(exchange.current, next)
      OBVIOUS
  <2>1. Begun # {}
      BY <1>1, IdentityIsSomebody DEF Assembling
  <2>2. /\ exchange.current = Preview(assembler)
        /\ assembler.traces = [t \in Begun |-> Captured(t)]
      BY <1>1, <2>1 DEF Assembling
  <2>3. /\ exchange.current.ident = Identity /\ exchange.current.rev = plan.rev
        /\ exchange.current.traces = [t \in Begun |-> Captured(t)]
      BY <2>2 DEF Preview, Identity
  <2>4. ASSUME NEW t \in Begun
        PROVE  SamePrefix(exchange.current, next, t)
      BY <1>3, <2>3 DEF SamePrefix
  <2> QED
      BY <1>2, <2>3, <2>4 DEF IsCumulativeExtension
<1>8. exchange.active # Identity => sweep.id > exchange.last
  <2>1. exchange.active # Identity => exchange.last < sweep.id
      BY <1>1 DEF Assembling
  <2> QED
      BY <1>1, <2>1 DEF ExchangeStands, Types
<1>9. next.ident.gen = plan.gen /\ next.ident.sweep = sweep.id
    BY <1>2 DEF Identity
<1> QED
    BY <1>2, <1>5, <1>6, <1>7, <1>8, <1>9 DEF Accepts, Status

\* What was bad stays bad.
LEMMA BadStays ==
    ASSUME Types, CaptureStands, At("source"), plan' = plan,
           NEW range, ChunkOf(range), Recorded(range), AllFine'
    PROVE  AllFine
<1>1. \A p \in Ports : Fine(p, sweep'.samples[p])
    BY DEF AllFine, Fine
<1>2. sweep.samples[range.source] \in Seq(Samples) /\ range.samples \in Seq(Samples)
      /\ range.source \in Ports
    BY DEF Types, ChunkOf
<1>3. Fine(range.source, sweep.samples[range.source])
  <2>1. sweep'.samples[range.source] = sweep.samples[range.source] \o range.samples
      BY CaptureGrows
  <2>2. Fine(range.source, sweep.samples[range.source] \o range.samples)
      BY <1>1, <1>2, <2>1
  <2> QED
      BY <1>2, <2>2, FineTogether
<1>4. \A p \in Ports : p # range.source => sweep'.samples[p] = sweep.samples[p]
    BY CaptureGrows
<1> QED
    BY <1>1, <1>3, <1>4 DEF AllFine

\* A chunk that is assembled: what the exchange then retains is the assembler's.
LEMMA AssembledStands ==
    ASSUME Types, ExchangeStands, CaptureStands, Assembling, At("source"), plan' = plan,
           ~assembler.rejected, NEW range, ChunkOf(range), Recorded(range),
           Assembles(range), assembler' = Assembled(range), sweep'.id = sweep.id,
           IF Measured(plan.setup, range.source) = {}
           THEN /\ exchange'.active = exchange.active /\ exchange'.last = exchange.last
                /\ exchange'.current = exchange.current
           ELSE exchange'.active = Identity /\ exchange'.current = Preview(Assembled(range))
    PROVE  Assembling' /\ ~assembler'.rejected
<1>1. /\ Begun' = Begun \cup Measured(plan.setup, range.source)
      /\ AllFine'
      /\ DOMAIN assembler'.traces = Begun'
      /\ Begun' # {} => assembler'.traces = [t \in Begun' |-> Captured(t)']
      /\ \A p \in Ports : assembler'.raw[p] = Len(sweep'.samples[p])
      /\ assembler'.rejected = assembler.rejected
    BY ChunkAppends
<1>2. Identity' = Identity /\ Preview(assembler)' = Preview(assembler')
    BY DEF Identity, Preview
<1>3. CASE Measured(plan.setup, range.source) = {}
  <2>1. Begun' = Begun
      BY <1>1, <1>3
  <2>2. \A t \in Begun : Captured(t)' = Captured(t)
    <3>1. \A t \in Begun : plan.setup[t].source # range.source
                           /\ plan.setup[t].source \in Ports
        BY <1>3, PortsThere DEF Begun, Measured
    <3> QED
        BY <3>1, CaptureGrows DEF Captured
  <2>3. Begun # {} => assembler'.traces = assembler.traces
      BY <1>1, <2>1, <2>2 DEF Assembling
  <2>4. Begun # {} => Preview(assembler') = Preview(assembler)
      BY <2>3 DEF Preview
  <2> QED
      BY <1>1, <1>2, <1>3, <2>1, <2>4 DEF Assembling
<1>4. CASE Measured(plan.setup, range.source) # {}
  <2>1. Begun' # {}
      BY <1>1, <1>4
  <2> QED
      BY <1>1, <1>2, <1>4, <2>1 DEF Assembling
<1> QED
    BY <1>3, <1>4

\* One chunk, whatever becomes of it, keeps the exchange in step with the sweep.
LEMMA ObserveStands ==
    ASSUME PreviewInv, At("source"), UNCHANGED <<state, plan>>,
           NEW range, ChunkOf(range), Recorded(range), Observe(range)
    PROVE  PreviewInv'
<1> DEFINE st == Status(plan, "sweeping", sweep.id, status.done + Len(range.samples))
           affected == Measured(plan.setup, range.source)
<1>1. Types /\ Requested /\ CaptureStands /\ ExchangeStands /\ PreviewStands
    BY DEF PreviewInv
<1>2. /\ sweep' = [sweep EXCEPT !.samples = sweep'.samples]
      /\ sweep'.samples \in [Ports -> Seq(Samples)]
      /\ CaptureStands'
    BY <1>1, CaptureGrows
<1>3. /\ sweep'.pc = "source" /\ sweep'.id = sweep.id /\ sweep'.active = sweep.active
      /\ sweep'.more = sweep.more
      /\ sweep' \in [pc : Places, id : Nat, samples : [Ports -> Seq(Samples)],
                     active : BOOLEAN, asked : BOOLEAN, more : BOOLEAN, stop : BOOLEAN]
    BY <1>1, <1>2 DEF Types, At
<1>4. Identity' = Identity
    BY <1>3 DEF Identity
<1>5. Requested'
    BY <1>1, <1>3 DEF Requested, At
<1>6. SUFFICES /\ assembler' \in [raw : [Ports -> Nat], traces : {assembler'.traces},
                                  rejected : BOOLEAN]
               /\ ExchangeStands' /\ PreviewStands'
    BY <1>1, <1>2, <1>3, <1>5 DEF PreviewInv, Types
<1>7. sweep.active /\ ~assembler.rejected => Assembling
    BY <1>1 DEF PreviewStands, InFlight, At
<1>8. Assembled(range) \in [raw : [Ports -> Nat], traces : {Assembled(range).traces},
                            rejected : {assembler.rejected}]
  <2>1. /\ Len(range.samples) \in Nat /\ range.source \in Ports
        /\ assembler.raw \in [Ports -> Nat]
      BY <1>1, LenProperties DEF ChunkOf, Types
  <2>2. [assembler.raw EXCEPT
            ![range.source] = assembler.raw[range.source] + Len(range.samples)]
        \in [Ports -> Nat]
      BY <2>1
  <2>3. /\ Assembled(range) = [raw |-> Assembled(range).raw,
                               traces |-> Assembled(range).traces,
                               rejected |-> assembler.rejected]
        /\ Assembled(range).raw \in [Ports -> Nat]
      BY <1>1, <2>2, AppendedFields DEF Types
  <2> QED
      BY <2>3
<1>13. Assembled(range) \in [raw : [Ports -> Nat], traces : {Assembled(range).traces},
                             rejected : BOOLEAN]
    BY <1>1, <1>8 DEF Types
<1> HIDE DEF st
<1>9. CASE assembler.rejected
  <2>1. assembler' = assembler
        /\ (exchange' = UpdateForRuntime(st) \/ exchange' = exchange)
      BY <1>9 DEF Observe, Show, st
  <2>2. ExchangeStands' /\ exchange'.active = exchange.active
      BY <1>1, <1>3, <2>1, UnmovedStands
  <2>3. PreviewStands'
      BY <1>1, <1>3, <1>9, <2>1, <2>2, BadStays DEF PreviewStands, InFlight, At
  <2> QED
      BY <1>1, <2>1, <2>2, <2>3 DEF Types
<1>10. CASE ~assembler.rejected /\ ~sweep.active
  <2>1. exchange' = exchange /\ (assembler' = assembler \/ assembler' = Assembled(range))
      BY <1>10 DEF Observe
  <2>2. ExchangeStands'
      BY <1>1, <1>3, <2>1, UnmovedStands
  <2>3. PreviewStands'
      BY <1>3, <1>10 DEF PreviewStands
  <2> QED
      BY <1>1, <1>8, <2>1, <2>2, <2>3 DEF Types
<1>11. CASE ~assembler.rejected /\ sweep.active /\ ~Assembles(range)
  <2>1. assembler' = [assembler EXCEPT !.rejected = TRUE] /\ Withdraw(st)
      BY <1>11 DEF Observe, Rejects, st
  <2>2. ExchangeStands' /\ exchange'.active = Nobody
      BY <1>1, <1>3, <2>1, WithdrawnStands
  <2>3. ~AllFine'
      BY <1>1, <1>7, <1>11, ChunkAppends
  <2>4. /\ assembler'.rejected
        /\ assembler' \in [raw : [Ports -> Nat], traces : {assembler'.traces},
                           rejected : BOOLEAN]
      BY <1>1, <2>1 DEF Types
  <2> QED
      BY <2>2, <2>3, <2>4 DEF PreviewStands
<1>12. CASE ~assembler.rejected /\ sweep.active /\ Assembles(range)
  <2>1. CASE affected = {}
    <3>1. assembler' = Assembled(range) /\ exchange' = UpdateForRuntime(st)
        BY <1>12, <2>1 DEF Observe, Show, st
    <3>2. /\ ExchangeStands'
          /\ exchange'.active = exchange.active /\ exchange'.current = exchange.current
          /\ exchange'.last = exchange.last
        BY <1>1, <1>3, <3>1, UnmovedStands
    <3>3. Assembling' /\ ~assembler'.rejected
        BY <1>1, <1>3, <1>7, <1>12, <2>1, <3>1, <3>2, AssembledStands
    <3> QED
        BY <1>13, <3>1, <3>2, <3>3 DEF PreviewStands
  <2>2. CASE affected # {}
    <3> DEFINE next == Preview(Assembled(range))
               event == Event("available", next.ident, next, st)
    <3>1. Accepts(next, st)
        BY <1>12, <2>2, PreviewAccepted DEF st
    <3>2. assembler' = Assembled(range) /\ exchange' = Shown(next, st)
        BY <1>12, <2>2, <3>1 DEF Observe, st
    <3>3. next.ident = Identity /\ next.ident.sweep = sweep.id
        BY DEF Preview, Identity
    <3>4. exchange' = Emit(Adopts(exchange, st, Identity, next, sweep.id), event)
        BY <3>2, <3>3 DEF Shown, Adopts
    <3> HIDE DEF next, event
    <3>5. exchange = Ex(plan.gen, exchange.status, exchange.active, exchange.current,
                        exchange.last, exchange.event)
        BY <1>1 DEF ExchangeStands, Retains
    <3>6. Adopts(exchange, st, Identity, next, sweep.id)
          = Ex(plan.gen, st, Identity, next, sweep.id, exchange.event)
        BY <3>5, AdoptedSet
    <3>7. exchange' = Ex(plan.gen, st, Identity, next, sweep.id, event)
        BY <3>4, <3>6, Emitted
    <3>8. /\ exchange'.active = Identity /\ exchange'.current = next
          /\ exchange'.last = sweep.id /\ exchange'.status = st
          /\ exchange'.event = event
        BY <3>7, Fields
    <3>9. ExchangeStands'
        BY <1>1, <1>3, <1>4, <3>7, <3>8, IdentityIsSomebody
        DEF ExchangeStands, Retains, Types
    <3>10. Assembling' /\ ~assembler'.rejected
        BY <1>1, <1>3, <1>7, <1>12, <2>2, <3>2, <3>8, AssembledStands DEF next
    <3> QED
        BY <1>13, <3>2, <3>9, <3>10 DEF PreviewStands
  <2> QED
      BY <2>1, <2>2
<1> QED
    BY <1>9, <1>10, <1>11, <1>12

-------------------------------------------------------------------------------
(* The other steps.                                                         *)

LEMMA InitStands == PreviewInit => PreviewInv
<1> SUFFICES ASSUME PreviewInit
             PROVE  PreviewInv
    OBVIOUS
<1>1. \A p \in Ports : sweep.samples[p] = <<>> /\ sweep.samples[p] \in Seq(Samples)
    BY EmptySeq DEF PreviewInit
<1>2. Types
    BY <1>1, PreviewAssumption DEF PreviewInit, Types, Places, EmptyAssembler
<1>3. Requested /\ PreviewStands
    BY DEF PreviewInit, Requested, PreviewStands, InFlight
<1>4. CaptureStands
    BY <1>1, EmptySeq, PreviewAssumption DEF PreviewInit, CaptureStands, At
<1>5. ExchangeStands
    BY DEF PreviewInit, ExchangeStands, Retains, Ex
<1> QED
    BY <1>2, <1>3, <1>4, <1>5 DEF PreviewInv

\* A step after which no sweep in flight is shown any more.
LEMMA BoundaryStands ==
    ASSUME PreviewInv, Types', Requested', ExchangeStands',
           UNCHANGED <<sweep.samples>>, sweep'.pc # "calculate",
           sweep'.pc # "source" \/ ~sweep'.active
    PROVE  PreviewInv'
<1>1. CaptureStands'
    BY DEF PreviewInv, CaptureStands, At
<1>2. PreviewStands'
    BY DEF PreviewStands, InFlight
<1> QED
    BY <1>1, <1>2 DEF PreviewInv

LEMMA PrepareStands ==
    ASSUME PreviewInv, PrepareCycle
    PROVE  PreviewInv'
<1>1. Types /\ Requested /\ ExchangeStands /\ sweep.pc = "boundary"
    BY DEF PreviewInv, PrepareCycle, At
<1>2. /\ sweep'.pc \in {"prepared", "held"} /\ sweep'.id = sweep.id
      /\ sweep'.samples = sweep.samples
      /\ sweep' \in [pc : Places, id : Nat, samples : [Ports -> Seq(Samples)],
                     active : BOOLEAN, asked : BOOLEAN, more : BOOLEAN, stop : BOOLEAN]
      /\ sweep'.pc = "prepared" => sweep'.more
  <2>1. CASE sweep.more \/ sweep.asked
    <3>1. sweep' = [sweep EXCEPT !.pc = "prepared", !.stop = FALSE,
                                 !.asked = FALSE, !.more = TRUE]
        BY <2>1 DEF PrepareCycle, EnterCycle
    <3> QED
        BY <1>1, <3>1 DEF Types, Places
  <2>2. CASE ~(sweep.more \/ sweep.asked)
    <3>1. sweep' = [sweep EXCEPT !.pc = "held"]
        BY <2>2 DEF PrepareCycle, Go
    <3> QED
        BY <1>1, <2>2, <3>1 DEF Types, Places
  <2> QED
      BY <2>1, <2>2
<1>3. plan'.gen \in Nat \ {0} /\ plan'.setup \in Setups /\ ExchangeStands'
  <2>1. CASE HasPending
      BY <1>1, <1>2, <2>1, ApplyStands DEF PrepareCycle, Types
  <2>2. CASE ~HasPending
    <3>1. /\ plan' = plan
          /\ exchange' = exchange \/ exchange' = UpdateForRuntime(HoldStatus(plan))
        BY <2>2 DEF PrepareCycle, Show
    <3>2. exchange.active = Nobody
        BY <1>1 DEF ExchangeStands
    <3> QED
        BY <1>1, <1>2, <3>1, <3>2, UnmovedStands DEF Types
  <2> QED
      BY <2>1, <2>2
<1>4. Types'
    BY <1>1, <1>2, <1>3 DEF Types, PrepareCycle
<1>5. Requested'
    BY <1>2 DEF Requested
<1> QED
    BY <1>2, <1>3, <1>4, <1>5, BoundaryStands

LEMMA PromoteStands ==
    ASSUME PreviewInv, Promote
    PROVE  PreviewInv'
<1>1. Types /\ Requested /\ ExchangeStands
    BY DEF PreviewInv
<1>2. /\ sweep'.pc = "prepared" /\ sweep'.id = sweep.id /\ sweep'.more
      /\ sweep'.samples = sweep.samples /\ Types'
    BY <1>1 DEF Promote, EnterCycle, Types, Places
<1>3. exchange.active = Nobody /\ exchange' = exchange /\ plan' = plan
    BY <1>1 DEF Promote, At, ExchangeStands
<1>4. ExchangeStands'
    BY <1>1, <1>2, <1>3, UnmovedStands
<1>5. Requested'
    BY <1>2 DEF Requested
<1> QED
    BY <1>2, <1>4, <1>5, BoundaryStands

LEMMA BeginStands ==
    ASSUME PreviewInv, BeginCapture
    PROVE  PreviewInv'
<1>1. Types /\ Requested /\ ExchangeStands /\ sweep.pc = "prepared"
    BY DEF PreviewInv, BeginCapture, At
<1>2. /\ sweep'.pc = "source" /\ sweep'.id = sweep.id + 1 /\ sweep'.active
      /\ sweep'.more = sweep.more
      /\ sweep'.samples = [p \in Ports |-> <<>>]
      /\ sweep' \in [pc : Places, id : Nat, samples : [Ports -> Seq(Samples)],
                     active : BOOLEAN, asked : BOOLEAN, more : BOOLEAN, stop : BOOLEAN]
  <2>1. <<>> \in Seq(Samples)
      BY EmptySeq
  <2>2. [p \in Ports |-> <<>>] \in [Ports -> Seq(Samples)]
      BY <2>1
  <2> DEFINE none == [p \in Ports |-> <<>>]
  <2>3. sweep' = [sweep EXCEPT !.pc = "source", !.id = sweep.id + 1, !.active = TRUE,
                               !.samples = none]
      BY DEF BeginCapture
  <2>4. sweep.id + 1 \in Nat
      BY <1>1 DEF Types
  <2> HIDE DEF none
  <2>5. none \in [Ports -> Seq(Samples)]
      BY <2>2 DEF none
  <2>6. /\ sweep' = [pc |-> "source", id |-> sweep.id + 1, samples |-> none,
                     active |-> TRUE, asked |-> sweep.asked, more |-> sweep.more,
                     stop |-> sweep.stop]
        /\ sweep.asked \in BOOLEAN /\ sweep.more \in BOOLEAN /\ sweep.stop \in BOOLEAN
      BY <1>1, <2>3 DEF Types
  <2> QED
      BY <2>4, <2>5, <2>6 DEF Places, none
<1>3. /\ plan' = plan /\ state' = state /\ assembler' = EmptyAssembler
      /\ exchange' = UpdateForRuntime(PreparingStatus(sweep.id + 1))
    BY DEF BeginCapture, Show
<1>4. Types'
    BY <1>1, <1>2, <1>3 DEF Types, EmptyAssembler
<1>5. Requested'
    BY <1>1, <1>2 DEF Requested
<1>6. /\ exchange' = Ex(plan.gen, exchange'.status, Nobody, NoPreview,
                        exchange.last, exchange'.event)
      /\ exchange'.active = Nobody /\ exchange'.current = NoPreview
      /\ exchange'.last = exchange.last
  <2>1. exchange.active = Nobody /\ exchange.current = NoPreview
      BY <1>1 DEF ExchangeStands
  <2>2. exchange' = Ex(plan.gen, exchange'.status, Nobody, NoPreview,
                       exchange.last, exchange'.event)
      BY <1>1, <1>3, <2>1, UpdateKeeps
  <2> QED
      BY <2>2, Fields
<1>7. exchange'.last \in 0..sweep.id /\ sweep.id \in Nat
    BY <1>1, <1>6 DEF ExchangeStands, Types
<1>8. ExchangeStands'
    BY <1>2, <1>3, <1>6, <1>7 DEF ExchangeStands, Retains
<1>9. \A p \in Ports : /\ sweep'.samples[p] = <<>> /\ Len(sweep'.samples[p]) = 0
                       /\ DOMAIN sweep'.samples[p] = {}
    BY <1>2, EmptySeq
<1>10. CaptureStands'
    BY <1>2, <1>9, PreviewAssumption DEF CaptureStands, At
<1>11. AllFine'
    BY <1>9 DEF AllFine, Fine, Synthesizes, Projects
<1>12. Begun' = {}
  <2>1. \A t \in DOMAIN plan'.setup : plan'.setup[t].source \in Ports
      BY <1>1, <1>3, PortsThere
  <2> QED
      BY <1>9, <2>1 DEF Begun
<1>13. /\ \A p \in Ports : assembler'.raw[p] = Len(sweep'.samples[p])
       /\ DOMAIN assembler'.traces = {} /\ ~assembler'.rejected
    BY <1>3, <1>9 DEF EmptyAssembler
<1>14. Assembling'
    BY <1>2, <1>6, <1>7, <1>11, <1>12, <1>13 DEF Assembling
<1>15. PreviewStands'
    BY <1>13, <1>14 DEF PreviewStands
<1> QED
    BY <1>4, <1>5, <1>8, <1>10, <1>15 DEF PreviewInv

\* The ends of a sweep withdraw its preview.
LEMMA EndStands ==
    ASSUME PreviewInv, UNCHANGED <<state, plan, assembler>>, NEW st, Withdraw(st),
           NEW more \in BOOLEAN,
           sweep' = [sweep EXCEPT !.pc = "boundary", !.active = FALSE, !.more = more]
    PROVE  PreviewInv'
<1>1. Types /\ Requested /\ ExchangeStands
    BY DEF PreviewInv
<1>2. /\ sweep'.pc = "boundary" /\ sweep'.id = sweep.id /\ sweep'.samples = sweep.samples
      /\ Types'
    BY <1>1 DEF Types, Places
<1>3. ExchangeStands'
    BY <1>1, <1>2, WithdrawnStands
<1>4. Requested'
    BY <1>2 DEF Requested
<1> QED
    BY <1>2, <1>3, <1>4, BoundaryStands

LEMMA CalculateStands ==
    ASSUME PreviewInv, Calculate
    PROVE  PreviewInv'
<1>1. Types /\ Requested /\ ExchangeStands /\ CaptureStands /\ PreviewStands
      /\ sweep.pc = "source"
    BY DEF PreviewInv, Calculate, At
<1>2. /\ sweep'.pc = "calculate" /\ sweep'.id = sweep.id /\ sweep'.samples = sweep.samples
      /\ sweep'.active = sweep.active /\ sweep'.more = sweep.more
      /\ sweep' \in [pc : Places, id : Nat, samples : [Ports -> Seq(Samples)],
                     active : BOOLEAN, asked : BOOLEAN, more : BOOLEAN, stop : BOOLEAN]
    BY <1>1 DEF Calculate, Go, Types, Places
<1>3. /\ state' = state /\ plan' = plan /\ assembler' = assembler
      /\ exchange' = UpdateForRuntime(Status(plan, "calculation", sweep.id, Workload))
    BY DEF Calculate, Show
<1>4. Types' /\ Requested'
    BY <1>1, <1>2, <1>3 DEF Types, Requested
<1>5. /\ ExchangeStands' /\ exchange'.active = exchange.active
      /\ exchange'.current = exchange.current /\ exchange'.last = exchange.last
    BY <1>1, <1>2, <1>3, UnmovedStands
<1>6. CaptureStands'
  <2>1. \A p \in Ports : Len(sweep.samples[p]) = Points
    <3> SUFFICES ASSUME NEW p \in Ports
                 PROVE  Len(sweep.samples[p]) = Points
        OBVIOUS
    <3>1. PICK i \in DOMAIN Sources : p = Sources[i]
        BY DEF Ports
    <3>2. ~(Len(sweep.samples[p]) < Points)
        BY <3>1 DEF Calculate, Unfinished
    <3>3. Len(sweep.samples[p]) \in Nat /\ Len(sweep.samples[p]) <= Points
        BY <1>1, LenProperties DEF CaptureStands, Types
    <3> QED
        BY <3>2, <3>3, PreviewAssumption
  <2> QED
      BY <1>1, <1>2, <2>1 DEF CaptureStands, At
<1>7. /\ AllFine' <=> AllFine
      /\ Begun' = Begun /\ Identity' = Identity /\ Preview(assembler)' = Preview(assembler)
      /\ \A t : Captured(t)' = Captured(t)
    BY <1>2, <1>3 DEF AllFine, Fine, Begun, Identity, Preview, Captured
<1>8. Assembling => Assembling'
    BY <1>2, <1>3, <1>5, <1>7 DEF Assembling
<1>9. PreviewStands'
    BY <1>1, <1>2, <1>3, <1>5, <1>7, <1>8 DEF PreviewStands, InFlight
<1> QED
    BY <1>4, <1>5, <1>6, <1>9 DEF PreviewInv

LEMMA PublishStands ==
    ASSUME PreviewInv, Publish
    PROVE  PreviewInv'
<1>1. Types /\ Requested /\ ExchangeStands /\ sweep.pc = "calculate"
    BY DEF PreviewInv, Publish, At
<1>2. /\ sweep'.pc = "published" /\ sweep'.id = sweep.id /\ sweep'.more = sweep.more
      /\ sweep'.samples = sweep.samples /\ Types'
    BY <1>1 DEF Publish, Go, Types, Places
<1>3. ExchangeStands'
    BY <1>1, <1>2, UnmovedStands DEF Publish
<1>4. Requested'
    BY <1>1, <1>2 DEF Requested
<1> QED
    BY <1>2, <1>3, <1>4, BoundaryStands

\* A configuration is applied at once only when no cycle has been entered.
LEMMA ConfigureStands ==
    ASSUME PreviewInv, NEW setup \in Setups, Configure(setup)
    PROVE  PreviewInv'
<1>1. Types /\ Requested /\ ExchangeStands /\ CaptureStands /\ PreviewStands
    BY DEF PreviewInv
<1>2. sweep' = sweep /\ assembler' = assembler /\ state'.setup = setup
    BY DEF Configure
<1>3. CASE UNCHANGED <<plan, exchange>>
  <2>1. Types' /\ Requested' /\ CaptureStands'
      BY <1>1, <1>2, <1>3 DEF Types, Requested, CaptureStands, At
  <2>2. ExchangeStands'
      BY <1>1, <1>2, <1>3 DEF ExchangeStands, Retains, Identity
  <2>3. PreviewStands'
      BY <1>1, <1>2, <1>3
      DEF PreviewStands, InFlight, AllFine, Fine, Assembling, Begun, Captured, Identity,
          Preview
  <2> QED
      BY <2>1, <2>2, <2>3 DEF PreviewInv
<1>4. CASE Apply(state.rev + 1, setup) /\ ~sweep.more
  <2>1. sweep.pc \notin {"prepared", "source", "calculate", "published"}
      BY <1>1, <1>4 DEF Requested
  <2>2. plan'.gen \in Nat \ {0} /\ plan'.setup \in Setups /\ ExchangeStands'
      BY <1>1, <1>2, <1>4, <2>1, ApplyStands
  <2>3. Types' /\ Requested'
      BY <1>1, <1>2, <2>2 DEF Types, Requested
  <2> QED
      BY <1>2, <2>1, <2>2, <2>3, BoundaryStands
<1> QED
    BY <1>3, <1>4 DEF Configure

LEMMA RestartStands ==
    ASSUME PreviewInv, Restart
    PROVE  PreviewInv'
<1>1. Types /\ Requested /\ ExchangeStands /\ CaptureStands
    BY DEF PreviewInv
<1>2. /\ sweep'.pc = sweep.pc /\ sweep'.id = sweep.id /\ sweep'.samples = sweep.samples
      /\ sweep'.active = FALSE
      /\ sweep'.more = (sweep.more /\ sweep.pc \in {"prepared", "source", "calculate",
                                                    "published"})
      /\ Types'
    BY <1>1 DEF Restart, Types
<1>3. Requested'
    BY <1>1, <1>2 DEF Requested
<1>4. ExchangeStands'
  <2>1. CASE sweep.active
      BY <1>1, <1>2, <2>1, WithdrawnStands DEF Restart
  <2>2. CASE ~sweep.active
    <3>1. exchange' = exchange /\ plan' = plan
        BY <2>2 DEF Restart
    <3>2. exchange.active # Nobody => sweep'.pc \in {"source", "calculate", "published"}
        BY <1>1, <1>2 DEF ExchangeStands
    <3> QED
        BY <1>1, <1>2, <3>1, <3>2, UnmovedStands
  <2> QED
      BY <2>1, <2>2
<1>5. CaptureStands'
    BY <1>1, <1>2 DEF CaptureStands, At
<1>6. PreviewStands'
    BY <1>2 DEF PreviewStands
<1> QED
    BY <1>2, <1>3, <1>4, <1>5, <1>6 DEF PreviewInv

LEMMA StepStands == PreviewInv /\ [PreviewNext]_previewVars => PreviewInv'
<1> SUFFICES ASSUME PreviewInv, [PreviewNext]_previewVars
             PROVE  PreviewInv'
    OBVIOUS
<1>1. CASE PrepareCycle
    BY <1>1, PrepareStands
<1>2. CASE Promote
    BY <1>2, PromoteStands
<1>3. CASE BeginCapture
    BY <1>3, BeginStands
<1>4. ASSUME NEW quality \in {"good", "zero reference", "zero response"}, Deliver(quality)
      PROVE  PreviewInv'
  <2>1. PICK range : /\ ChunkOf(range) /\ Recorded(range) /\ Observe(range)
                     /\ At("source") /\ UNCHANGED <<state, plan, published>>
      BY <1>4, DeliverIs DEF PreviewInv, Qualities
  <2> QED
      BY <2>1, ObserveStands
<1>5. CASE CaptureFails
    BY <1>5, EndStands DEF CaptureFails, Fails
<1>6. CASE Cancels
    BY <1>6, EndStands DEF Cancels
<1>7. CASE Calculate
    BY <1>7, CalculateStands
<1>8. CASE ProcessingFails
    BY <1>8, EndStands DEF ProcessingFails, Fails
<1>9. CASE Publish
    BY <1>9, PublishStands
<1>10. CASE PublicationFails
    BY <1>10, EndStands DEF PublicationFails, Fails
<1>11. CASE Complete
    BY <1>11, EndStands DEF Complete
<1>12. CASE Restart
    BY <1>12, RestartStands
<1>13. ASSUME NEW setup \in Setups, Configure(setup)
       PROVE  PreviewInv'
    BY <1>13, ConfigureStands
<1>14. CASE UNCHANGED previewVars
    BY <1>14
    DEF previewVars, PreviewInv, Types, Requested, CaptureStands, At, ExchangeStands,
        Retains, Identity, PreviewStands, InFlight, AllFine, Fine, Assembling, Begun,
        Captured, Preview
<1> QED
    BY <1>1, <1>2, <1>3, <1>4, <1>5, <1>6, <1>7, <1>8, <1>9, <1>10, <1>11, <1>12,
       <1>13, <1>14
    DEF PreviewNext, WorkerStep

-------------------------------------------------------------------------------
(* The two paths agree.                                                     *)

LEMMA StandsAgree == PreviewInv => PathsAgree
<1> SUFFICES ASSUME PreviewInv, At("calculate"), sweep.active
             PROVE  IF Builds /\ ValidSet(FrameSet)
                    THEN /\ exchange.current.ident = Identity
                         /\ exchange.current.traces = FrameSet.frames
                    ELSE exchange.current = NoPreview
    BY DEF PathsAgree
<1>1. Types /\ ExchangeStands /\ CaptureStands /\ PreviewStands /\ InFlight
    BY DEF PreviewInv, InFlight, At
<1>2. \A t \in DOMAIN plan.setup : plan.setup[t].source \in Ports
    BY <1>1, PortsThere
<1>3. Builds <=> AllFine
  <2>1. Builds <=> /\ \A p \in Ports : Synthesizes(plan.setup, p, sweep.samples[p])
                   /\ \A t \in DOMAIN plan.setup :
                        Projects(plan.setup[t].format, Captured(t))
      BY <1>2 DEF Builds, SynthesizesAll, Captured
  <2>2. AllFine <=> /\ \A p \in Ports : Synthesizes(plan.setup, p, sweep.samples[p])
                    /\ \A p \in Ports : \A t \in Measured(plan.setup, p) :
                          Projects(plan.setup[t].format, sweep.samples[p])
      BY DEF AllFine, Fine
  <2>3. (\A t \in DOMAIN plan.setup : Projects(plan.setup[t].format, Captured(t)))
        <=> \A p \in Ports : \A t \in Measured(plan.setup, p) :
                Projects(plan.setup[t].format, sweep.samples[p])
      BY <1>2 DEF Measured, Captured
  <2> QED
      BY <2>1, <2>2, <2>3
<1>4. Begun = DOMAIN plan.setup
  <2>1. \A t \in DOMAIN plan.setup : Len(sweep.samples[plan.setup[t].source]) = Points
      BY <1>1, <1>2 DEF CaptureStands
  <2> QED
      BY <2>1, PreviewAssumption DEF Begun
<1>5. FrameSet.frames = [t \in DOMAIN plan.setup |-> Captured(t)]
    BY DEF FrameSet, Captured
<1>6. CASE assembler.rejected
  <2>1. exchange.active = Nobody /\ ~AllFine
      BY <1>1, <1>6 DEF PreviewStands
  <2> QED
      BY <1>1, <1>3, <2>1 DEF ExchangeStands
<1>7. CASE ~assembler.rejected
  <2>1. Assembling
      BY <1>1, <1>7 DEF PreviewStands
  <2>2. CASE DOMAIN plan.setup = {}
    <3>1. exchange.current = NoPreview
        BY <1>1, <1>4, <2>1, <2>2 DEF Assembling, ExchangeStands
    <3>2. ~ValidSet(FrameSet)
        BY <1>5, <2>2 DEF ValidSet
    <3> QED
        BY <3>1, <3>2
  <2>3. CASE DOMAIN plan.setup # {}
    <3>1. /\ assembler.traces = [t \in Begun |-> Captured(t)]
          /\ exchange.current = Preview(assembler)
        BY <1>4, <2>1, <2>3 DEF Assembling
    <3>2. /\ exchange.current.ident = Identity
          /\ exchange.current.traces = FrameSet.frames
        BY <1>4, <1>5, <3>1 DEF Preview, Identity
    <3>3. Builds
        BY <1>3, <2>1 DEF Assembling
    <3>4. ValidSet(FrameSet)
      <4>1. ASSUME NEW t \in DOMAIN plan.setup
            PROVE  ValidFrame(Captured(t))
        <5> DEFINE p == plan.setup[t].source
        <5>1. /\ p \in Ports /\ Len(sweep.samples[p]) = Points
              /\ \A i \in 1..Len(sweep.samples[p]) : sweep.samples[p][i].point = i
            BY <1>1, <1>2 DEF CaptureStands
        <5>2. Len(Captured(t)) \in 2..Points
            BY <5>1, PreviewAssumption DEF Captured
        <5>3. Increasing(Captured(t))
            BY <5>1, PreviewAssumption DEF Captured, Increasing
        <5> QED
            BY <5>2, <5>3 DEF ValidFrame
      <4> QED
          BY <1>5, <2>3, <4>1 DEF ValidSet
    <3> QED
        BY <3>2, <3>3, <3>4
  <2> QED
      BY <2>2, <2>3
<1> QED
    BY <1>6, <1>7

\* For any setups, ports, points, chunk sizes and bad samples, with Restarts and
\* configurations between the chunks: when a sweep that nobody withdrew has been
\* captured, the exchange retains exactly the frames that will be published, and
\* nothing if none can be (observePreviewRange against buildTraceDisplayFrameSet).
THEOREM PathsMeet == PreviewSpec => []PathsAgree
<1> QED
    BY InitStands, StepStands, StandsAgree, PTL DEF PreviewSpec

-------------------------------------------------------------------------------
(* The invariant of the browser.                                            *)

\* All samples are of the worker's sweep.
OfSweep(samples) ==
    samples \in Seq(Samples) /\ \A i \in 1..Len(samples) : samples[i].sweep = sweep.id

\* What is retained, told and published carries the sweep it is of.
PreviewTold(preview) ==
    /\ preview.ident.gen \in Nat
    /\ \A t \in DOMAIN preview.traces : preview.traces[t][1].sweep = preview.ident.sweep
EventTold(event) ==
    /\ event.ident.gen \in Nat /\ event.status.gen \in Nat
    /\ \A t \in DOMAIN event.preview.traces :
         event.preview.traces[t][1].sweep = event.ident.sweep
SetTold(set) ==
    /\ set.gen \in Nat /\ set.seq \in Nat
    /\ \A t \in DOMAIN set.frames : set.frames[t][1].sweep = set.seq

SweepsTold ==
    /\ \A p \in Ports : OfSweep(sweep.samples[p])
    /\ \A t \in DOMAIN assembler.traces : OfSweep(assembler.traces[t])
    /\ PreviewTold(exchange.current) /\ EventTold(exchange.event)
    /\ SetTold(published) /\ published.seq <= sweep.id

\* The fields of a display, of its partial and of the lanes, one by one: the shape
\* that the updates of the reducers keep.
D(gen, complete, partial, st) ==
    [gen |-> gen, complete |-> complete, partial |-> partial, status |-> st]
P(ident, rev, traces) == [ident |-> ident, rev |-> rev, traces |-> traces]

Display(shown) ==
    /\ shown = D(shown.gen, shown.complete, shown.partial, shown.status)
    /\ shown.partial = P(shown.partial.ident, shown.partial.rev, shown.partial.traces)
    /\ shown.gen \in Nat

Lane(news, message) == [news |-> news, message |-> message]
Lanes(news, message, news2, message2) ==
    [complete |-> Lane(news, message), preview |-> Lane(news2, message2)]
Shapes ==
    /\ Display(display)
    /\ lanes = Lanes(lanes.complete.news, lanes.complete.message,
                     lanes.preview.news, lanes.preview.message)
    /\ pending = [trace |-> pending.trace, allS |-> pending.allS,
                  boundary |-> pending.boundary]

\* What is on its way says of what generation, revision and sweep it is.
SetMessage(m) ==
    /\ m.gen \in Nat
    /\ \A t \in DOMAIN m.curves :
         /\ m.curves[t].gen = m.gen /\ m.curves[t].rev = m.rev
         /\ \A u \in DOMAIN m.curves : m.curves[t].sweep = m.curves[u].sweep
PreviewMessage(m) ==
    /\ m.ident.gen \in Nat /\ m.status.gen \in Nat
    /\ \A t \in DOMAIN m.curves : m.curves[t].sweep = m.ident.sweep
MessagesTold ==
    /\ lanes.complete.message # Nothing => SetMessage(lanes.complete.message)
    /\ lanes.preview.message # Nothing => PreviewMessage(lanes.preview.message)
AnswersTold ==
    /\ fetches = [c \in Callers |-> fetches[c]]
    /\ \A c \in Callers : fetches[c].type = "answer" => fetches[c].gen \in Nat

\* Nothing drawn or on its way is newer than what is, or will be, published.
Newest == IF published = NoSet THEN sweep.id ELSE published.seq
Ordered ==
    /\ \A t \in DOMAIN display.complete : display.complete[t].sweep \in 0..Newest
    /\ lanes.complete.message # Nothing =>
         \A u \in DOMAIN lanes.complete.message.curves :
             /\ lanes.complete.message.curves[u].sweep \in 0..Newest
             /\ \A t \in DOMAIN display.complete :
                  display.complete[t].sweep <= lanes.complete.message.curves[u].sweep

\* Between the answer to All S and its first whole frame set.
NothingUnderAllS == pending.allS # 0 => display.complete = <<>>

ScreenInv == /\ Shapes /\ MessagesTold /\ AnswersTold /\ Ordered
             /\ NothingUnderAllS /\ OneGenerationDrawn
LiveInv == PreviewInv /\ SweepsTold /\ ScreenInv

-------------------------------------------------------------------------------
(* What sweeps tell.                                                        *)

LEMMA OfSweepConcat ==
    ASSUME NEW s, NEW t, OfSweep(s), OfSweep(t)
    PROVE  OfSweep(s \o t)
<1>1. /\ s \in Seq(Samples) /\ t \in Seq(Samples)
      /\ Len(s) \in Nat /\ Len(t) \in Nat
      /\ \A i \in 1..Len(s) : s[i].sweep = sweep.id
      /\ \A i \in 1..Len(t) : t[i].sweep = sweep.id
    BY LenProperties DEF OfSweep
<1>2. /\ s \o t \in Seq(Samples) /\ Len(s \o t) = Len(s) + Len(t)
      /\ \A i \in 1..(Len(s) + Len(t)) :
            (s \o t)[i] = IF i <= Len(s) THEN s[i] ELSE t[i - Len(s)]
    BY <1>1, ConcatProperties
<1>3. ASSUME NEW i \in 1..(Len(s) + Len(t))
      PROVE  (s \o t)[i].sweep = sweep.id
  <2>1. CASE i <= Len(s)
      BY <1>1, <1>2, <2>1
  <2>2. CASE i > Len(s)
    <3>1. i - Len(s) \in 1..Len(t)
        BY <1>1, <2>2
    <3>2. (s \o t)[i] = t[i - Len(s)]
        BY <1>1, <1>2, <2>2
    <3> QED
        BY <1>1, <3>1, <3>2
  <2> QED
      BY <1>1, <2>1, <2>2
<1> QED
    BY <1>2, <1>3 DEF OfSweep

LEMMA NothingTold ==
    /\ PreviewTold(NoPreview)
    /\ \A st : st.gen \in Nat =>
         /\ EventTold(Event("status", Nobody, NoPreview, st))
         /\ EventTold(Event("generationAdvanced", Nobody, NoPreview, st))
BY DEF PreviewTold, EventTold, NoPreview, Nobody, Event

LEMMA ShownTold ==
    ASSUME NEW preview, PreviewTold(preview), NEW st, st.gen \in Nat
    PROVE  EventTold(Event("available", preview.ident, preview, st))
BY DEF PreviewTold, EventTold, Event

\* The exchange is left alone, or is told a status.
LEMMA UpdateTold ==
    ASSUME ExchangeStands, PreviewTold(exchange.current), EventTold(exchange.event),
           NEW st, st.gen \in Nat,
           exchange' = exchange \/ exchange' = UpdateForRuntime(st)
    PROVE  PreviewTold(exchange'.current) /\ EventTold(exchange'.event)
<1>1. exchange = Ex(plan.gen, exchange.status, exchange.active, exchange.current,
                    exchange.last, exchange.event)
    BY DEF ExchangeStands, Retains
<1>2. CASE exchange' = exchange
    BY <1>2
<1>3. CASE exchange' = Emit([exchange EXCEPT !.status = st], StatusEvent(st))
  <2>1. [exchange EXCEPT !.status = st]
        = Ex(plan.gen, st, exchange.active, exchange.current, exchange.last,
             exchange.event)
      BY <1>1, StatusSet
  <2>2. exchange' = Ex(plan.gen, st, exchange.active, exchange.current, exchange.last,
                       StatusEvent(st))
      BY <1>3, <2>1, Emitted
  <2>3. exchange'.current = exchange.current /\ exchange'.event = StatusEvent(st)
      BY <2>2, Fields
  <2>4. EventTold(StatusEvent(st))
      BY NothingTold, ShownTold DEF StatusEvent
  <2> QED
      BY <2>3, <2>4
<1> QED
    BY <1>2, <1>3 DEF UpdateForRuntime

LEMMA WithdrawTold ==
    ASSUME ExchangeStands, plan.gen \in Nat, PreviewTold(exchange.current),
           EventTold(exchange.event), NEW st, st.gen \in Nat, Withdraw(st)
    PROVE  PreviewTold(exchange'.current) /\ EventTold(exchange'.event)
<1>1. exchange = Ex(plan.gen, exchange.status, exchange.active, exchange.current,
                    exchange.last, exchange.event)
    BY DEF ExchangeStands, Retains
<1>2. exchange.gen = plan.gen /\ Identity.gen = plan.gen
    BY <1>1, Fields DEF Identity
<1>3. CASE exchange.active = Identity
  <2>1. exchange' = Emit(Shows(exchange, st, Nobody, NoPreview),
                         Event("invalidated", Identity, NoPreview, st))
      BY <1>2, <1>3 DEF Withdraw, InvalidateForRuntime, Shows
  <2>2. Shows(exchange, st, Nobody, NoPreview)
        = Ex(plan.gen, st, Nobody, NoPreview, exchange.last, exchange.event)
      BY <1>1, ShownSet
  <2>3. exchange' = Ex(plan.gen, st, Nobody, NoPreview, exchange.last,
                       Event("invalidated", Identity, NoPreview, st))
      BY <2>1, <2>2, Emitted
  <2>4. /\ exchange'.current = NoPreview
        /\ exchange'.event = Event("invalidated", Identity, NoPreview, st)
      BY <2>3, Fields
  <2>5. EventTold(Event("invalidated", Identity, NoPreview, st))
      BY <1>2 DEF EventTold, Event, NoPreview
  <2> QED
      BY <2>4, <2>5, NothingTold
<1>4. CASE exchange.active # Identity
  <2>1. exchange' = UpdateForRuntime(st)
      BY <1>2, <1>4 DEF Withdraw, InvalidateForRuntime
  <2> QED
      BY <2>1, UpdateTold
<1> QED
    BY <1>3, <1>4

LEMMA ApplyTold ==
    ASSUME Types, ExchangeStands, PreviewTold(exchange.current),
           EventTold(exchange.event), NEW rev, NEW setup, Apply(rev, setup)
    PROVE  /\ PreviewTold(exchange'.current) /\ EventTold(exchange'.event)
           /\ published' = published \/ published' = NoSet
<1> DEFINE next == [gen |-> plan.gen + (IF setup # plan.setup THEN 1 ELSE 0),
                    rev |-> rev, setup |-> setup]
           st == HoldStatus(next)
<1>1. next.gen \in Nat /\ st.gen = next.gen
    BY DEF Types, HoldStatus, Status
<1>2. exchange' = Advanced(next.gen, st) \/ exchange' = UpdateForRuntime(st)
    BY DEF Apply
<1>3. published' = published \/ published' = NoSet
    BY DEF Apply
<1> HIDE DEF next, st
<1>4. CASE exchange' = Advanced(next.gen, st)
  <2>1. exchange = Ex(plan.gen, exchange.status, exchange.active, exchange.current,
                      exchange.last, exchange.event)
      BY DEF ExchangeStands, Retains
  <2>2. Opens(exchange, next.gen, st, Nobody, NoPreview)
        = Ex(next.gen, st, Nobody, NoPreview, exchange.last, exchange.event)
      BY <2>1, AdvancedSet
  <2>3. exchange' = Ex(next.gen, st, Nobody, NoPreview, exchange.last,
                       Event("generationAdvanced", Nobody, NoPreview, st))
      BY <1>4, <2>2, Emitted DEF Advanced, Opens
  <2>4. /\ exchange'.current = NoPreview
        /\ exchange'.event = Event("generationAdvanced", Nobody, NoPreview, st)
      BY <2>3, Fields
  <2> QED
      BY <1>1, <1>3, <2>4, NothingTold
<1>5. CASE exchange' = UpdateForRuntime(st)
    BY <1>1, <1>3, <1>5, UpdateTold
<1> QED
    BY <1>2, <1>4, <1>5

ExchangeTold == PreviewTold(exchange.current) /\ EventTold(exchange.event)

\* Nothing is measured or published.
LEMMA KeptTold ==
    ASSUME Types, SweepsTold, sweep'.id = sweep.id, sweep'.samples = sweep.samples,
           assembler'.traces = assembler.traces, ExchangeTold',
           published' = published \/ published' = NoSet
    PROVE  SweepsTold' /\ Newest <= Newest'
<1>1. sweep.id \in Nat
    BY DEF Types
<1>2. SetTold(published') /\ published'.seq <= sweep'.id
    BY <1>1 DEF SweepsTold, SetTold, NoSet
<1>3. Newest <= Newest'
    BY <1>1 DEF SweepsTold, SetTold, Newest
<1>4. /\ (\A p \in Ports : OfSweep(sweep.samples[p]))'
      /\ (\A t \in DOMAIN assembler.traces : OfSweep(assembler.traces[t]))'
    BY DEF SweepsTold, OfSweep
<1> QED
    BY <1>2, <1>3, <1>4 DEF SweepsTold, ExchangeTold, SetTold

LEMMA InitTold == PreviewInit => SweepsTold
<1> SUFFICES ASSUME PreviewInit
             PROVE  SweepsTold
    OBVIOUS
<1>1. \A p \in Ports : OfSweep(sweep.samples[p])
    BY EmptySeq DEF PreviewInit, OfSweep
<1>2. \A t \in DOMAIN assembler.traces : OfSweep(assembler.traces[t])
    BY DEF PreviewInit, EmptyAssembler
<1>3. SetTold(published) /\ published.seq <= sweep.id
    BY DEF PreviewInit, SetTold, NoSet
<1>4. /\ exchange.current = NoPreview
      /\ exchange.event = Event("status", Nobody, NoPreview, HoldStatus(plan))
    BY DEF PreviewInit, Event, NoPreview
<1>5. HoldStatus(plan).gen \in Nat
    BY DEF PreviewInit, HoldStatus, Status
<1> QED
    BY <1>1, <1>2, <1>3, <1>4, <1>5, NothingTold DEF SweepsTold

LEMMA AssembledTold ==
    ASSUME Types, SweepsTold, NEW range, ChunkOf(range)
    PROVE  \A t \in DOMAIN Assembled(range).traces : OfSweep(Assembled(range).traces[t])
<1>1. OfSweep(range.samples) /\ OfSweep(<<>>)
    BY EmptySeq DEF ChunkOf, OfSweep
<1>2. Assembled(range).traces = Appended(assembler.traces, plan.setup, range)
    BY AppendedFields DEF Types
<1>3. ASSUME NEW t \in DOMAIN Appended(assembler.traces, plan.setup, range)
      PROVE  OfSweep(Appended(assembler.traces, plan.setup, range)[t])
  <2> DEFINE held == IF t \in DOMAIN assembler.traces THEN assembler.traces[t] ELSE <<>>
  <2>1. CASE t \notin Measured(plan.setup, range.source)
      BY <1>3, <2>1 DEF Appended, SweepsTold
  <2>2. CASE t \in Measured(plan.setup, range.source)
    <3>1. OfSweep(held)
        BY <1>1 DEF SweepsTold
    <3>2. Appended(assembler.traces, plan.setup, range)[t] = held \o range.samples
        BY <1>3, <2>2 DEF Appended
    <3> HIDE DEF held
    <3> QED
        BY <1>1, <3>1, <3>2, OfSweepConcat
  <2> QED
      BY <2>1, <2>2
<1> QED
    BY <1>2, <1>3

\* The exchange takes a preview: it has samples, of the worker's sweep.
LEMMA PreviewTakenTold ==
    ASSUME Types, ExchangeStands, SweepsTold, NEW range, ChunkOf(range),
           NEW st, st.gen \in Nat, Accepts(Preview(Assembled(range)), st),
           exchange' = Shown(Preview(Assembled(range)), st)
    PROVE  ExchangeTold'
<1> DEFINE next == Preview(Assembled(range))
           event == Event("available", next.ident, next, st)
<1>1. next.ident = Identity /\ next.traces = Assembled(range).traces
    BY DEF Preview, Identity
<1>2. Identity.gen \in Nat /\ Identity.sweep = sweep.id
    BY DEF Identity, Types
<1>3. ASSUME NEW t \in DOMAIN next.traces
      PROVE  next.traces[t][1].sweep = next.ident.sweep
  <2>1. Len(next.traces[t]) \in 1..Points
      BY <1>3 DEF Accepts, ValidPreview, ValidTrace
  <2>2. OfSweep(next.traces[t])
      BY <1>1, AssembledTold
  <2>3. 1 \in 1..Len(next.traces[t])
      BY <2>1, PreviewAssumption
  <2> HIDE DEF next
  <2> QED
      BY <1>1, <1>2, <2>2, <2>3 DEF OfSweep
<1>4. PreviewTold(next)
    BY <1>1, <1>2, <1>3 DEF PreviewTold
<1>5. exchange' = Emit(Adopts(exchange, st, next.ident, next, next.ident.sweep), event)
    BY DEF Shown, Adopts
<1> HIDE DEF next
<1>6. EventTold(event)
    BY <1>4, ShownTold
<1> HIDE DEF event
<1>7. exchange = Ex(plan.gen, exchange.status, exchange.active, exchange.current,
                    exchange.last, exchange.event)
    BY DEF ExchangeStands, Retains
<1>8. Adopts(exchange, st, next.ident, next, next.ident.sweep)
      = Ex(plan.gen, st, next.ident, next, next.ident.sweep, exchange.event)
    BY <1>7, AdoptedSet
<1>9. exchange' = Ex(plan.gen, st, next.ident, next, next.ident.sweep, event)
    BY <1>5, <1>8, Emitted
<1>10. exchange'.current = next /\ exchange'.event = event
    BY <1>9, Fields
<1> QED
    BY <1>4, <1>6, <1>10 DEF ExchangeTold

LEMMA ObserveTold ==
    ASSUME PreviewInv, SweepsTold, At("source"), UNCHANGED <<state, plan, published>>,
           NEW range, ChunkOf(range), Recorded(range), Observe(range)
    PROVE  SweepsTold' /\ Newest <= Newest'
<1> DEFINE st == Status(plan, "sweeping", sweep.id, status.done + Len(range.samples))
<1>1. Types /\ CaptureStands /\ ExchangeStands
    BY DEF PreviewInv
<1>2. st.gen \in Nat
    BY <1>1 DEF Status, Types
<1>3. /\ sweep' = [sweep EXCEPT !.samples = sweep'.samples]
      /\ sweep'.samples[range.source] = sweep.samples[range.source] \o range.samples
      /\ \A p \in Ports : p # range.source => sweep'.samples[p] = sweep.samples[p]
    BY <1>1, CaptureGrows
<1>4. sweep'.id = sweep.id /\ sweep.id \in Nat
    BY <1>1, <1>3 DEF Types
<1>5. ASSUME NEW p \in Ports
      PROVE  OfSweep(sweep'.samples[p])
  <2>1. OfSweep(range.samples) /\ OfSweep(sweep.samples[p])
      BY DEF ChunkOf, OfSweep, SweepsTold
  <2>2. OfSweep(sweep.samples[p] \o range.samples)
      BY <2>1, OfSweepConcat
  <2>3. \/ sweep'.samples[p] = sweep.samples[p] \o range.samples
        \/ sweep'.samples[p] = sweep.samples[p]
      BY <1>3
  <2> QED
      BY <2>1, <2>2, <2>3
<1>6. \A t \in DOMAIN assembler'.traces : OfSweep(assembler'.traces[t])
  <2>1. assembler' = Assembled(range) \/ assembler'.traces = assembler.traces
      BY <1>1 DEF Observe, Rejects, Types
  <2> QED
      BY <1>1, <2>1, AssembledTold DEF SweepsTold
<1>7. ExchangeTold'
  <2>1. \/ exchange' = exchange \/ exchange' = UpdateForRuntime(st)
        \/ Withdraw(st)
        \/ /\ Accepts(Preview(Assembled(range)), st)
           /\ exchange' = Shown(Preview(Assembled(range)), st)
      BY DEF Observe, Show, Rejects
  <2> HIDE DEF st
  <2>2. PreviewTold(exchange.current) /\ EventTold(exchange.event) /\ plan.gen \in Nat
      BY <1>1 DEF SweepsTold, Types
  <2>3. CASE exchange' = exchange \/ exchange' = UpdateForRuntime(st)
      BY <1>1, <1>2, <2>2, <2>3, UpdateTold DEF ExchangeTold
  <2>4. CASE Withdraw(st)
      BY <1>1, <1>2, <2>2, <2>4, WithdrawTold DEF ExchangeTold
  <2>5. CASE /\ Accepts(Preview(Assembled(range)), st)
             /\ exchange' = Shown(Preview(Assembled(range)), st)
      BY <1>1, <1>2, <2>5, PreviewTakenTold
  <2> QED
      BY <2>1, <2>3, <2>4, <2>5
<1>8. SetTold(published') /\ published'.seq <= sweep'.id
    BY <1>4 DEF SweepsTold
<1>9. Newest <= Newest'
    BY <1>4 DEF SweepsTold, SetTold, Newest
<1>10. /\ (\A p \in Ports : OfSweep(sweep.samples[p]))'
       /\ (\A t \in DOMAIN assembler.traces : OfSweep(assembler.traces[t]))'
    BY <1>4, <1>5, <1>6 DEF OfSweep
<1> QED
    BY <1>7, <1>8, <1>9, <1>10 DEF SweepsTold, ExchangeTold, SetTold

LEMMA BeginTold ==
    ASSUME PreviewInv, SweepsTold, BeginCapture
    PROVE  SweepsTold' /\ Newest <= Newest'
<1>1. Types /\ ExchangeStands
    BY DEF PreviewInv
<1>2. /\ sweep'.id = sweep.id + 1 /\ sweep.id \in Nat
      /\ sweep'.samples = [p \in Ports |-> <<>>]
      /\ assembler'.traces = <<>> /\ published' = published
    BY <1>1 DEF BeginCapture, Types, EmptyAssembler
<1>3. /\ (\A p \in Ports : OfSweep(sweep.samples[p]))'
      /\ (\A t \in DOMAIN assembler.traces : OfSweep(assembler.traces[t]))'
    BY <1>2, EmptySeq DEF OfSweep
<1>4. ExchangeTold'
  <2>1. PreparingStatus(sweep.id + 1).gen \in Nat
      BY <1>1 DEF PreparingStatus, Status, Types
  <2>2. exchange' = UpdateForRuntime(PreparingStatus(sweep.id + 1))
      BY DEF BeginCapture, Show
  <2> QED
      BY <1>1, <2>1, <2>2, UpdateTold DEF SweepsTold, ExchangeTold
<1>5. SetTold(published') /\ published'.seq <= sweep'.id /\ Newest <= Newest'
    BY <1>2 DEF SweepsTold, SetTold, Newest
<1> QED
    BY <1>3, <1>4, <1>5 DEF SweepsTold, ExchangeTold, SetTold

LEMMA PublishTold ==
    ASSUME PreviewInv, SweepsTold, Publish
    PROVE  SweepsTold' /\ Newest <= Newest'
<1>1. Types
    BY DEF PreviewInv
<1>2. /\ sweep'.id = sweep.id /\ sweep'.samples = sweep.samples /\ sweep.id \in Nat
      /\ assembler' = assembler /\ exchange' = exchange
      /\ published' = FrameSet /\ ValidSet(FrameSet)
    BY <1>1 DEF Publish, Go, Types
<1>3. ASSUME NEW t \in DOMAIN FrameSet.frames
      PROVE  FrameSet.frames[t][1].sweep = sweep.id
  <2>1. Len(FrameSet.frames[t]) \in 2..Points
      BY <1>2 DEF ValidSet, ValidFrame
  <2>2. OfSweep(FrameSet.frames[t])
    <3>1. t \in DOMAIN plan.setup /\ plan.setup[t].source \in Ports
        BY <1>1, PortsThere DEF FrameSet
    <3> QED
        BY <3>1 DEF FrameSet, SweepsTold
  <2> QED
      BY <2>1, <2>2, PreviewAssumption DEF OfSweep
<1>4. FrameSet.gen \in Nat /\ FrameSet.seq = sweep.id
    BY <1>1 DEF FrameSet, Types
<1>5. SetTold(published') /\ published'.seq <= sweep'.id
    BY <1>2, <1>3, <1>4 DEF SetTold
<1>6. Newest <= Newest'
    BY <1>2, <1>4 DEF SweepsTold, SetTold, Newest
<1>7. /\ (\A p \in Ports : OfSweep(sweep.samples[p]))'
      /\ (\A t \in DOMAIN assembler.traces : OfSweep(assembler.traces[t]))'
    BY <1>2 DEF SweepsTold, OfSweep
<1> QED
    BY <1>2, <1>5, <1>6, <1>7 DEF SweepsTold, SetTold

LEMMA EndTold ==
    ASSUME PreviewInv, SweepsTold, plan' = plan, UNCHANGED <<assembler, published>>,
           NEW st, st.gen \in Nat,
           Withdraw(st) \/ exchange' = UpdateForRuntime(st) \/ exchange' = exchange,
           sweep'.id = sweep.id, sweep'.samples = sweep.samples
    PROVE  SweepsTold' /\ Newest <= Newest'
<1>1. Types /\ ExchangeStands /\ plan.gen \in Nat
    BY DEF PreviewInv, Types
<1>2. ExchangeTold'
    BY <1>1, UpdateTold, WithdrawTold DEF SweepsTold, ExchangeTold
<1> QED
    BY <1>1, <1>2, KeptTold

LEMMA StatusGeneration ==
    ASSUME Types
    PROVE  /\ \A phase, id, done : Status(plan, phase, id, done).gen \in Nat
           /\ HoldStatus(plan).gen \in Nat
           /\ \A id : PreparingStatus(id).gen \in Nat
BY DEF Types, Status, HoldStatus, PreparingStatus

LEMMA PrepareTold ==
    ASSUME PreviewInv, SweepsTold, PrepareCycle
    PROVE  SweepsTold' /\ Newest <= Newest'
<1>1. Types /\ ExchangeStands
    BY DEF PreviewInv
<1>2. /\ sweep'.id = sweep.id /\ sweep'.samples = sweep.samples /\ assembler' = assembler
    BY <1>1 DEF PrepareCycle, EnterCycle, Go, Types
<1>3. CASE HasPending
  <2>1. Apply(state.rev, state.setup)
      BY <1>3 DEF PrepareCycle
  <2>2. ExchangeTold' /\ (published' = published \/ published' = NoSet)
      BY <1>1, <2>1, ApplyTold DEF SweepsTold, ExchangeTold
  <2> QED
      BY <1>1, <1>2, <2>2, KeptTold
<1>4. CASE ~HasPending
  <2>1. /\ plan' = plan /\ published' = published
        /\ exchange' = exchange \/ exchange' = UpdateForRuntime(HoldStatus(plan))
      BY <1>4 DEF PrepareCycle, Show
  <2> QED
      BY <1>1, <1>2, <2>1, StatusGeneration, EndTold
<1> QED
    BY <1>3, <1>4

LEMMA ConfigureTold ==
    ASSUME PreviewInv, SweepsTold, NEW setup, Configure(setup)
    PROVE  SweepsTold' /\ Newest <= Newest'
<1>1. Types /\ ExchangeStands
    BY DEF PreviewInv
<1>2. sweep' = sweep /\ assembler' = assembler
    BY DEF Configure
<1>3. CASE Apply(state.rev + 1, setup)
  <2>1. ExchangeTold' /\ (published' = published \/ published' = NoSet)
      BY <1>1, <1>3, ApplyTold DEF SweepsTold, ExchangeTold
  <2> QED
      BY <1>1, <1>2, <2>1, KeptTold
<1>4. CASE UNCHANGED <<plan, status, published, exchange>>
    BY <1>1, <1>2, <1>4, StatusGeneration, EndTold
<1> QED
    BY <1>3, <1>4 DEF Configure

\* Every sweep tells the truth about itself, and what is published moves on.
LEMMA StepTold ==
    ASSUME PreviewInv, SweepsTold, PreviewNext
    PROVE  SweepsTold' /\ Newest <= Newest'
<1>1. Types /\ ExchangeStands /\ plan.gen \in Nat
    BY DEF PreviewInv, Types
<1>2. CASE PrepareCycle
    BY <1>2, PrepareTold
<1>3. CASE Promote
  <2>1. /\ sweep'.id = sweep.id /\ sweep'.samples = sweep.samples
        /\ UNCHANGED <<plan, assembler, published, exchange>>
      BY <1>1, <1>3 DEF Promote, EnterCycle, Types
  <2> QED
      BY <1>1, <2>1, StatusGeneration, EndTold
<1>4. CASE BeginCapture
    BY <1>4, BeginTold
<1>5. ASSUME NEW quality \in {"good", "zero reference", "zero response"}, Deliver(quality)
      PROVE  SweepsTold' /\ Newest <= Newest'
  <2>1. PICK range : /\ ChunkOf(range) /\ Recorded(range) /\ Observe(range)
                     /\ At("source") /\ UNCHANGED <<state, plan, published>>
      BY <1>1, <1>5, DeliverIs DEF Qualities
  <2> QED
      BY <2>1, ObserveTold
<1>6. CASE CaptureFails \/ ProcessingFails \/ PublicationFails
  <2>1. /\ Fails /\ UNCHANGED <<plan, assembler, published>>
      BY <1>6 DEF CaptureFails, ProcessingFails, PublicationFails
  <2>2. /\ Withdraw(Status(plan, "failed", sweep.id, status.done))
        /\ sweep'.id = sweep.id /\ sweep'.samples = sweep.samples
      BY <1>1, <2>1 DEF Fails, Types
  <2> QED
      BY <1>1, <2>1, <2>2, StatusGeneration, EndTold
<1>7. CASE Cancels
  <2>1. /\ UNCHANGED <<plan, assembler, published>>
        /\ Withdraw(PreparingStatus(0)) \/ Withdraw(HoldStatus(plan))
        /\ sweep'.id = sweep.id /\ sweep'.samples = sweep.samples
      BY <1>1, <1>7 DEF Cancels, Types
  <2> QED
      BY <1>1, <2>1, StatusGeneration, EndTold
<1>8. CASE Calculate
  <2>1. /\ UNCHANGED <<plan, assembler, published>>
        /\ exchange' = UpdateForRuntime(Status(plan, "calculation", sweep.id, Workload))
        /\ sweep'.id = sweep.id /\ sweep'.samples = sweep.samples
      BY <1>1, <1>8 DEF Calculate, Show, Go, Types
  <2> QED
      BY <1>1, <2>1, StatusGeneration, EndTold
<1>9. CASE Publish
    BY <1>9, PublishTold
<1>10. CASE Complete
  <2>1. /\ UNCHANGED <<plan, assembler, published>>
        /\ Withdraw(PreparingStatus(0)) \/ Withdraw(HoldStatus(plan))
        /\ sweep'.id = sweep.id /\ sweep'.samples = sweep.samples
      BY <1>1, <1>10 DEF Complete, Types
  <2> QED
      BY <1>1, <2>1, StatusGeneration, EndTold
<1>11. CASE Restart
  <2>1. /\ UNCHANGED <<plan, assembler, published>>
        /\ Withdraw(PreparingStatus(0)) \/ exchange' = exchange
        /\ sweep'.id = sweep.id /\ sweep'.samples = sweep.samples
      BY <1>1, <1>11 DEF Restart, Types
  <2> QED
      BY <1>1, <2>1, StatusGeneration, EndTold
<1>12. ASSUME NEW setup \in Setups, Configure(setup)
       PROVE  SweepsTold' /\ Newest <= Newest'
    BY <1>12, ConfigureTold
<1> QED
    BY <1>2, <1>3, <1>4, <1>5, <1>6, <1>7, <1>8, <1>9, <1>10, <1>11, <1>12
    DEF PreviewNext, WorkerStep

-------------------------------------------------------------------------------
(* What the reducers draw.                                                  *)

\* OneGenerationDrawn, of a display over a setup.
Drawn(shown, setup) ==
    /\ \A t \in DOMAIN shown.complete :
         /\ shown.complete[t].gen = shown.gen
         /\ t \in DOMAIN setup /\ shown.complete[t].look = setup[t]
    /\ \A t \in DOMAIN shown.partial.traces :
         /\ shown.partial.ident.gen = shown.gen
         /\ shown.partial.traces[t].sweep = shown.partial.ident.sweep
         /\ shown.partial.traces[t].look = setup[t]

LEMMA DrawnIs == OneGenerationDrawn <=> Drawn(display, snapshot.setup)
BY DEF OneGenerationDrawn, Drawn, BelongsToSnapshot

Part(f, g) == DOMAIN f \subseteq DOMAIN g /\ \A x \in DOMAIN f : f[x] = g[x]

LEMMA OnlyPart ==
    ASSUME NEW f, NEW S
    PROVE  /\ DOMAIN Only(f, S) = DOMAIN f \cap S /\ Part(Only(f, S), f)
           /\ DOMAIN <<>> = {} /\ Part(<<>>, f) /\ Part(f, f)
BY EmptySeq DEF Only, Part

LEMMA OnlyOfNothing ==
    ASSUME NEW S
    PROVE  Only(<<>>, S) = <<>>
<1>1. DOMAIN <<>> = {}
    OBVIOUS
<1>2. Only(<<>>, S) = [x \in {} |-> <<>>[x]]
    BY <1>1 DEF Only
<1> QED
    BY <1>1, <1>2

LEMMA NoPartialIs ==
    /\ NoPartial = P(NoPartial.ident, NoPartial.rev, NoPartial.traces)
    /\ NoPartial.traces = <<>> /\ DOMAIN NoPartial.traces = {}
BY DEF NoPartial, P

LEMMA DisplayFields ==
    ASSUME NEW shown, NEW g, NEW c, NEW p, NEW s, shown = D(g, c, p, s)
    PROVE  shown.gen = g /\ shown.complete = c /\ shown.partial = p /\ shown.status = s
BY DEF D

LEMMA DisplayMade ==
    ASSUME NEW g \in Nat, NEW c, NEW i, NEW r, NEW ts, NEW s
    PROVE  Display(D(g, c, P(i, r, ts), s))
BY DEF Display, D, P

LEMMA PartialFields ==
    ASSUME NEW i, NEW r, NEW ts
    PROVE  /\ P(i, r, ts).ident = i /\ P(i, r, ts).rev = r /\ P(i, r, ts).traces = ts
BY DEF P

\* The reducers' updates of a display.
SetAll(shown, g, c, p) == [shown EXCEPT !.gen = g, !.complete = c, !.partial = p]
SetEvent(shown, c, p, s) == [shown EXCEPT !.complete = c, !.partial = p, !.status = s]
SetPartial(shown, p, s) == [shown EXCEPT !.partial = p, !.status = s]
SetCurves(shown, c, p) == [shown EXCEPT !.complete = c, !.partial = p]

LEMMA SetFields ==
    ASSUME NEW shown, NEW g, NEW c, NEW p, NEW s, shown = D(g, c, p, s),
           NEW g2, NEW c2, NEW p2, NEW s2
    PROVE  /\ SetAll(shown, g2, c2, p2) = D(g2, c2, p2, s)
           /\ SetEvent(shown, c2, p2, s2) = D(g, c2, p2, s2)
           /\ SetPartial(shown, p2, s2) = D(g, c, p2, s2)
           /\ SetCurves(shown, c2, p2) = D(g, c2, p2, s)
<1>1. /\ [shown EXCEPT !.gen = g2] = D(g2, c, p, s)
      /\ [shown EXCEPT !.complete = c2] = D(g, c2, p, s)
      /\ [shown EXCEPT !.partial = p2] = D(g, c, p2, s)
    BY DEF D
<1>2. /\ [D(g2, c, p, s) EXCEPT !.complete = c2] = D(g2, c2, p, s)
      /\ [D(g2, c2, p, s) EXCEPT !.partial = p2] = D(g2, c2, p2, s)
      /\ [D(g, c2, p, s) EXCEPT !.partial = p2] = D(g, c2, p2, s)
      /\ [D(g, c2, p2, s) EXCEPT !.status = s2] = D(g, c2, p2, s2)
      /\ [D(g, c, p2, s) EXCEPT !.status = s2] = D(g, c, p2, s2)
    BY DEF D
<1>3. SetAll(shown, g2, c2, p2)
      = [[[shown EXCEPT !.gen = g2] EXCEPT !.complete = c2] EXCEPT !.partial = p2]
    BY DEF SetAll
<1>4. SetEvent(shown, c2, p2, s2)
      = [[[shown EXCEPT !.complete = c2] EXCEPT !.partial = p2] EXCEPT !.status = s2]
    BY DEF SetEvent
<1>5. SetPartial(shown, p2, s2)
      = [[shown EXCEPT !.partial = p2] EXCEPT !.status = s2]
    BY DEF SetPartial
<1>6. SetCurves(shown, c2, p2)
      = [[shown EXCEPT !.complete = c2] EXCEPT !.partial = p2]
    BY DEF SetCurves
<1>7. SetAll(shown, g2, c2, p2) = D(g2, c2, p2, s)
    BY <1>1, <1>2, <1>3
<1>8. SetEvent(shown, c2, p2, s2) = D(g, c2, p2, s2)
    BY <1>1, <1>2, <1>4
<1>9. SetPartial(shown, p2, s2) = D(g, c, p2, s2)
    BY <1>1, <1>2, <1>5
<1> QED
    BY <1>1, <1>2, <1>6, <1>7, <1>8, <1>9

\* Drawing less of the same keeps what is drawn in order.
LEMMA LessDrawn ==
    ASSUME NEW shown, NEW setup, Drawn(shown, setup), NEW less,
           less.gen = shown.gen, Part(less.complete, shown.complete),
           \/ DOMAIN less.partial.traces = {}
           \/ /\ less.partial.ident = shown.partial.ident
              /\ Part(less.partial.traces, shown.partial.traces)
    PROVE  Drawn(less, setup)
BY DEF Drawn, Part

LEMMA ClearedIs ==
    ASSUME NEW shown, Display(shown), NEW setup
    PROVE  /\ Display(Cleared(shown)) /\ Drawn(Cleared(shown), setup)
           /\ Cleared(shown).complete = <<>>
<1>1. shown = D(shown.gen, shown.complete, shown.partial, shown.status)
      /\ shown.gen \in Nat
    BY DEF Display
<1>2. Cleared(shown) = SetCurves(shown, <<>>, NoPartial)
    BY DEF Cleared, SetCurves
<1>3. Cleared(shown) = D(shown.gen, <<>>, NoPartial, shown.status)
  <2>1. \A c : SetCurves(shown, c, NoPartial) = D(shown.gen, c, NoPartial, shown.status)
      BY <1>1, SetFields
  <2> QED
      BY <1>2, <2>1, Zenon
<1>4. /\ Cleared(shown).complete = <<>> /\ Cleared(shown).partial = NoPartial
    BY <1>3, DisplayFields
<1>5. Display(Cleared(shown))
    BY <1>1, <1>3, NoPartialIs, DisplayMade
<1> QED
    BY <1>4, <1>5, NoPartialIs, OnlyPart DEF Drawn

LEMMA WithoutTraceIs ==
    ASSUME NEW shown, Display(shown), NEW t, NEW setup, Drawn(shown, setup)
    PROVE  /\ Display(WithoutTrace(shown, t)) /\ Drawn(WithoutTrace(shown, t), setup)
           /\ Part(WithoutTrace(shown, t).complete, shown.complete)
           /\ shown.complete = <<>> => WithoutTrace(shown, t).complete = <<>>
<1> DEFINE traces == Only(shown.partial.traces, DOMAIN shown.partial.traces \ {t})
           complete == Only(shown.complete, DOMAIN shown.complete \ {t})
           partial == IF DOMAIN traces = {} THEN NoPartial
                      ELSE [shown.partial EXCEPT !.traces = traces]
           less == WithoutTrace(shown, t)
<1>1. /\ shown = D(shown.gen, shown.complete, shown.partial, shown.status)
      /\ shown.partial = P(shown.partial.ident, shown.partial.rev, shown.partial.traces)
      /\ shown.gen \in Nat
    BY DEF Display
<1>2. less = SetCurves(shown, complete, partial)
    BY DEF WithoutTrace, SetCurves
<1>3. less = D(shown.gen, complete, partial, shown.status)
  <2> HIDE DEF less, complete, partial
  <2> QED
      BY <1>1, <1>2, SetFields
<1>4. /\ Part(complete, shown.complete) /\ Part(traces, shown.partial.traces)
      /\ shown.complete = <<>> => complete = <<>>
    BY OnlyPart, OnlyOfNothing
<1>5. \/ partial = NoPartial
      \/ partial = P(shown.partial.ident, shown.partial.rev, traces)
  <2> HIDE DEF traces
  <2>1. [shown.partial EXCEPT !.traces = traces]
        = P(shown.partial.ident, shown.partial.rev, traces)
      BY <1>1 DEF P
  <2> QED
      BY <2>1
<1> HIDE DEF less, complete, partial, traces
<1>6. /\ less.gen = shown.gen /\ less.complete = complete /\ less.partial = partial
    BY <1>3, DisplayFields
<1>7. Display(less)
    BY <1>1, <1>3, <1>5, NoPartialIs, DisplayMade
<1>8. Drawn(less, setup)
    BY <1>4, <1>5, <1>6, NoPartialIs, PartialFields, LessDrawn
<1> QED
    BY <1>4, <1>6, <1>7, <1>8 DEF less

\* An event of a later generation empties the display.
LEMMA BaseIs ==
    ASSUME Display(display), NEW setup, Drawn(display, setup), NEW event,
           EventGeneration(event) \in Nat, ~(EventGeneration(event) < display.gen)
    PROVE  LET base == Base(event) IN
           /\ base = D(EventGeneration(event), base.complete, base.partial, display.status)
           /\ \/ /\ base.complete = <<>> /\ base.partial = NoPartial
              \/ /\ base.complete = display.complete /\ base.partial = display.partial
                 /\ EventGeneration(event) = display.gen
<1> DEFINE gen == EventGeneration(event)
           base == Base(event)
<1>1. /\ display = D(display.gen, display.complete, display.partial, display.status)
      /\ display.gen \in Nat
    BY DEF Display
<1>2. CASE gen > display.gen
  <2>1. base = SetAll(display, gen, <<>>, NoPartial)
      BY <1>2 DEF Base, SetAll
  <2>2. \A c : SetAll(display, gen, c, NoPartial) = D(gen, c, NoPartial, display.status)
    <3> HIDE DEF gen
    <3> QED
        BY <1>1, SetFields
  <2>3. base = D(gen, <<>>, NoPartial, display.status)
      BY <2>1, <2>2, Zenon
  <2> HIDE DEF base, gen
  <2>4. base.complete = <<>> /\ base.partial = NoPartial
      BY <2>3, DisplayFields
  <2>5. base = D(gen, base.complete, base.partial, display.status)
      BY <2>3, <2>4
  <2> QED
      BY <2>4, <2>5 DEF base, gen
<1>3. CASE ~(gen > display.gen)
  <2>1. gen = display.gen
      BY <1>1, <1>3
  <2>2. base = display
      BY <1>3 DEF Base
  <2> HIDE DEF base, gen
  <2>3. /\ base = D(gen, base.complete, base.partial, display.status)
        /\ base.complete = display.complete /\ base.partial = display.partial
      BY <1>1, <2>1, <2>2
  <2> QED
      BY <2>1, <2>3 DEF base, gen
<1> QED
    BY <1>2, <1>3

\* What a reducer of preview events makes of the display: complete curves are kept
\* or dropped together.
Reduced(shown, setup) ==
    /\ Display(shown) /\ Drawn(shown, setup)
    /\ shown.complete \in {display.complete, <<>>}

\* The complete curves of the base, and a partial of its generation or less.
LEMMA ReducedIs ==
    ASSUME Display(display), NEW setup, Drawn(display, setup), NEW gen \in Nat,
           NEW c, NEW i, NEW r, NEW ts, NEW s,
           c = <<>> \/ (c = display.complete /\ gen = display.gen),
           \A t \in DOMAIN ts : i.gen = gen /\ ts[t].sweep = i.sweep
                                /\ ts[t].look = setup[t]
    PROVE  Reduced(D(gen, c, P(i, r, ts), s), setup)
<1> DEFINE shown == D(gen, c, P(i, r, ts), s)
<1>1. shown.gen = gen /\ shown.complete = c /\ shown.partial = P(i, r, ts)
    BY DisplayFields
<1>2. Display(shown)
    BY DisplayMade
<1> HIDE DEF shown
<1>3. \A t \in DOMAIN c : /\ c[t].gen = gen /\ t \in DOMAIN setup
                          /\ c[t].look = setup[t]
  <2>1. CASE c = <<>>
      BY <2>1
  <2>2. CASE c = display.complete /\ gen = display.gen
      BY <2>2 DEF Drawn
  <2> QED
      BY <2>1, <2>2
<1>4. Drawn(shown, setup)
    BY <1>1, <1>3, PartialFields DEF Drawn
<1> QED
    BY <1>1, <1>2, <1>4 DEF Reduced, shown

\* The partial of the base, or none: still in order under the base's generation.
LEMMA BasePartialIs ==
    ASSUME Display(display), NEW setup, Drawn(display, setup), NEW event,
           EventGeneration(event) \in Nat, ~(EventGeneration(event) < display.gen),
           NEW p, p \in {Base(event).partial, NoPartial}
    PROVE  /\ p = P(p.ident, p.rev, p.traces)
           /\ \A t \in DOMAIN p.traces :
                 /\ p.ident.gen = EventGeneration(event)
                 /\ p.traces[t].sweep = p.ident.sweep
                 /\ p.traces[t].look = setup[t]
<1>1. CASE p = NoPartial
    BY <1>1, NoPartialIs
<1>2. CASE p = display.partial /\ EventGeneration(event) = display.gen
    BY <1>2 DEF Display, Drawn
<1> QED
    BY <1>1, <1>2, BaseIs

LEMMA AcceptPreviewIs ==
    ASSUME Display(display), Drawn(display, snapshot.setup), NEW event,
           PreviewMessage(event)
    PROVE  Reduced(AcceptPreviewEvent(event), snapshot.setup)
<1> DEFINE gen == EventGeneration(event)
           base == Base(event)
           setup == snapshot.setup
<1>1. gen \in Nat
    BY DEF PreviewMessage, EventGeneration
<1>2. Reduced(display, setup)
    BY DEF Reduced
<1>3. SUFFICES ASSUME ~(gen < display.gen)
               PROVE  Reduced(AcceptPreviewEvent(event), setup)
    BY <1>2 DEF AcceptPreviewEvent
<1>4. base.complete = <<>> \/ (base.complete = display.complete /\ gen = display.gen)
    BY <1>1, <1>3, BaseIs
<1>9. base = D(gen, base.complete, base.partial, display.status)
    BY <1>1, <1>3, BaseIs
<1>5. ASSUME NEW p, p \in {base.partial, NoPartial},
             NEW c, c \in {base.complete, <<>>}, NEW s
      PROVE  Reduced(D(gen, c, p, s), setup)
  <2>1. /\ p = P(p.ident, p.rev, p.traces)
        /\ \A t \in DOMAIN p.traces :
              p.ident.gen = gen /\ p.traces[t].sweep = p.ident.sweep
              /\ p.traces[t].look = setup[t]
      BY <1>1, <1>3, <1>5, BasePartialIs
  <2>2. c = <<>> \/ (c = display.complete /\ gen = display.gen)
      BY <1>4, <1>5
  <2> HIDE DEF gen, base, setup
  <2>3. Reduced(D(gen, c, P(p.ident, p.rev, p.traces), s), setup)
      BY <1>1, <2>1, <2>2, ReducedIs DEF setup
  <2> QED
      BY <2>1, <2>3
<1>6. CASE event.type = "available"
  <2> DEFINE p == P(event.ident, event.rev, event.curves)
  <2>1. CASE AcceptsPartial(event)
    <3>1. AcceptAvailable(event) = SetPartial(base, p, event.status)
        BY <2>1 DEF AcceptAvailable, SetPartial, P
    <3>2. gen = event.ident.gen
        BY <1>6 DEF EventGeneration
    <3>3. \A t \in DOMAIN event.curves :
            /\ event.ident.gen = gen /\ event.curves[t].sweep = event.ident.sweep
            /\ event.curves[t].look = setup[t]
        BY <2>1, <3>2 DEF PreviewMessage, AcceptsPartial, BelongsToSnapshot
    <3> HIDE DEF gen, base, setup
    <3>4. Reduced(D(gen, base.complete, p, event.status), setup)
        BY <1>1, <1>4, <3>3, ReducedIs DEF setup
    <3> HIDE DEF p
    <3>5. SetPartial(base, p, event.status) = D(gen, base.complete, p, event.status)
        BY <1>9, SetFields
    <3>6. AcceptPreviewEvent(event) = AcceptAvailable(event)
        BY <1>3, <1>6 DEF AcceptPreviewEvent, gen
    <3> QED
        BY <3>1, <3>4, <3>5, <3>6
  <2>2. CASE ~AcceptsPartial(event)
      BY <1>2, <1>3, <1>6, <2>2 DEF AcceptPreviewEvent, AcceptAvailable
  <2> QED
      BY <2>1, <2>2
<1>7. CASE event.type = "generationAdvanced"
  <2>1. AcceptPreviewEvent(event) = SetEvent(base, <<>>, NoPartial, event.status)
      BY <1>3, <1>7 DEF AcceptPreviewEvent, AcceptAdvanced, SetEvent
  <2>2. \A c : SetEvent(base, c, NoPartial, event.status)
               = D(gen, c, NoPartial, event.status)
    <3> HIDE DEF gen, base
    <3> QED
        BY <1>9, SetFields
  <2>3. Reduced(D(gen, <<>>, NoPartial, event.status), setup)
      BY <1>5
  <2>4. SetEvent(base, <<>>, NoPartial, event.status)
        = D(gen, <<>>, NoPartial, event.status)
      BY <2>2, Zenon
  <2> QED
      BY <2>1, <2>3, <2>4, Zenon
<1>8. CASE event.type \notin {"available", "generationAdvanced"}
  <2>1. PICK p \in {base.partial, NoPartial} :
            AcceptPreviewEvent(event) = SetPartial(base, p, event.status)
    <3>1. CASE event.type = "invalidated"
        BY <1>3, <3>1 DEF AcceptPreviewEvent, AcceptInvalidated, SetPartial
    <3>2. CASE event.type # "invalidated"
        BY <1>3, <1>8, <3>2 DEF AcceptPreviewEvent, AcceptStatus, SetPartial
    <3> QED
        BY <3>1, <3>2
  <2>2. Reduced(D(gen, base.complete, p, event.status), setup)
      BY <1>5
  <2> HIDE DEF gen, base
  <2>3. SetPartial(base, p, event.status) = D(gen, base.complete, p, event.status)
      BY <1>9, SetFields
  <2> QED
      BY <2>1, <2>2, <2>3
<1> QED
    BY <1>6, <1>7, <1>8

LEMMA BelongingIs ==
    ASSUME NEW curves, NEW snap
    PROVE  /\ Part(Belonging(curves, snap), curves)
           /\ \A t \in DOMAIN Belonging(curves, snap) :
                 t \in DOMAIN snap.setup /\ curves[t].look = snap.setup[t]
BY OnlyPart DEF Belonging, BelongsToSnapshot

LEMMA AcceptCompleteIs ==
    ASSUME Display(display), Drawn(display, snapshot.setup), NEW set, SetMessage(set)
    PROVE  /\ Display(AcceptComplete(set)) /\ Drawn(AcceptComplete(set), snapshot.setup)
           /\ \/ AcceptComplete(set).complete = display.complete
              \/ Part(AcceptComplete(set).complete, set.curves)
<1>1. SUFFICES ASSUME ~(set.gen < display.gen)
               PROVE  /\ Display(AcceptComplete(set))
                      /\ Drawn(AcceptComplete(set), snapshot.setup)
                      /\ Part(AcceptComplete(set).complete, set.curves)
    BY DEF AcceptComplete
<1> DEFINE changed == set.gen > display.gen
           c == Belonging(set.curves, snapshot)
           p == IF changed THEN NoPartial ELSE display.partial
           s == IF changed THEN NoStatus ELSE display.status
           shown == AcceptComplete(set)
<1>2. shown = D(set.gen, c, p, s)
    BY <1>1 DEF AcceptComplete, D
<1>3. /\ set.gen \in Nat /\ display.gen \in Nat
      /\ \A t \in DOMAIN set.curves : set.curves[t].gen = set.gen
    BY DEF SetMessage, Display
<1>4. /\ p = P(p.ident, p.rev, p.traces)
      /\ \A t \in DOMAIN p.traces :
            p.ident.gen = set.gen /\ p.traces[t].sweep = p.ident.sweep
            /\ p.traces[t].look = snapshot.setup[t]
  <2>1. CASE changed
      BY <2>1, NoPartialIs
  <2>2. CASE ~changed
      BY <1>1, <1>3, <2>2 DEF Display, Drawn
  <2> QED
      BY <2>1, <2>2
<1>5. /\ Part(c, set.curves)
      /\ \A t \in DOMAIN c : /\ t \in DOMAIN snapshot.setup
                             /\ set.curves[t].look = snapshot.setup[t]
    BY BelongingIs
<1> HIDE DEF c, p, s, shown
<1>6. shown.gen = set.gen /\ shown.complete = c /\ shown.partial = p
    BY <1>2, DisplayFields
<1>7. Display(shown)
    BY <1>2, <1>3, <1>4, DisplayMade
<1>8. Drawn(shown, snapshot.setup)
    BY <1>3, <1>4, <1>5, <1>6 DEF Drawn, Part
<1> QED
    BY <1>5, <1>6, <1>7, <1>8 DEF shown

\* What a frame set makes of the display and of what is awaited.
LEMMA FrameSetDrawnIs ==
    ASSUME Display(display), Drawn(display, snapshot.setup), NEW set, SetMessage(set),
           FrameSetDrawn(set)
    PROVE  /\ Display(display') /\ Drawn(display', snapshot.setup)
           /\ \/ Part(display'.complete, display.complete)
              \/ Part(display'.complete, set.curves)
           /\ pending.allS # 0 /\ IsWhole(set) => display'.complete = set.curves
<1>1. CASE pending.allS = 0
  <2> DEFINE accepted == AcceptComplete(set)
  <2>1. display' = WithoutTrace(accepted, pending.trace)
      BY <1>1 DEF FrameSetDrawn
  <2>2. /\ Display(accepted) /\ Drawn(accepted, snapshot.setup)
        /\ accepted.complete = display.complete \/ Part(accepted.complete, set.curves)
      BY AcceptCompleteIs
  <2> HIDE DEF accepted
  <2>3. /\ Display(display') /\ Drawn(display', snapshot.setup)
        /\ Part(display'.complete, accepted.complete)
      BY <2>1, <2>2, WithoutTraceIs
  <2> QED
      BY <1>1, <2>2, <2>3 DEF Part
<1>2. CASE pending.allS # 0 /\ IsWhole(set)
  <2>1. display' = SetAll(display, set.gen, set.curves, NoPartial)
      BY <1>2 DEF FrameSetDrawn, SetAll
  <2>2. display = D(display.gen, display.complete, display.partial, display.status)
        /\ set.gen \in Nat
      BY DEF Display, SetMessage
  <2>3. display' = D(set.gen, set.curves, NoPartial, display.status)
      BY <2>1, <2>2, SetFields
  <2>4. /\ display'.gen = set.gen /\ display'.complete = set.curves
        /\ display'.partial = NoPartial
      BY <2>3, DisplayFields
  <2>5. Display(display')
      BY <2>2, <2>3, NoPartialIs, DisplayMade
  <2>6. Drawn(display', snapshot.setup)
      BY <1>2, <2>4, NoPartialIs DEF Drawn, SetMessage, IsWhole, BelongsToSnapshot
  <2> QED
      BY <2>4, <2>5, <2>6, OnlyPart
<1>3. CASE pending.allS # 0 /\ ~IsWhole(set)
    BY <1>3, OnlyPart DEF FrameSetDrawn
<1> QED
    BY <1>1, <1>2, <1>3

LEMMA RetainIs ==
    ASSUME Display(display), Drawn(display, snapshot.setup), NEW snap, snap.gen \in Nat
    PROVE  /\ Display(Retain(snap)) /\ Drawn(Retain(snap), snap.setup)
           /\ Part(Retain(snap).complete, display.complete)
<1> DEFINE same == display.gen = snap.gen
           kept == Belonging(display.partial.traces, snap)
           c == IF same THEN Belonging(display.complete, snap) ELSE <<>>
           p == IF /\ same /\ DOMAIN kept # {}
                   /\ display.partial.rev \in {snap.rev, snap.applied}
                THEN [display.partial EXCEPT !.traces = kept] ELSE NoPartial
           s == IF same THEN display.status ELSE NoStatus
           shown == Retain(snap)
<1>1. shown = D(snap.gen, c, p, s)
    BY DEF Retain, D
<1>2. display.partial = P(display.partial.ident, display.partial.rev,
                          display.partial.traces)
    BY DEF Display
<1>3. /\ Part(Belonging(display.complete, snap), display.complete)
      /\ \A t \in DOMAIN Belonging(display.complete, snap) :
            t \in DOMAIN snap.setup /\ display.complete[t].look = snap.setup[t]
      /\ Part(kept, display.partial.traces)
      /\ \A t \in DOMAIN kept : /\ t \in DOMAIN snap.setup
                                /\ display.partial.traces[t].look = snap.setup[t]
    BY BelongingIs
<1>4. /\ p = P(p.ident, p.rev, p.traces)
      /\ \A t \in DOMAIN p.traces :
            /\ p.ident.gen = snap.gen /\ p.traces[t].sweep = p.ident.sweep
            /\ p.traces[t].look = snap.setup[t]
  <2>1. CASE p = NoPartial
      BY <2>1, NoPartialIs
  <2>2. CASE same /\ p = [display.partial EXCEPT !.traces = kept]
    <3> HIDE DEF kept, p
    <3>1. p = P(display.partial.ident, display.partial.rev, kept)
        BY <1>2, <2>2 DEF P
    <3>2. /\ p.ident = display.partial.ident /\ p.rev = display.partial.rev
          /\ p.traces = kept
        BY <3>1, PartialFields
    <3> QED
        BY <1>3, <2>2, <3>1, <3>2 DEF Drawn, Part
  <2> QED
      BY <2>1, <2>2
<1>5. /\ Part(c, display.complete)
      /\ \A t \in DOMAIN c : /\ display.gen = snap.gen /\ t \in DOMAIN snap.setup
                             /\ display.complete[t].look = snap.setup[t]
    BY <1>3, OnlyPart
<1> HIDE DEF c, p, s, shown
<1>6. shown.gen = snap.gen /\ shown.complete = c /\ shown.partial = p
    BY <1>1, DisplayFields
<1>7. Display(shown)
    BY <1>1, <1>4, DisplayMade
<1>8. Drawn(shown, snap.setup)
    BY <1>4, <1>5, <1>6 DEF Drawn, Part
<1> QED
    BY <1>5, <1>6, <1>7, <1>8 DEF shown

-------------------------------------------------------------------------------
(* The lanes, the answers and the order of what is drawn.                   *)

MessageSet(ls, m) == [ls EXCEPT !.complete.message = m]
EventSet(ls, m) == [ls EXCEPT !.preview.message = m]
LaneSet(ls, lane) == [ls EXCEPT !.complete = lane]
EventLaneSet(ls, lane) == [ls EXCEPT !.preview = lane]

LEMMA LanesSet ==
    ASSUME NEW ls, NEW n, NEW m, NEW n2, NEW m2, ls = Lanes(n, m, n2, m2), NEW v, NEW w
    PROVE  /\ MessageSet(ls, v) = Lanes(n, v, n2, m2)
           /\ EventSet(ls, v) = Lanes(n, m, n2, v)
           /\ LaneSet(ls, Lane(w, v)) = Lanes(w, v, n2, m2)
           /\ EventLaneSet(ls, Lane(w, v)) = Lanes(n, m, w, v)
<1>1. [Lane(n, m) EXCEPT !.message = v] = Lane(n, v)
      /\ [Lane(n2, m2) EXCEPT !.message = v] = Lane(n2, v)
    BY DEF Lane
<1>2. ls = [complete |-> Lane(n, m), preview |-> Lane(n2, m2)]
    BY DEF Lanes
<1>3. /\ MessageSet(ls, v)
           = [ls EXCEPT !.complete = [Lane(n, m) EXCEPT !.message = v]]
      /\ EventSet(ls, v)
           = [ls EXCEPT !.preview = [Lane(n2, m2) EXCEPT !.message = v]]
    BY <1>2 DEF MessageSet, EventSet
<1>4. \A x, y : /\ [ls EXCEPT !.complete = Lane(x, y)] = Lanes(x, y, n2, m2)
                /\ [ls EXCEPT !.preview = Lane(x, y)] = Lanes(n, m, x, y)
    BY <1>2 DEF Lanes
<1> QED
    BY <1>1, <1>3, <1>4 DEF LaneSet, EventLaneSet

NewsSet(ls, v, w) == [ls EXCEPT !.complete.news = v, !.preview.news = w]
LEMMA NewsSetIs ==
    ASSUME NEW ls, NEW n, NEW m, NEW n2, NEW m2, ls = Lanes(n, m, n2, m2), NEW v, NEW w
    PROVE  NewsSet(ls, v, w) = Lanes(v, m, w, m2)
<1>1. /\ [Lane(n, m) EXCEPT !.news = v] = Lane(v, m)
      /\ [Lane(n2, m2) EXCEPT !.news = w] = Lane(w, m2)
    BY DEF Lane
<1>2. ls = [complete |-> Lane(n, m), preview |-> Lane(n2, m2)]
    BY DEF Lanes
<1>3. NewsSet(ls, v, w)
      = [[ls EXCEPT !.complete = [Lane(n, m) EXCEPT !.news = v]]
            EXCEPT !.preview = [Lane(n2, m2) EXCEPT !.news = w]]
    BY <1>2 DEF NewsSet
<1>4. [ls EXCEPT !.complete = Lane(v, m)] = Lanes(v, m, n2, m2)
    BY <1>2 DEF Lanes
<1>5. [Lanes(v, m, n2, m2) EXCEPT !.preview = Lane(w, m2)] = Lanes(v, m, w, m2)
    BY DEF Lanes
<1> QED
    BY <1>1, <1>3, <1>4, <1>5

LEMMA LaneFields ==
    ASSUME NEW n, NEW m, NEW n2, NEW m2, NEW ls, ls = Lanes(n, m, n2, m2)
    PROVE  /\ ls.complete.news = n /\ ls.complete.message = m
           /\ ls.preview.news = n2 /\ ls.preview.message = m2
BY DEF Lanes, Lane

LEMMA AnswersAre ==
    ASSUME AnswersTold, plan.gen \in Nat, NEW c \in Callers,
           \/ fetches' = [fetches EXCEPT ![c] = NoFetch]
           \/ fetches' = [fetches EXCEPT ![c] = Answer]
    PROVE  AnswersTold'
<1>1. Answer.gen \in Nat /\ NoFetch.type # "answer"
    BY DEF Answer, NoFetch
<1>2. PICK v : v \in {NoFetch, Answer} /\ fetches' = [fetches EXCEPT ![c] = v]
    OBVIOUS
<1>3. fetches' = [d \in Callers |-> IF d = c THEN v ELSE fetches[d]]
    BY <1>2 DEF AnswersTold
<1> QED
    BY <1>1, <1>2, <1>3 DEF AnswersTold

WholeStep ==
    pending.allS # 0 /\ display'.complete # <<>> =>
        /\ DOMAIN display'.complete = DOMAIN snapshot'.setup
        /\ \A t, u \in DOMAIN display'.complete :
             /\ display'.complete[t].rev >= pending.allS
             /\ display'.complete[t].look = snapshot'.setup[t]
             /\ display'.complete[t].sweep = display'.complete[u].sweep
BackStep ==
    \A t \in DOMAIN display.complete \cap DOMAIN display'.complete :
        display'.complete[t].sweep >= display.complete[t].sweep

LEMMA NewestIs ==
    ASSUME PreviewInv, SweepsTold
    PROVE  Newest \in Nat
BY DEF PreviewInv, Types, SweepsTold, SetTold, Newest

\* Nothing is drawn that was not there, and no message is added.
LEMMA LessKeepsOrder ==
    ASSUME Ordered, Newest \in Nat, Newest' \in Nat, Newest <= Newest',
           Part(display'.complete, display.complete),
           \/ lanes'.complete.message = Nothing
           \/ lanes'.complete.message = lanes.complete.message
    PROVE  Ordered' /\ BackStep
<1>1. BackStep
  <2>1. \A t \in DOMAIN display.complete : display.complete[t].sweep \in Nat
      BY DEF Ordered
  <2> QED
      BY <2>1 DEF Part, BackStep
<1>2. (\A t \in DOMAIN display.complete : display.complete[t].sweep \in 0..Newest)'
    BY DEF Ordered, Part
<1>3. ASSUME lanes'.complete.message # Nothing,
             NEW u \in DOMAIN lanes'.complete.message.curves
      PROVE  /\ lanes'.complete.message.curves[u].sweep \in 0..Newest'
             /\ \A t \in DOMAIN display'.complete :
                  display'.complete[t].sweep <= lanes'.complete.message.curves[u].sweep
    BY <1>3 DEF Ordered, Part
<1> QED
    BY <1>1, <1>2, <1>3 DEF Ordered

LEMMA PreviewKept ==
    ASSUME PreviewInv, SweepsTold, UNCHANGED previewVars
    PROVE  PreviewInv' /\ SweepsTold' /\ Newest' = Newest /\ Newest \in Nat
<1>1. PreviewInv'
    BY StepStands
<1>2. SweepsTold' /\ Newest' = Newest
    BY DEF previewVars, SweepsTold, OfSweep, Newest
<1> QED
    BY <1>1, <1>2, NewestIs

\* The server's steps reach the browser as news only.
LEMMA ServerStands ==
    ASSUME LiveInv, PreviewNext, NEW v, NEW w, lanes' = NewsSet(lanes, v, w),
           UNCHANGED <<fetches, display, snapshot, pending>>
    PROVE  LiveInv' /\ WholeStep /\ BackStep
<1>1. /\ PreviewInv /\ SweepsTold /\ Shapes /\ MessagesTold /\ AnswersTold /\ Ordered
      /\ NothingUnderAllS /\ OneGenerationDrawn
    BY DEF LiveInv, ScreenInv
<1>2. PreviewInv' /\ SweepsTold' /\ Newest <= Newest'
    BY <1>1, StepStands, StepTold
<1>3. Newest \in Nat /\ Newest' \in Nat
    BY <1>1, <1>2, NewestIs DEF PreviewInv, Types, SweepsTold, SetTold, Newest
<1>4. lanes' = Lanes(v, lanes.complete.message, w, lanes.preview.message)
    BY <1>1, NewsSetIs DEF Shapes
<1>5. /\ lanes'.complete.news = v /\ lanes'.complete.message = lanes.complete.message
      /\ lanes'.preview.news = w /\ lanes'.preview.message = lanes.preview.message
    BY <1>4, LaneFields
<1>6. Shapes'
    BY <1>1, <1>4, <1>5 DEF Shapes, Display
<1>7. MessagesTold' /\ AnswersTold' /\ NothingUnderAllS'
    BY <1>1, <1>5 DEF MessagesTold, SetMessage, PreviewMessage, AnswersTold,
                      NothingUnderAllS
<1>8. Ordered' /\ BackStep
    BY <1>1, <1>2, <1>3, <1>5, OnlyPart, LessKeepsOrder
<1>9. OneGenerationDrawn'
    BY <1>1 DEF OneGenerationDrawn, BelongsToSnapshot
<1>10. WholeStep
    BY <1>1 DEF NothingUnderAllS, WholeStep
<1> QED
    BY <1>2, <1>6, <1>7, <1>8, <1>9, <1>10 DEF LiveInv, ScreenInv

\* A step of the browser that draws no complete curve that was not there.
LEMMA LessStands ==
    ASSUME LiveInv, UNCHANGED previewVars, Shapes', MessagesTold', AnswersTold',
           Drawn(display', snapshot'.setup),
           Part(display'.complete, display.complete),
           \/ lanes'.complete.message = Nothing
           \/ lanes'.complete.message = lanes.complete.message,
           pending.allS # 0 \/ pending'.allS # 0 => display'.complete = <<>>
    PROVE  LiveInv' /\ WholeStep /\ BackStep
<1>1. PreviewInv /\ SweepsTold /\ Ordered
    BY DEF LiveInv, ScreenInv
<1>2. PreviewInv' /\ SweepsTold' /\ Newest' = Newest /\ Newest \in Nat
    BY <1>1, PreviewKept
<1>3. Ordered' /\ BackStep
    BY <1>1, <1>2, LessKeepsOrder
<1>4. OneGenerationDrawn'
    BY DEF OneGenerationDrawn, Drawn, BelongsToSnapshot
<1>5. NothingUnderAllS' /\ WholeStep
    BY DEF NothingUnderAllS, WholeStep
<1> QED
    BY <1>2, <1>3, <1>4, <1>5 DEF LiveInv, ScreenInv

\* What a frame set on its way says is what the repository has.
LEMMA StreamCompleteStands ==
    ASSUME LiveInv, StreamComplete
    PROVE  LiveInv' /\ WholeStep /\ BackStep
<1> DEFINE curves == Curves(published.gen, published.rev, published.frames)
           m == [type |-> "set", gen |-> published.gen, rev |-> published.rev,
                 curves |-> curves]
           none == FALSE
<1>1. /\ PreviewInv /\ SweepsTold /\ Shapes /\ MessagesTold /\ AnswersTold /\ Ordered
      /\ NothingUnderAllS /\ OneGenerationDrawn
    BY DEF LiveInv, ScreenInv
<1>2. /\ UNCHANGED previewVars
      /\ UNCHANGED <<fetches, snapshot, display, pending>>
      /\ lanes' = LaneSet(lanes, Lane(none, m))
    BY DEF StreamComplete, Lane, LaneSet
<1>3. PreviewInv' /\ SweepsTold' /\ Newest' = Newest /\ Newest \in Nat
    BY <1>1, <1>2, PreviewKept
<1>4. /\ published.gen \in Nat /\ published.seq \in Nat
      /\ DOMAIN curves = DOMAIN published.frames
      /\ \A t \in DOMAIN curves :
            /\ curves[t].gen = published.gen /\ curves[t].rev = published.rev
            /\ curves[t].sweep = published.seq
    BY <1>1 DEF SweepsTold, SetTold, Curves, Curve
<1>5. ASSUME NEW t \in DOMAIN curves
      PROVE  Newest = published.seq
  <2>1. published # NoSet
      BY <1>4 DEF NoSet
  <2> QED
      BY <2>1 DEF Newest
<1> HIDE DEF curves
<1>6. /\ m.gen = published.gen /\ m.rev = published.rev /\ m.curves = curves
    OBVIOUS
<1> HIDE DEF m, none
<1>7. lanes' = Lanes(none, m, lanes.preview.news, lanes.preview.message)
    BY <1>1, <1>2, LanesSet DEF Shapes
<1>8. /\ lanes'.complete.news = none /\ lanes'.complete.message = m
      /\ lanes'.preview.news = lanes.preview.news
      /\ lanes'.preview.message = lanes.preview.message
    BY <1>7, LaneFields
<1>9. Shapes'
    BY <1>1, <1>2, <1>7, <1>8 DEF Shapes, Display
<1>10. SetMessage(m)
    BY <1>4, <1>6 DEF SetMessage
<1>11. MessagesTold' /\ AnswersTold' /\ NothingUnderAllS'
  <2>1. MessagesTold'
      BY <1>1, <1>8, <1>10 DEF MessagesTold
  <2> QED
      BY <1>1, <1>2, <2>1 DEF AnswersTold, NothingUnderAllS
<1>12. Ordered'
  <2>1. \A t \in DOMAIN display.complete : display.complete[t].sweep \in 0..Newest
      BY <1>1 DEF Ordered
  <2>2. \A u \in DOMAIN m.curves : m.curves[u].sweep = Newest
      BY <1>4, <1>5, <1>6
  <2>3. ASSUME NEW u \in DOMAIN m.curves
        PROVE  /\ m.curves[u].sweep \in 0..Newest
               /\ \A t \in DOMAIN display.complete :
                    display.complete[t].sweep <= m.curves[u].sweep
      BY <1>3, <2>1, <2>2
  <2> QED
      BY <1>2, <1>3, <1>8, <2>1, <2>3 DEF Ordered
<1>13. OneGenerationDrawn'
    BY <1>1, <1>2 DEF OneGenerationDrawn, BelongsToSnapshot
<1>14. BackStep
  <2>1. \A t \in DOMAIN display.complete : display.complete[t].sweep \in Nat
      BY <1>1, <1>3 DEF Ordered
  <2> QED
      BY <1>2, <2>1 DEF BackStep
<1>15. WholeStep
    BY <1>1, <1>2 DEF NothingUnderAllS, WholeStep
<1> QED
    BY <1>3, <1>9, <1>11, <1>12, <1>13, <1>14, <1>15 DEF LiveInv, ScreenInv

LEMMA ReceiveSetStands ==
    ASSUME LiveInv, ReceiveSet
    PROVE  LiveInv' /\ WholeStep /\ BackStep
<1> DEFINE set == lanes.complete.message
<1>1. /\ PreviewInv /\ SweepsTold /\ Shapes /\ MessagesTold /\ AnswersTold /\ Ordered
      /\ NothingUnderAllS /\ OneGenerationDrawn
    BY DEF LiveInv, ScreenInv
<1>2. /\ UNCHANGED previewVars /\ UNCHANGED <<fetches, snapshot>>
      /\ lanes' = MessageSet(lanes, Nothing)
      /\ set # Nothing /\ FrameSetDrawn(set)
    BY DEF ReceiveSet, MessageSet
<1>3. PreviewInv' /\ SweepsTold' /\ Newest' = Newest /\ Newest \in Nat
    BY <1>1, <1>2, PreviewKept
<1>4. lanes' = Lanes(lanes.complete.news, Nothing, lanes.preview.news,
                     lanes.preview.message)
    BY <1>1, <1>2, LanesSet DEF Shapes
<1>5. /\ lanes'.complete.news = lanes.complete.news /\ lanes'.complete.message = Nothing
      /\ lanes'.preview.news = lanes.preview.news
      /\ lanes'.preview.message = lanes.preview.message
    BY <1>4, LaneFields
<1>6. Display(display) /\ Drawn(display, snapshot.setup) /\ SetMessage(set)
    BY <1>1, <1>2, DrawnIs DEF Shapes, MessagesTold
<1>7. /\ Display(display') /\ Drawn(display', snapshot.setup)
      /\ \/ Part(display'.complete, display.complete)
         \/ Part(display'.complete, set.curves)
    BY <1>2, <1>6, FrameSetDrawnIs
<1>8. pending' = [trace |-> pending'.trace, allS |-> pending'.allS,
                  boundary |-> pending'.boundary]
  <2>1. pending' = pending \/ pending' = [pending EXCEPT !.allS = 0]
      BY <1>2 DEF FrameSetDrawn
  <2>2. pending = [trace |-> pending.trace, allS |-> pending.allS,
                   boundary |-> pending.boundary]
      BY <1>1 DEF Shapes
  <2> QED
      BY <2>1, <2>2
<1>9. Shapes'
    BY <1>4, <1>5, <1>7, <1>8 DEF Shapes, Display
<1>10. MessagesTold' /\ AnswersTold'
    BY <1>1, <1>2, <1>5 DEF MessagesTold, PreviewMessage, AnswersTold
<1>11. /\ \A t \in DOMAIN display.complete :
             /\ display.complete[t].sweep \in 0..Newest
             /\ \A u \in DOMAIN set.curves :
                  display.complete[t].sweep <= set.curves[u].sweep
       /\ \A u \in DOMAIN set.curves : set.curves[u].sweep \in 0..Newest
    BY <1>1, <1>2 DEF Ordered
<1>12. Ordered' /\ BackStep
  <2>1. \A t \in DOMAIN display'.complete : display'.complete[t].sweep \in 0..Newest
      BY <1>7, <1>11 DEF Part
  <2>2. BackStep
      BY <1>3, <1>7, <1>11 DEF Part, BackStep
  <2> QED
      BY <1>3, <1>5, <2>1, <2>2 DEF Ordered
<1>13. NothingUnderAllS'
  <2>1. pending'.allS # 0 => pending'.allS = pending.allS /\ display' = display
      BY <1>1, <1>2 DEF FrameSetDrawn, Shapes
  <2> QED
      BY <1>1, <2>1 DEF NothingUnderAllS
<1>14. WholeStep
  <2> SUFFICES ASSUME pending.allS # 0, display'.complete # <<>>
               PROVE  /\ DOMAIN display'.complete = DOMAIN snapshot'.setup
                      /\ \A t, u \in DOMAIN display'.complete :
                           /\ display'.complete[t].rev >= pending.allS
                           /\ display'.complete[t].look = snapshot'.setup[t]
                           /\ display'.complete[t].sweep = display'.complete[u].sweep
      BY DEF WholeStep
  <2>1. IsWhole(set)
      BY <1>1, <1>2 DEF FrameSetDrawn, NothingUnderAllS
  <2>2. display'.complete = set.curves
      BY <1>2, <1>6, <2>1, FrameSetDrawnIs
  <2> QED
      BY <1>2, <1>6, <2>1, <2>2 DEF IsWhole, SetMessage, BelongsToSnapshot
<1>15. OneGenerationDrawn'
    BY <1>2, <1>7 DEF OneGenerationDrawn, Drawn, BelongsToSnapshot
<1> QED
    BY <1>3, <1>9, <1>10, <1>12, <1>13, <1>14, <1>15 DEF LiveInv, ScreenInv

LEMMA StreamPreviewStands ==
    ASSUME LiveInv, StreamPreview
    PROVE  LiveInv' /\ WholeStep /\ BackStep
<1> DEFINE event == exchange.event
           curves == Curves(event.ident.gen, event.preview.rev, event.preview.traces)
           m == [type |-> event.type, ident |-> event.ident, rev |-> event.preview.rev,
                 active |-> event.active, curves |-> curves, status |-> Told(event.status)]
           none == FALSE
<1>1. /\ PreviewInv /\ SweepsTold /\ Shapes /\ MessagesTold /\ AnswersTold
      /\ NothingUnderAllS /\ OneGenerationDrawn
    BY DEF LiveInv, ScreenInv
<1>2. /\ UNCHANGED previewVars
      /\ UNCHANGED <<fetches, snapshot, display, pending>>
      /\ lanes' = EventLaneSet(lanes, Lane(none, m))
    BY DEF StreamPreview, Lane, EventLaneSet
<1>3. PreviewMessage(m)
  <2>1. EventTold(event)
      BY <1>1 DEF SweepsTold
  <2>2. \A t \in DOMAIN curves : curves[t].sweep = event.ident.sweep
      BY <2>1 DEF EventTold, Curves, Curve
  <2>3. Told(event.status).gen = event.status.gen
      BY DEF Told
  <2> QED
      BY <2>1, <2>2, <2>3 DEF PreviewMessage, EventTold
<1> HIDE DEF m, none
<1>4. lanes' = Lanes(lanes.complete.news, lanes.complete.message, none, m)
    BY <1>1, <1>2, LanesSet DEF Shapes
<1>5. /\ lanes'.complete.news = lanes.complete.news
      /\ lanes'.complete.message = lanes.complete.message
      /\ lanes'.preview.news = none /\ lanes'.preview.message = m
    BY <1>4, LaneFields
<1>6. Shapes'
    BY <1>1, <1>2, <1>4, <1>5 DEF Shapes, Display
<1>7. MessagesTold'
    BY <1>1, <1>3, <1>5 DEF MessagesTold
<1>8. AnswersTold' /\ Drawn(display', snapshot'.setup)
    BY <1>1, <1>2, DrawnIs DEF AnswersTold
<1> QED
    BY <1>1, <1>2, <1>5, <1>6, <1>7, <1>8, OnlyPart, LessStands DEF NothingUnderAllS

LEMMA ReceivePreviewStands ==
    ASSUME LiveInv, ReceivePreview
    PROVE  LiveInv' /\ WholeStep /\ BackStep
<1> DEFINE event == lanes.preview.message
<1>1. /\ PreviewInv /\ Shapes /\ MessagesTold /\ AnswersTold
      /\ NothingUnderAllS /\ OneGenerationDrawn
    BY DEF LiveInv, ScreenInv
<1>2. /\ UNCHANGED previewVars /\ UNCHANGED snapshot
      /\ lanes' = EventSet(lanes, Nothing)
      /\ event # Nothing /\ display' = AcceptPreviewEvent(event)
    BY DEF ReceivePreview, EventSet
<1>3. Reduced(display', snapshot.setup)
  <2>1. PreviewMessage(event)
      BY <1>1, <1>2 DEF MessagesTold
  <2> HIDE DEF event
  <2> QED
      BY <1>1, <1>2, <2>1, DrawnIs, AcceptPreviewIs DEF Shapes
<1>4. lanes' = Lanes(lanes.complete.news, lanes.complete.message, lanes.preview.news,
                     Nothing)
    BY <1>1, <1>2, LanesSet DEF Shapes
<1>5. /\ lanes'.complete.news = lanes.complete.news
      /\ lanes'.complete.message = lanes.complete.message
      /\ lanes'.preview.news = lanes.preview.news /\ lanes'.preview.message = Nothing
    BY <1>4, LaneFields
<1>6. MessagesTold'
    BY <1>1, <1>5 DEF MessagesTold
<1>7. AnswersTold'
  <2>1. plan.gen \in Nat
      BY <1>1 DEF PreviewInv, Types
  <2>2. fetches' = fetches \/ fetches' = [fetches EXCEPT !["boundary"] = Answer]
      BY DEF ReceivePreview
  <2>3. CASE fetches' = fetches
      BY <1>1, <2>3 DEF AnswersTold
  <2>4. CASE fetches' = [fetches EXCEPT !["boundary"] = Answer]
      BY <1>1, <2>1, <2>4, AnswersAre DEF Callers
  <2> QED
      BY <2>2, <2>3, <2>4
<1>8. /\ pending' = [trace |-> pending'.trace, allS |-> pending'.allS,
                     boundary |-> pending'.boundary]
      /\ pending'.allS = pending.allS
  <2>1. \/ pending' = pending
        \/ pending' = [pending EXCEPT !.boundary = Key(event)]
      BY DEF ReceivePreview
  <2>2. pending = [trace |-> pending.trace, allS |-> pending.allS,
                   boundary |-> pending.boundary]
      BY <1>1 DEF Shapes
  <2> QED
      BY <2>1, <2>2
<1>9. Shapes'
    BY <1>3, <1>4, <1>5, <1>8 DEF Shapes, Reduced, Display
<1>10. /\ Part(display'.complete, display.complete)
       /\ pending.allS # 0 => display'.complete = <<>>
    BY <1>1, <1>3, OnlyPart DEF Reduced, NothingUnderAllS
<1> QED
    BY <1>2, <1>3, <1>5, <1>6, <1>7, <1>8, <1>9, <1>10, LessStands DEF Reduced

\* The screen is left alone.
LEMMA ScreenKept ==
    ASSUME LiveInv, UNCHANGED previewVars, UNCHANGED <<display, snapshot, pending>>,
           AnswersTold', \/ lanes' = lanes \/ lanes' = NewPair \/ lanes' = NoPair
    PROVE  LiveInv' /\ WholeStep /\ BackStep
<1>1. Shapes /\ MessagesTold /\ NothingUnderAllS /\ OneGenerationDrawn
    BY DEF LiveInv, ScreenInv
<1>2. /\ lanes' = Lanes(lanes'.complete.news, lanes'.complete.message,
                        lanes'.preview.news, lanes'.preview.message)
      /\ \/ /\ lanes'.complete.message = lanes.complete.message
            /\ lanes'.preview.message = lanes.preview.message
         \/ /\ lanes'.complete.message = Nothing /\ lanes'.preview.message = Nothing
  <2>1. CASE lanes' = lanes
      BY <1>1, <2>1 DEF Shapes
  <2>2. CASE lanes' = NewPair
      BY <2>2 DEF NewPair, Lanes, Lane
  <2>3. CASE lanes' = NoPair
      BY <2>3 DEF NoPair, Lanes, Lane
  <2> QED
      BY <2>1, <2>2, <2>3
<1>3. Shapes'
    BY <1>1, <1>2 DEF Shapes, Display
<1>4. MessagesTold'
    BY <1>1, <1>2 DEF MessagesTold
<1>5. Drawn(display', snapshot'.setup)
    BY <1>1, DrawnIs
<1> QED
    BY <1>1, <1>2, <1>3, <1>4, <1>5, OnlyPart, LessStands DEF NothingUnderAllS

LEMMA ReceiveLateStands ==
    ASSUME LiveInv, ReceiveLate
    PROVE  LiveInv' /\ WholeStep /\ BackStep
<1>1. AnswersTold'
    BY DEF ReceiveLate, LiveInv, ScreenInv, AnswersTold
<1> QED
    BY <1>1, ScreenKept DEF ReceiveLate, LateSetIgnored

LEMMA RefreshedStands ==
    ASSUME LiveInv, NEW c \in Callers, Refreshed(c)
    PROVE  LiveInv' /\ WholeStep /\ BackStep
<1>1. /\ PreviewInv /\ Shapes /\ MessagesTold /\ AnswersTold
      /\ NothingUnderAllS /\ OneGenerationDrawn
    BY DEF LiveInv, ScreenInv
<1>2. Display(display) /\ Drawn(display, snapshot.setup) /\ fetches[c].gen \in Nat
    BY <1>1, DrawnIs DEF Shapes, AnswersTold, Refreshed
<1>3. /\ Display(display') /\ Drawn(display', snapshot'.setup)
      /\ Part(display'.complete, display.complete)
      /\ pending.allS # 0 => display'.complete = <<>>
  <2>1. CASE pending.allS = 0
    <3>1. display' = Retain(fetches[c]) /\ snapshot' = fetches[c]
        BY <2>1 DEF Refreshed
    <3> QED
        BY <1>2, <2>1, <3>1, RetainIs
  <2>2. CASE pending.allS # 0
    <3>1. display' = Cleared(display)
        BY <2>2 DEF Refreshed
    <3> QED
        BY <1>2, <3>1, ClearedIs, OnlyPart
  <2> QED
      BY <2>1, <2>2
<1>4. /\ pending' = [trace |-> pending'.trace, allS |-> pending'.allS,
                     boundary |-> pending'.boundary]
      /\ pending'.allS = pending.allS
  <2>1. pending' = [pending EXCEPT !.trace = NoTrace]
      BY DEF Refreshed
  <2>2. pending = [trace |-> pending.trace, allS |-> pending.allS,
                   boundary |-> pending.boundary]
      BY <1>1 DEF Shapes
  <2> QED
      BY <2>1, <2>2
<1>5. /\ lanes' = Lanes(lanes'.complete.news, lanes'.complete.message,
                        lanes'.preview.news, lanes'.preview.message)
      /\ \/ /\ lanes'.complete.message = lanes.complete.message
            /\ lanes'.preview.message = lanes.preview.message
         \/ /\ lanes'.complete.message = Nothing /\ lanes'.preview.message = Nothing
  <2>1. CASE lanes' = lanes
      BY <1>1, <2>1 DEF Shapes
  <2>2. CASE lanes' = NewPair
      BY <2>2 DEF NewPair, Lanes, Lane
  <2> QED
      BY <2>1, <2>2 DEF Refreshed
<1>6. Shapes'
    BY <1>3, <1>4, <1>5 DEF Shapes, Display
<1>7. MessagesTold'
    BY <1>1, <1>5 DEF MessagesTold
<1>8. AnswersTold'
    BY <1>1, AnswersAre DEF Refreshed, PreviewInv, Types
<1>9. UNCHANGED previewVars
    BY DEF Refreshed
<1> QED
    BY <1>3, <1>4, <1>5, <1>6, <1>7, <1>8, <1>9, LessStands

LEMMA AnsweredStands ==
    ASSUME LiveInv, Answered
    PROVE  LiveInv' /\ WholeStep /\ BackStep
<1>1. /\ PreviewInv /\ Shapes /\ MessagesTold /\ AnswersTold
      /\ NothingUnderAllS /\ OneGenerationDrawn
    BY DEF LiveInv, ScreenInv
<1>2. Display(display) /\ Drawn(display, snapshot.setup)
    BY <1>1, DrawnIs DEF Shapes
<1>3. /\ UNCHANGED previewVars /\ UNCHANGED <<lanes, snapshot>>
      /\ fetches' = [fetches EXCEPT !["command"] = Answer]
    BY DEF Answered
<1>4. /\ Display(display') /\ Drawn(display', snapshot.setup)
      /\ Part(display'.complete, display.complete)
      /\ pending.allS # 0 \/ pending'.allS # 0 => display'.complete = <<>>
      /\ pending' = [trace |-> pending'.trace, allS |-> pending'.allS,
                     boundary |-> pending'.boundary]
  <2>0. pending = [trace |-> pending.trace, allS |-> pending.allS,
                   boundary |-> pending.boundary]
      BY <1>1 DEF Shapes
  <2>1. CASE command.type = "reshape"
    <3>1. /\ display' = WithoutTrace(display, command.trace)
          /\ pending' = [pending EXCEPT !.trace = command.trace]
        BY <2>1 DEF Answered
    <3>2. /\ pending' = [trace |-> pending'.trace, allS |-> pending'.allS,
                         boundary |-> pending'.boundary]
          /\ pending'.allS = pending.allS
        BY <2>0, <3>1
    <3>3. /\ Display(display') /\ Drawn(display', snapshot.setup)
          /\ Part(display'.complete, display.complete)
          /\ display.complete = <<>> => display'.complete = <<>>
        BY <1>2, <3>1, WithoutTraceIs
    <3> QED
        BY <1>1, <3>2, <3>3 DEF NothingUnderAllS
  <2>2. CASE command.type = "all s"
    <3>1. /\ display' = Cleared(display)
          /\ pending' = [pending EXCEPT !.allS = command.rev]
        BY <2>2 DEF Answered
    <3>2. pending' = [trace |-> pending'.trace, allS |-> pending'.allS,
                      boundary |-> pending'.boundary]
        BY <2>0, <3>1
    <3>3. /\ Display(display') /\ Drawn(display', snapshot.setup)
          /\ display'.complete = <<>>
        BY <1>2, <3>1, ClearedIs
    <3> QED
        BY <3>2, <3>3, OnlyPart
  <2>3. CASE command.type \notin {"reshape", "all s"}
    <3>1. UNCHANGED <<pending, display>>
        BY <2>3 DEF Answered
    <3> QED
        BY <1>1, <1>2, <2>0, <3>1, OnlyPart DEF NothingUnderAllS
  <2> QED
      BY <2>1, <2>2, <2>3
<1>5. Shapes' /\ MessagesTold'
    BY <1>1, <1>3, <1>4 DEF Shapes, Display, MessagesTold
<1>6. AnswersTold'
    BY <1>1, <1>3, AnswersAre DEF PreviewInv, Types, Callers
<1> QED
    BY <1>3, <1>4, <1>5, <1>6, LessStands

LEMMA InitLive == Init => LiveInv
<1> SUFFICES ASSUME Init
             PROVE  LiveInv
    OBVIOUS
<1>1. PreviewInv /\ SweepsTold
    BY InitStands, InitTold DEF Init
<1>2. Display(display)
    BY DEF Init, EmptyDisplay, Display, NoPartial, D, P
<1>3. /\ lanes = Lanes(lanes.complete.news, lanes.complete.message,
                       lanes.preview.news, lanes.preview.message)
      /\ lanes.complete.message = Nothing /\ lanes.preview.message = Nothing
    BY DEF Init, NoPair, Lanes, Lane
<1>4. Shapes /\ MessagesTold
    BY <1>2, <1>3 DEF Init, Shapes, MessagesTold
<1>5. AnswersTold
    BY DEF Init, AnswersTold, NoFetch
<1>6. DOMAIN display.complete = {} /\ DOMAIN display.partial.traces = {}
    BY DEF Init, EmptyDisplay, NoPartial
<1> QED
    BY <1>1, <1>3, <1>4, <1>5, <1>6
    DEF LiveInv, ScreenInv, Ordered, NothingUnderAllS, OneGenerationDrawn, Init

LEMMA NextLive == LiveInv /\ [Next]_vars => LiveInv' /\ [WholeStep]_vars /\ [BackStep]_vars
<1> SUFFICES ASSUME LiveInv, [Next]_vars
             PROVE  LiveInv' /\ [WholeStep]_vars /\ [BackStep]_vars
    OBVIOUS
<1>1. plan.gen \in Nat /\ AnswersTold
    BY DEF LiveInv, ScreenInv, PreviewInv, Types
<1>2. CASE Worker
  <2>1. \E v, w : lanes' = NewsSet(lanes, v, w)
      BY <1>2 DEF Worker, ServerStep, NewsSet
  <2> QED
      BY <1>2, <2>1, ServerStands DEF Worker, ServerStep, Quiet, PreviewNext
<1>3. CASE OtherClient
  <2>1. \E v, w : lanes' = NewsSet(lanes, v, w)
      BY <1>3 DEF OtherClient, ServerStep, NewsSet
  <2> QED
      BY <1>3, <2>1, ServerStands DEF OtherClient, ServerStep, Quiet, PreviewNext
<1>4. CASE StreamComplete
    BY <1>4, StreamCompleteStands
<1>5. CASE StreamPreview
    BY <1>5, StreamPreviewStands
<1>6. CASE ReceiveSet
    BY <1>6, ReceiveSetStands
<1>7. CASE ReceivePreview
    BY <1>7, ReceivePreviewStands
<1>8. CASE ReceiveLate
    BY <1>8, ReceiveLateStands
<1>9. CASE Connect
  <2>1. AnswersTold'
      BY <1>1, <1>9, AnswersAre DEF Connect, Callers
  <2> QED
      BY <1>9, <2>1, ScreenKept DEF Connect
<1>10. CASE Disconnected
  <2>1. AnswersTold'
      BY <1>1, <1>10 DEF Disconnected, AnswersTold
  <2> QED
      BY <1>10, <2>1, ScreenKept DEF Disconnected
<1>11. ASSUME NEW c \in Callers, Refreshed(c)
       PROVE  LiveInv' /\ WholeStep /\ BackStep
    BY <1>11, RefreshedStands
<1>12. ASSUME NEW c \in Callers, RefreshFails(c)
       PROVE  LiveInv' /\ WholeStep /\ BackStep
  <2>1. AnswersTold'
      BY <1>1, <1>12, AnswersAre DEF RefreshFails
  <2> QED
      BY <1>12, <2>1, ScreenKept DEF RefreshFails
<1>13. ASSUME NEW setup \in Setups, NEW t, Reshape(t, setup)
       PROVE  LiveInv' /\ WholeStep /\ BackStep
  <2>1. \E v, w : lanes' = NewsSet(lanes, v, w)
      BY <1>13 DEF Reshape, ServerStep, NewsSet
  <2> QED
      BY <1>13, <2>1, ServerStands DEF Reshape, ServerStep, PreviewNext
<1>14. ASSUME NEW setup \in Setups, EnsureAllS(setup)
       PROVE  LiveInv' /\ WholeStep /\ BackStep
  <2>1. \E v, w : lanes' = NewsSet(lanes, v, w)
      BY <1>14 DEF EnsureAllS, ServerStep, NewsSet
  <2> QED
      BY <1>14, <2>1, ServerStands DEF EnsureAllS, ServerStep, PreviewNext
<1>15. CASE RestartSweep
  <2>1. \E v, w : lanes' = NewsSet(lanes, v, w)
      BY <1>15 DEF RestartSweep, ServerStep, NewsSet
  <2> QED
      BY <1>15, <2>1, ServerStands DEF RestartSweep, ServerStep, PreviewNext
<1>16. CASE Answered
    BY <1>16, AnsweredStands
<1>17. CASE UNCHANGED vars
  <2>1. UNCHANGED previewVars /\ UNCHANGED browserVars
      BY <1>17 DEF vars
  <2>2. AnswersTold'
      BY <1>1, <2>1 DEF browserVars, AnswersTold
  <2> QED
      BY <2>1, <2>2, ScreenKept DEF browserVars
<1> QED
    BY <1>2, <1>3, <1>4, <1>5, <1>6, <1>7, <1>8, <1>9, <1>10, <1>11, <1>12, <1>13,
       <1>14, <1>15, <1>16, <1>17
    DEF Next, Browser

\* On the screen is one generation, of traces the snapshot has, and the partial
\* curves are of one sweep, whatever order answers and messages arrive in and
\* whatever connections are lost (the reducers of displayFrameSetState.ts).
THEOREM OneGeneration == Spec => []OneGenerationDrawn
<1>1. LiveInv => OneGenerationDrawn
    BY DEF LiveInv, ScreenInv
<1> QED
    BY <1>1, InitLive, NextLive, PTL DEF Spec

\* After All S nothing is drawn until a frame set has every trace
\* (replaceCompleteDisplayFramesForSnapshot).
THEOREM AllSAtOnce == Spec => AllSWhole
<1>1. LiveInv /\ [Next]_vars => LiveInv' /\ [WholeStep]_vars
    BY NextLive
<1> QED
    BY <1>1, InitLive, PTL DEF Spec, AllSWhole, WholeStep

\* A complete curve gives way to the same or a later sweep only.
THEOREM NeverBack == Spec => ScreenNeverGoesBack
<1>1. LiveInv /\ [Next]_vars => LiveInv' /\ [BackStep]_vars
    BY NextLive
<1> QED
    BY <1>1, InitLive, PTL DEF Spec, ScreenNeverGoesBack, BackStep
===============================================================================
