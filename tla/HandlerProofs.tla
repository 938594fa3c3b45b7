----------------------------- MODULE HandlerProofs -----------------------------
(***************************************************************************)
(* The handlers of plugins: the chains of HookChain, for any number of     *)
(* chains, of handlers, of jobs of the worker and of registrations and     *)
(* removals while chains run; the calls of WorkerBridge into a worker, and *)
(* the configuration it is handed; and the messages of a group that the    *)
(* translation extension handles.                                          *)
(***************************************************************************)
EXTENDS HookChain, WorkerBridge, Translation, SequenceTheorems, FiniteSetTheorems, TLAPS

ChainAt == {"idle", "next", "local", "waiting", "done"}

ChainType == [at : ChainAt, list : 1..MaxLists, pos : Nat \ {0},
              on : SUBSET HookJob, cause : SUBSET HookJob,
              owed : SUBSET Handler, asked : SUBSET Handler, stopped : BOOLEAN]

JobType == [at : JobAt, go : BOOLEAN]

-----------------------------------------------------------------------------
(* The arrays of registrations.                                             *)

\* register() moves no handler of the array forward: each is where it was or one
\* further on, and the new one is among them.
LEMMA InsertedFacts ==
  ASSUME NEW list \in Seq(Handler), NEW h \in Handler
  PROVE  /\ Inserted(list, h) \in Seq(Handler)
         /\ Len(Inserted(list, h)) = Len(list) + 1
         /\ \A i \in 1..Len(list) : \/ Inserted(list, h)[i] = list[i]
                                    \/ Inserted(list, h)[i + 1] = list[i]
<1> DEFINE B == {i \in DOMAIN list : Priority[list[i]] <= Priority[h]}
           b == Cardinality(B)
           front == SubSeq(list, 1, b)
           back == SubSeq(list, b + 1, Len(list))
           new == front \o <<h>> \o back
<1>1. b \in 0..Len(list)
  <2>1. DOMAIN list = 1..Len(list) /\ Len(list) \in Nat
    OBVIOUS
  <2>2. IsFiniteSet(1..Len(list)) /\ Cardinality(1..Len(list)) = Len(list)
    BY <2>1, FS_Interval
  <2>3. IsFiniteSet(B) /\ Cardinality(B) <= Cardinality(1..Len(list))
    BY <2>1, <2>2, FS_Subset
  <2>4. b \in Nat
    BY <2>3, FS_CardinalityType
  <2> QED BY <2>1, <2>2, <2>3, <2>4
<1>2. Inserted(list, h) = new
  BY DEF Inserted
<1> HIDE DEF b, B
<1>3. /\ front \in Seq(Handler) /\ Len(front) = b
      /\ \A i \in 1..b : front[i] = list[i]
  BY <1>1
<1>4. /\ back \in Seq(Handler) /\ Len(back) = Len(list) - b
      /\ \A i \in 1..(Len(list) - b) : back[i] = list[b + i]
  BY <1>1
<1>5. <<h>> \in Seq(Handler) /\ Len(<<h>>) = 1
  OBVIOUS
<1> HIDE DEF front, back
<1>6. /\ new \in Seq(Handler) /\ Len(new) = Len(list) + 1
  BY <1>1, <1>3, <1>4, <1>5
<1>7. \A i \in 1..b : new[i] = list[i]
  BY <1>1, <1>3, <1>4, <1>5
<1>8. ASSUME NEW i \in 1..Len(list), i > b PROVE new[i + 1] = list[i]
  <2>1. new[i + 1] = back[i - b]
    <3> DEFINE most == front \o <<h>>
    <3>1. most \in Seq(Handler) /\ Len(most) = b + 1 /\ new = most \o back
      BY <1>1, <1>3, <1>5
    <3> HIDE DEF most, new
    <3>2. i + 1 \in (b + 2)..(Len(list) + 1) /\ i + 1 - Len(most) = i - b
      BY <1>1, <1>8, <3>1
    <3>3. (most \o back)[i + 1] = back[i + 1 - Len(most)]
      BY <1>1, <1>4, <3>1, <3>2
    <3> QED BY <3>1, <3>2, <3>3
  <2>2. i - b \in 1..(Len(list) - b) /\ b + (i - b) = i
    BY <1>1, <1>8
  <2> QED BY <2>1, <2>2, <1>4
<1> HIDE DEF new
<1> QED BY <1>1, <1>2, <1>6, <1>7, <1>8

\* unregisterPlugin() makes an array of what is left.
LEMMA WithoutFacts ==
  ASSUME NEW list \in Seq(Handler), NEW h \in Registered(list)
  PROVE  Without(list, h) \in Seq(Handler)
<1> DEFINE at == CHOOSE i \in DOMAIN list : list[i] = h
<1>1. at \in 1..Len(list)
  BY DEF Registered
<1> HIDE DEF at
<1>2. SubSeq(list, 1, at - 1) \in Seq(Handler) /\ SubSeq(list, at + 1, Len(list)) \in Seq(Handler)
  BY <1>1
<1>3. SubSeq(list, 1, at - 1) \o SubSeq(list, at + 1, Len(list)) \in Seq(Handler)
  BY <1>2
<1> QED BY <1>3 DEF Without, at

-----------------------------------------------------------------------------
(* The invariant.  What a chain has yet to call is still in front of it in   *)
(* the array that it walks over, and a job is awaited by one chain.          *)

\* What is in front of a chain: while a handler is being awaited, the loop
\* variable still points at it or, if the array has shifted, before it.
Before(arrays, ch) ==
  {arrays[ch.list][i] : i \in {k \in DOMAIN arrays[ch.list] :
                                 \/ ch.at = "next" /\ k >= ch.pos
                                 \/ ch.at \in {"local", "waiting"} /\ k > ch.pos}}

Ahead(ch) == Before(lists, ch)

Owes(ch) ==
  /\ ch.stopped => ch.at = "done"
  /\ ~ch.stopped => ch.owed \subseteq ch.asked \cup Ahead(ch)

Awaits ==
  /\ \A j \in hookPending : hookJob[j].at # "none"
  /\ \A c \in Chain : chain[c].on # {} <=> chain[c].at = "waiting"
  /\ \A c \in Chain : chain[c].on # {} => \E j \in hookPending : chain[c].on = {j}
  /\ \A c, d \in Chain : c # d /\ chain[c].on # {} => chain[d].on # chain[c].on

HookInv ==
  /\ HookTypeOK
  /\ \A c \in Chain : chain[c].list <= Len(lists) /\ Owes(chain[c])
  /\ Awaits

LEMMA HookTypes ==
  ASSUME HookInv
  PROVE  /\ lists \in Seq(Seq(Handler)) /\ Len(lists) \in 1..MaxLists
         /\ \A k \in 1..Len(lists) : lists[k] \in Seq(Handler)
         /\ Current = lists[Len(lists)] /\ Current \in Seq(Handler)
         /\ chain \in [Chain -> ChainType]
         /\ \A c \in Chain : /\ chain[c] \in ChainType /\ Owes(chain[c])
                             /\ chain[c].list \in 1..Len(lists)
         /\ hookJob \in [HookJob -> JobType]
         /\ hookPending \subseteq HookJob
         /\ worker \in {"up", "dead", "off"}
<1>1. /\ lists \in Seq(Seq(Handler)) /\ Len(lists) \in 1..MaxLists
      /\ chain \in [Chain -> ChainType] /\ hookJob \in [HookJob -> JobType]
      /\ hookPending \subseteq HookJob /\ worker \in {"up", "dead", "off"}
  BY DEF HookInv, HookTypeOK, ChainType, ChainAt, JobType
<1>2. \A k \in 1..Len(lists) : lists[k] \in Seq(Handler)
  BY <1>1
<1>3. \A c \in Chain : chain[c] \in ChainType /\ chain[c].list \in 1..Len(lists)
  <2> SUFFICES ASSUME NEW c \in Chain
               PROVE  chain[c] \in ChainType /\ chain[c].list \in 1..Len(lists)
    OBVIOUS
  <2>1. chain[c] \in ChainType
    BY <1>1
  <2>2. chain[c].list \in 1..MaxLists /\ chain[c].list <= Len(lists)
    BY <2>1 DEF ChainType, HookInv
  <2> QED BY <1>1, <2>1, <2>2, HookAssumption
<1>4. \A c \in Chain : Owes(chain[c])
  BY DEF HookInv
<1>5. Len(lists) \in 1..Len(lists)
  BY <1>1, HookAssumption
<1> QED BY <1>1, <1>2, <1>3, <1>4, <1>5 DEF Current

\* A chain that begins owes what is registered, and all of it is in front.
LEMMA BegunFacts ==
  ASSUME HookInv, NEW cause \in SUBSET HookJob
  PROVE  /\ Begun(cause) \in ChainType
         /\ Begun(cause).list = Len(lists) /\ Begun(cause).on = {}
         /\ Begun(cause).at \in {"next", "done"}
         /\ Owes(Begun(cause))
<1> DEFINE ch == Begun(cause)
<1>1. /\ ch.at = (IF Current = <<>> THEN "done" ELSE "next") /\ ch.list = Len(lists)
      /\ ch.pos = 1 /\ ch.on = {} /\ ch.cause = cause /\ ch.owed = Registered(Current)
      /\ ch.asked = {} /\ ch.stopped = FALSE
  BY DEF Begun, NoChain, InFlight
<1>2. Registered(Current) \subseteq Handler
  BY HookTypes DEF Registered
<1>3. ch \in ChainType
  <2>1. Len(lists) \in 1..MaxLists /\ 1 \in 1..MaxLists /\ 1 \in Nat \ {0}
    BY HookTypes, HookAssumption
  <2>2. NoChain \in ChainType
    BY <2>1 DEF NoChain, ChainType, ChainAt
  <2>3. ch = [NoChain EXCEPT !.at = ch.at, !.list = Len(lists), !.cause = cause,
                             !.owed = Registered(Current)]
    BY DEF Begun, InFlight, NoChain
  <2>4. ch.at \in ChainAt
    BY <1>1 DEF ChainAt
  <2> HIDE DEF ch
  <2> QED BY <2>1, <2>2, <2>3, <2>4, <1>2 DEF ChainType
<1> HIDE DEF ch
<1>4. Owes(ch)
  <2>1. CASE Current = <<>>
    BY <2>1, <1>1 DEF Owes, Registered
  <2>2. CASE Current # <<>>
    <3>1. ASSUME NEW h \in Registered(Current) PROVE h \in Ahead(ch)
      <4>1. PICK i \in DOMAIN Current : Current[i] = h
        BY DEF Registered
      <4>2. i >= 1
        BY <4>1, HookTypes
      <4> QED BY <4>1, <4>2, <1>1, <2>2, HookTypes DEF Ahead, Before
    <3> QED BY <3>1, <1>1 DEF Owes
  <2> QED BY <2>1, <2>2
<1> QED BY <1>1, <1>3, <1>4 DEF ch

\* A handler whose turn it was is called; the others are still in front.
LEMMA AskedFacts ==
  ASSUME HookInv, NEW c \in Chain, NEW h, Turn(c, h),
         NEW at \in {"local", "waiting"}, NEW on \in SUBSET HookJob
  PROVE  /\ Asked(chain[c], h, at, on) \in ChainType
         /\ Asked(chain[c], h, at, on).list = chain[c].list
         /\ Asked(chain[c], h, at, on).on = on
         /\ Asked(chain[c], h, at, on).at = at
         /\ Owes(Asked(chain[c], h, at, on))
<1> DEFINE ch == chain[c]
           n == Asked(ch, h, at, on)
<1>t. ch \in ChainType /\ ch.list \in 1..Len(lists) /\ Owes(ch)
  BY HookTypes
<1>h. ch.at = "next" /\ ch.pos <= Len(lists[ch.list]) /\ h = lists[ch.list][ch.pos]
  BY DEF Turn
<1> HIDE DEF ch
<1>1. /\ n.at = at /\ n.on = on /\ n.list = ch.list /\ n.pos = ch.pos
      /\ n.owed = ch.owed /\ n.asked = ch.asked \cup {h} /\ n.stopped = ch.stopped
  BY <1>t DEF Asked, ChainType
<1>2. lists[ch.list] \in Seq(Handler) /\ ch.pos \in Nat \ {0}
  BY <1>t, HookTypes DEF ChainType
<1>3. h \in Handler
  BY <1>2, <1>h
<1>4. n \in ChainType
  BY <1>3, <1>t DEF Asked, ChainType, ChainAt
<1> HIDE DEF n
<1>5. ASSUME NEW g \in Ahead(ch), g # h PROVE g \in Ahead(n)
  <2>1. PICK i \in DOMAIN lists[ch.list] : i >= ch.pos /\ lists[ch.list][i] = g
    BY <1>h DEF Ahead, Before
  <2>2. i > ch.pos
    BY <2>1, <1>2, <1>5, <1>h
  <2> QED BY <2>1, <2>2, <1>1 DEF Ahead, Before
<1>6. Owes(n)
  BY <1>1, <1>5, <1>h, <1>t DEF Owes
<1> QED BY <1>1, <1>4, <1>6 DEF n, ch

\* Its result moves the loop variable past it, or stops the chain.
LEMMA ResumedFacts ==
  ASSUME HookInv, NEW ch \in ChainType, ch.list \in 1..Len(lists), Owes(ch),
         ch.at \in {"local", "waiting"}, NEW go \in BOOLEAN
  PROVE  /\ Resumed(ch, go) \in ChainType
         /\ Resumed(ch, go).list = ch.list /\ Resumed(ch, go).on = {}
         /\ Resumed(ch, go).at \in {"next", "done"}
         /\ Owes(Resumed(ch, go))
<1> DEFINE n == Resumed(ch, go)
<1>1. /\ n.at = (IF go THEN "next" ELSE "done") /\ n.on = {} /\ n.list = ch.list
      /\ n.pos = ch.pos + 1 /\ n.owed = ch.owed /\ n.asked = ch.asked
      /\ n.stopped = ~go
  BY DEF Resumed, ChainType
<1>2. lists[ch.list] \in Seq(Handler) /\ ch.pos \in Nat \ {0}
  BY HookTypes DEF ChainType
<1>3. ch.pos + 1 \in Nat \ {0} /\ n.at \in ChainAt /\ {} \in SUBSET HookJob
      /\ (~go) \in BOOLEAN
  BY <1>1, <1>2 DEF ChainAt
<1>4. n \in ChainType
  <2>1. n = [ch EXCEPT !.at = n.at, !.on = {}, !.pos = ch.pos + 1, !.stopped = ~go]
    BY <1>1 DEF Resumed, ChainType
  <2> HIDE DEF n
  <2> QED BY <2>1, <1>3 DEF ChainType
<1> HIDE DEF n
<1>5. ASSUME go PROVE Owes(n)
  <2>1. ~ch.stopped /\ ch.owed \subseteq ch.asked \cup Ahead(ch)
    BY DEF Owes
  <2>2. ASSUME NEW g \in Ahead(ch) PROVE g \in Ahead(n)
    <3>1. PICK i \in DOMAIN lists[ch.list] : i > ch.pos /\ lists[ch.list][i] = g
      BY DEF Ahead, Before
    <3>2. i \in DOMAIN lists[n.list] /\ i >= n.pos /\ n.at = "next" /\ lists[n.list][i] = g
      BY <3>1, <1>1, <1>2, <1>5
    <3> QED BY <3>2 DEF Ahead, Before
  <2> QED BY <1>1, <1>5, <2>1, <2>2 DEF Owes
<1>6. Owes(n)
  BY <1>1, <1>5 DEF Owes
<1> QED BY <1>1, <1>4, <1>6 DEF n

-----------------------------------------------------------------------------
(* The steps.                                                               *)

LEMMA HookInitially == HookInit => HookInv
<1> SUFFICES ASSUME HookInit PROVE HookInv
  OBVIOUS
<1>1. 1 \in 1..MaxLists /\ 1 \in Nat \ {0}
  BY HookAssumption
<1>2. NoChain \in ChainType
  BY <1>1 DEF NoChain, ChainType, ChainAt
<1>3. chain \in [Chain -> ChainType] /\ hookJob \in [HookJob -> JobType]
  BY <1>2 DEF HookInit, JobType, JobAt
<1>4. lists \in Seq(Seq(Handler)) /\ Len(lists) = 1
  BY DEF HookInit
<1>5. HookTypeOK
  BY <1>1, <1>3, <1>4 DEF HookInit, HookTypeOK, ChainType, ChainAt, JobType
<1>6. \A c \in Chain : chain[c].list <= Len(lists) /\ Owes(chain[c])
  BY <1>4 DEF HookInit, NoChain, Owes
<1>7. Awaits
  BY DEF HookInit, NoChain, Awaits
<1> QED BY <1>5, <1>6, <1>7 DEF HookInv

\* While the arrays stay the invariant is about each chain by itself.
LEMMA ChainsMove ==
  ASSUME HookInv, UNCHANGED lists,
         chain' \in [Chain -> ChainType], hookJob' \in [HookJob -> JobType],
         hookPending' \subseteq HookJob, worker' \in {"up", "dead", "off"},
         \A c \in Chain : chain'[c].list \in 1..Len(lists) /\ Owes(chain'[c]),
         Awaits'
  PROVE  HookInv'
<1>1. HookTypeOK'
  BY DEF HookInv, HookTypeOK, ChainType, ChainAt, JobType
<1>2. \A c \in Chain : (chain[c].list <= Len(lists) /\ Owes(chain[c]))'
  BY DEF Owes, Ahead
<1> QED BY <1>1, <1>2 DEF HookInv

\* One chain goes on without a job.
LEMMA OneMoves ==
  ASSUME HookInv, NEW c \in Chain, NEW ch \in ChainType,
         chain' = [chain EXCEPT ![c] = ch], UNCHANGED <<lists, hookPending, worker>>,
         hookJob' \in [HookJob -> JobType],
         \A j \in HookJob : hookJob[j].at # "none" => hookJob'[j].at # "none",
         chain[c].at # "waiting",
         ch.list \in 1..Len(lists), Owes(ch), ch.on = {}, ch.at # "waiting"
  PROVE  HookInv'
<1>1. chain' \in [Chain -> ChainType]
  BY HookTypes
<1>2. \A d \in Chain : chain'[d].list \in 1..Len(lists) /\ Owes(chain'[d])
  BY HookTypes
<1>3. Awaits'
  BY HookTypes DEF HookInv, Awaits
<1> QED BY <1>1, <1>2, <1>3, HookTypes, ChainsMove

\* The worker's side goes on.
LEMMA JobsMove ==
  ASSUME HookInv, UNCHANGED <<lists, chain, hookPending>>,
         hookJob' \in [HookJob -> JobType], worker' \in {"up", "dead", "off"},
         \A j \in HookJob : hookJob[j].at # "none" => hookJob'[j].at # "none"
  PROVE  HookInv'
<1>1. Awaits'
  BY HookTypes DEF HookInv, Awaits
<1> QED BY <1>1, HookTypes, ChainsMove

LEMMA JobsEndedFacts ==
  ASSUME HookInv
  PROVE  /\ JobsEnded \in [HookJob -> JobType]
         /\ \A j \in HookJob : hookJob[j].at # "none" => JobsEnded[j].at # "none"
BY HookTypes DEF JobsEnded, JobType, JobAt

LEMMA RegisterStep == ASSUME HookInv, NEW h \in Handler, Register(h) PROVE HookInv'
<1> DEFINE n == Len(lists)
           new == Inserted(lists[n], h)
<1>1. /\ n \in 1..Len(lists) /\ n \in Nat /\ lists[n] \in Seq(Handler)
      /\ lists' = [lists EXCEPT ![n] = new]
      /\ UNCHANGED <<chain, hookJob, hookPending, worker>>
  BY HookTypes DEF Register
<1>2. /\ new \in Seq(Handler) /\ Len(new) = Len(lists[n]) + 1
      /\ \A i \in 1..Len(lists[n]) : new[i] = lists[n][i] \/ new[i + 1] = lists[n][i]
  BY <1>1, InsertedFacts
<1> HIDE DEF new
<1>3. /\ lists' \in Seq(Seq(Handler)) /\ Len(lists') = n
      /\ lists'[n] = new /\ \A k \in 1..n : k # n => lists'[k] = lists[k]
  BY <1>1, <1>2, HookTypes
<1>4. ASSUME NEW ch \in ChainType, ch.list \in 1..n, NEW g \in Before(lists, ch)
      PROVE  g \in Before(lists', ch)
  <2>1. CASE ch.list # n
    BY <2>1, <1>3, <1>4 DEF Before
  <2>2. CASE ch.list = n
    <3>1. PICK i \in DOMAIN lists[n] :
              /\ lists[n][i] = g
              /\ \/ ch.at = "next" /\ i >= ch.pos
                 \/ ch.at \in {"local", "waiting"} /\ i > ch.pos
      BY <2>2 DEF Before
    <3>2. i \in 1..Len(lists[n]) /\ i \in Nat /\ DOMAIN new = 1..(Len(lists[n]) + 1)
          /\ Len(lists[n]) \in Nat /\ ch.pos \in Nat
      BY <1>1, <1>2, <3>1 DEF ChainType
    <3>3. PICK k \in {i, i + 1} : new[k] = g
      BY <1>2, <3>1, <3>2
    <3>4. k \in DOMAIN new /\ k >= i
      BY <3>2, <3>3
    <3>5. \/ ch.at = "next" /\ k >= ch.pos
          \/ ch.at \in {"local", "waiting"} /\ k > ch.pos
      BY <3>1, <3>2, <3>3, <3>4
    <3> QED BY <2>2, <1>3, <3>3, <3>4, <3>5 DEF Before
  <2> QED BY <2>1, <2>2
<1>5. ASSUME NEW c \in Chain PROVE (chain[c].list <= Len(lists) /\ Owes(chain[c]))'
  <2>1. chain[c] \in ChainType /\ chain[c].list \in 1..n /\ Owes(chain[c])
    BY HookTypes
  <2>2. Before(lists, chain[c]) \subseteq Before(lists', chain[c])
    BY <2>1, <1>4
  <2>3. Ahead(chain[c]) \subseteq Ahead(chain[c])'
    BY <2>2, <1>1 DEF Ahead
  <2>4. chain'[c].list <= Len(lists')
    <3>1. chain[c].list <= n
      BY <2>1, <1>1
    <3>2. Len(lists') = n
      BY <1>3
    <3>3. chain' = chain
      BY <1>1
    <3> HIDE DEF n
    <3> QED BY <3>1, <3>2, <3>3
  <2>5. Owes(chain[c])'
    BY <2>1, <2>3, <1>1 DEF Owes
  <2> QED BY <2>4, <2>5
<1>6. HookTypeOK'
  BY <1>1, <1>3 DEF HookInv, HookTypeOK
<1>7. Awaits'
  BY <1>1 DEF HookInv, Awaits
<1> QED BY <1>5, <1>6, <1>7 DEF HookInv

LEMMA UnregisterStep == ASSUME HookInv, NEW h \in Handler, Unregister(h) PROVE HookInv'
<1> DEFINE n == Len(lists)
           new == Without(Current, h)
<1>1. /\ n < MaxLists /\ n \in Nat /\ h \in Registered(Current)
      /\ lists' = Append(lists, new) /\ worker' \in {"up", "dead", "off"}
      /\ hookJob' \in {hookJob, JobsEnded} /\ UNCHANGED <<chain, hookPending>>
  BY HookTypes DEF Unregister, Unregistered
<1>2. new \in Seq(Handler)
  BY <1>1, HookTypes, WithoutFacts
<1> HIDE DEF new
<1>3. /\ lists' \in Seq(Seq(Handler)) /\ Len(lists') = n + 1
      /\ \A k \in 1..n : lists'[k] = lists[k]
  BY <1>1, <1>2, HookTypes
<1>4. hookJob' \in [HookJob -> JobType]
      /\ \A j \in HookJob : hookJob[j].at # "none" => hookJob'[j].at # "none"
  BY <1>1, HookTypes, JobsEndedFacts
<1>5. ASSUME NEW c \in Chain PROVE (chain[c].list <= Len(lists) /\ Owes(chain[c]))'
  <2>1. chain[c] \in ChainType /\ chain[c].list \in 1..n /\ Owes(chain[c])
    BY HookTypes
  <2>2. chain'[c].list <= Len(lists')
    BY <2>1, <1>1, <1>3
  <2>3. Ahead(chain[c]) = Ahead(chain[c])'
    BY <2>1, <1>1, <1>3 DEF Ahead, Before
  <2> QED BY <2>1, <2>2, <2>3, <1>1 DEF Owes
<1>6. HookTypeOK'
  <2>1. Len(lists') \in 1..MaxLists
    BY <1>1, <1>3, HookAssumption
  <2> QED BY <2>1, <1>1, <1>3, <1>4 DEF HookInv, HookTypeOK, JobType
<1>7. Awaits'
  BY <1>1, <1>4, HookTypes DEF HookInv, Awaits
<1> QED BY <1>5, <1>6, <1>7 DEF HookInv

\* The steps of a chain, and those of a job.
LEMMA ChainStep ==
  ASSUME HookInv, NEW c \in Chain,
         Execute(c) \/ Finish(c) \/ AskLocal(c) \/ LocalAnswers(c) \/ ShimPasses(c)
  PROVE  HookInv'
<1>t. /\ chain \in [Chain -> ChainType] /\ chain[c] \in ChainType
      /\ chain[c].list \in 1..Len(lists) /\ Owes(chain[c])
      /\ hookJob \in [HookJob -> JobType]
      /\ Len(lists) \in 1..Len(lists)
  BY HookTypes, HookAssumption
<1>e. {} \in SUBSET HookJob /\ "local" \in {"local", "waiting"}
  OBVIOUS
<1>w. UNCHANGED <<lists, hookJob, hookPending, worker>>
  BY DEF Execute, Finish, AskLocal, LocalAnswers, ShimPasses
<1>1. CASE Execute(c)
  <2>1. Begun({}) \in ChainType /\ Begun({}).list = Len(lists) /\ Begun({}).on = {}
        /\ Begun({}).at \in {"next", "done"} /\ Owes(Begun({}))
    BY BegunFacts
  <2>2. chain' = [chain EXCEPT ![c] = Begun({})] /\ chain[c].at = "idle"
    BY <1>1 DEF Execute
  <2> QED BY <2>1, <2>2, <1>t, <1>w, OneMoves
<1>2. CASE Finish(c)
  <2> DEFINE ch == [chain[c] EXCEPT !.at = "done"]
  <2>1. /\ chain' = [chain EXCEPT ![c] = ch] /\ chain[c].at = "next"
        /\ chain[c].pos > Len(lists[chain[c].list])
    BY <1>2, <1>t DEF Finish
  <2>2. /\ ch \in ChainType /\ ch.at = "done" /\ ch.list = chain[c].list
        /\ ch.on = chain[c].on /\ ch.owed = chain[c].owed /\ ch.asked = chain[c].asked
        /\ ch.stopped = chain[c].stopped
    BY <1>t DEF ChainType, ChainAt
  <2>3. chain[c].on = {}
    BY <2>1 DEF HookInv, Awaits
  <2>4. Ahead(chain[c]) = {}
    <3>1. lists[chain[c].list] \in Seq(Handler) /\ chain[c].pos \in Nat
      BY <1>t, HookTypes DEF ChainType
    <3> QED BY <2>1, <3>1 DEF Ahead, Before
  <2>5. Owes(ch)
    BY <2>1, <2>2, <2>4, <1>t DEF Owes
  <2> HIDE DEF ch
  <2> QED BY <2>1, <2>2, <2>3, <2>5, <1>t, <1>w, OneMoves
<1>3. CASE AskLocal(c)
  <2>1. PICK h \in Local : Turn(c, h) /\ chain' = [chain EXCEPT ![c] = Asked(@, h, "local", {})]
    BY <1>3 DEF AskLocal
  <2> DEFINE ch == Asked(chain[c], h, "local", {})
  <2>2. /\ chain[c].at = "next" /\ chain[c].pos <= Len(lists[chain[c].list])
        /\ h = lists[chain[c].list][chain[c].pos]
    BY <2>1 DEF Turn
  <2>3. /\ ch \in ChainType /\ ch.list = chain[c].list /\ ch.on = {} /\ ch.at = "local"
        /\ Owes(ch)
    BY <2>1, <1>e, AskedFacts
  <2>4. chain' = [chain EXCEPT ![c] = ch]
    BY <2>1, <1>t
  <2> HIDE DEF ch
  <2> QED BY <2>2, <2>3, <2>4, <1>t, <1>w, OneMoves
<1>4. CASE LocalAnswers(c)
  <2>1. PICK go \in BOOLEAN : chain' = [chain EXCEPT ![c] = Resumed(@, go)]
    BY <1>4 DEF LocalAnswers
  <2>2. chain[c].at = "local"
    BY <1>4 DEF LocalAnswers
  <2> DEFINE ch == Resumed(chain[c], go)
  <2>3. /\ ch \in ChainType /\ ch.list = chain[c].list /\ ch.on = {}
        /\ ch.at \in {"next", "done"} /\ Owes(ch)
    BY <2>2, <1>t, ResumedFacts
  <2>4. chain' = [chain EXCEPT ![c] = ch]
    BY <2>1, <1>t
  <2> HIDE DEF ch
  <2> QED BY <2>2, <2>3, <2>4, <1>t, <1>w, OneMoves
<1>5. CASE ShimPasses(c)
  <2> DEFINE mid == Asked(chain[c], Shim, "local", {})
             ch == Resumed(mid, TRUE)
  <2>1. /\ chain[c].at = "next" /\ chain[c].pos <= Len(lists[chain[c].list])
        /\ Shim = lists[chain[c].list][chain[c].pos]
    BY <1>5 DEF ShimPasses, Turn
  <2>2. /\ mid \in ChainType /\ mid.list = chain[c].list /\ mid.at = "local" /\ Owes(mid)
    <3>1. Turn(c, Shim)
      BY <1>5 DEF ShimPasses
    <3> QED BY <3>1, <1>e, AskedFacts
  <2>3. Resumed(Asked(chain[c], Shim, "next", {}), TRUE) = ch
    BY <1>t DEF Resumed, Asked, ChainType
  <2>4. chain' = [chain EXCEPT ![c] = ch]
    BY <1>5, <1>t, <2>3 DEF ShimPasses
  <2> HIDE DEF mid
  <2>5. /\ ch \in ChainType /\ ch.list = mid.list /\ ch.on = {}
        /\ ch.at \in {"next", "done"} /\ Owes(ch)
    BY <2>2, <1>t, ResumedFacts
  <2> HIDE DEF ch
  <2> QED BY <2>1, <2>2, <2>4, <2>5, <1>t, <1>w, OneMoves
<1> QED BY <1>1, <1>2, <1>3, <1>4, <1>5

LEMMA DispatchStep ==
  ASSUME HookInv, NEW c \in Chain, NEW j \in HookJob, Dispatch(c, j) PROVE HookInv'
<1>t. /\ chain \in [Chain -> ChainType] /\ chain[c] \in ChainType
      /\ chain[c].list \in 1..Len(lists) /\ Owes(chain[c])
      /\ hookJob \in [HookJob -> JobType]
  BY HookTypes
<1>e. {j} \in SUBSET HookJob /\ "waiting" \in {"local", "waiting"}
  OBVIOUS
<1> DEFINE ch == Asked(chain[c], Shim, "waiting", {j})
<1>1. /\ chain[c].at = "next" /\ chain[c].pos <= Len(lists[chain[c].list])
      /\ Shim = lists[chain[c].list][chain[c].pos] /\ hookJob[j].at = "none"
      /\ hookPending' = hookPending \cup {j} /\ UNCHANGED <<lists, worker>>
  BY DEF Dispatch, Turn, Unused
<1>2. /\ ch \in ChainType /\ ch.list = chain[c].list /\ ch.on = {j} /\ ch.at = "waiting"
      /\ Owes(ch)
  <2>1. Turn(c, Shim)
    BY DEF Dispatch
  <2> QED BY <2>1, <1>e, AskedFacts
<1>3. chain' = [chain EXCEPT ![c] = ch]
  BY <1>t DEF Dispatch
<1>4. /\ hookJob' \in [HookJob -> JobType] /\ hookJob'[j].at # "none"
      /\ \A k \in HookJob : hookJob[k].at # "none" => hookJob'[k].at # "none"
  BY <1>t DEF Dispatch, JobType, JobAt
<1> HIDE DEF ch
<1>5. chain' \in [Chain -> ChainType]
      /\ \A d \in Chain : chain'[d].list \in 1..Len(lists) /\ Owes(chain'[d])
  BY <1>2, <1>3, <1>t, HookTypes
<1>6. \A d \in Chain : chain[d].on # {j}
  BY <1>1 DEF HookInv, Awaits
<1>7. Awaits'
  <2>1. chain'[c].on = {j} /\ chain'[c].at = "waiting"
        /\ \A d \in Chain : d # c => chain'[d] = chain[d]
    BY <1>2, <1>3, <1>t
  <2>2. \A k \in hookPending' : hookJob'[k].at # "none"
    BY <1>1, <1>4, HookTypes DEF HookInv, Awaits
  <2>3. \A d \in Chain : chain'[d].on # {} <=> chain'[d].at = "waiting"
    BY <2>1 DEF HookInv, Awaits
  <2>4. \A d \in Chain : chain'[d].on # {} => \E k \in hookPending' : chain'[d].on = {k}
    BY <2>1, <1>1 DEF HookInv, Awaits
  <2>5. ASSUME NEW d \in Chain, NEW e \in Chain, d # e, chain'[d].on # {}
        PROVE  chain'[e].on # chain'[d].on
    BY <2>1, <2>5, <1>6 DEF HookInv, Awaits
  <2> QED BY <2>2, <2>3, <2>4, <2>5 DEF Awaits
<1> QED BY <1>1, <1>4, <1>5, <1>7, HookTypes, ChainsMove

\* The promise of a job resolves for the one chain that awaits it.
LEMMA SettleStep ==
  ASSUME HookInv, NEW j \in HookJob, NEW go \in BOOLEAN, Settle(j, go),
         UNCHANGED <<lists, worker>>, hookJob' \in [HookJob -> JobType],
         \A k \in HookJob : hookJob[k].at # "none" => hookJob'[k].at # "none"
  PROVE  HookInv'
<1>1. \A c \in Chain : chain[c].on = {j} => chain[c].at = "waiting"
  BY DEF HookInv, Awaits
<1>2. /\ hookPending' = hookPending \ {j}
      /\ chain' = [c \in Chain |-> IF chain[c].on = {j} THEN Resumed(chain[c], go) ELSE chain[c]]
  BY DEF Settle
<1>3. ASSUME NEW c \in Chain
      PROVE  /\ chain'[c] \in ChainType /\ chain'[c].list \in 1..Len(lists) /\ Owes(chain'[c])
             /\ chain[c].on = {j} => chain'[c].on = {} /\ chain'[c].at \in {"next", "done"}
             /\ chain[c].on # {j} => chain'[c] = chain[c]
  <2>1. chain[c] \in ChainType /\ chain[c].list \in 1..Len(lists) /\ Owes(chain[c])
    BY HookTypes
  <2>2. CASE chain[c].on = {j}
    BY <2>1, <2>2, <1>1, <1>2, ResumedFacts
  <2>3. CASE chain[c].on # {j}
    BY <2>1, <2>3, <1>2
  <2> QED BY <2>2, <2>3
<1>4. chain' \in [Chain -> ChainType]
  BY <1>2, <1>3
<1>5. Awaits'
  BY <1>2, <1>3, HookTypes DEF HookInv, Awaits
<1> QED BY <1>2, <1>3, <1>4, <1>5, HookTypes, ChainsMove

LEMMA JobStep ==
  ASSUME HookInv, NEW j \in HookJob,
         \/ HostReceives(j) \/ TimesOut(j) \/ WorkerRuns(j) \/ WorkerAnswers(j)
         \/ CapResult(j) \/ \E c \in Chain : WorkerSends(j, c)
  PROVE  HookInv'
<1>t. hookJob \in [HookJob -> JobType] /\ hookJob[j].go \in BOOLEAN
      /\ worker \in {"up", "dead", "off"} /\ chain \in [Chain -> ChainType]
  BY HookTypes DEF JobType
<1>1. CASE HostReceives(j)
  <2>1. /\ hookJob' \in [HookJob -> JobType] /\ UNCHANGED <<lists, worker>>
        /\ \A k \in HookJob : hookJob[k].at # "none" => hookJob'[k].at # "none"
    BY <1>1, <1>t DEF HostReceives, JobType, JobAt
  <2>2. CASE j \in hookPending
    <3>1. Settle(j, hookJob[j].go)
      BY <1>1, <2>2 DEF HostReceives
    <3> QED BY <2>1, <3>1, <1>t, SettleStep
  <2>3. CASE j \notin hookPending
    <3>1. UNCHANGED <<hookPending, chain>>
      BY <1>1, <2>3 DEF HostReceives
    <3> QED BY <2>1, <3>1, <1>t, JobsMove
  <2> QED BY <2>2, <2>3
<1>2. CASE TimesOut(j)
  BY <1>2, <1>t, SettleStep DEF TimesOut
<1>3. CASE WorkerRuns(j) \/ WorkerAnswers(j) \/ CapResult(j)
  <2>1. /\ hookJob' \in [HookJob -> JobType] /\ UNCHANGED <<lists, chain, hookPending, worker>>
        /\ \A k \in HookJob : hookJob[k].at # "none" => hookJob'[k].at # "none"
    BY <1>3, <1>t DEF WorkerRuns, WorkerAnswers, CapResult, JobType, JobAt
  <2> QED BY <2>1, <1>t, JobsMove
<1>4. ASSUME NEW c \in Chain, WorkerSends(j, c) PROVE HookInv'
  <2>1. /\ hookJob' \in [HookJob -> JobType] /\ UNCHANGED <<lists, hookPending, worker>>
        /\ \A k \in HookJob : hookJob[k].at # "none" => hookJob'[k].at # "none"
    BY <1>4, <1>t DEF WorkerSends, JobType, JobAt
  <2>2. Begun({j}) \in ChainType /\ Begun({j}).list = Len(lists) /\ Begun({j}).on = {}
        /\ Begun({j}).at \in {"next", "done"} /\ Owes(Begun({j}))
    BY BegunFacts
  <2>3. chain' = [chain EXCEPT ![c] = Begun({j})] /\ chain[c].at = "idle"
    BY <1>4 DEF WorkerSends
  <2>4. Len(lists) \in 1..Len(lists)
    BY HookTypes, HookAssumption
  <2> QED BY <2>1, <2>2, <2>3, <2>4, <1>t, OneMoves
<1> QED BY <1>1, <1>2, <1>3, <1>4

LEMMA HookStep == HookInv /\ [HookNext]_hookVars => HookInv'
<1> SUFFICES ASSUME HookInv, [HookNext]_hookVars PROVE HookInv'
  OBVIOUS
<1>1. CASE WorkerExits
  <2>1. /\ hookJob' = JobsEnded /\ worker' = "dead" /\ UNCHANGED <<lists, chain, hookPending>>
    BY <1>1 DEF WorkerExits, AfterExit
  <2> QED BY <2>1, JobsEndedFacts, JobsMove
<1>2. CASE UNCHANGED hookVars
  BY <1>2, HookTypes, JobsMove DEF hookVars
<1> QED BY <1>1, <1>2, RegisterStep, UnregisterStep, ChainStep, DispatchStep, JobStep
        DEF HookNext

-----------------------------------------------------------------------------
\* Every variable keeps its type, however many handlers come and go.
THEOREM HooksAreTyped == HookSpec => []HookTypeOK
<1>1. HookInv => HookTypeOK
  BY DEF HookInv
<1> QED BY <1>1, HookInitially, HookStep, PTL DEF HookSpec

\* A chain that ends has called every handler that was registered when it began
\* unless one said stop, whatever is registered or unregistered meanwhile, and a
\* chain that waits has a resolver of its own, whatever becomes of the worker.
THEOREM HooksAlwaysRun == HookSpec => []HooksRun
<1>1. HookInv => HooksRun
  <2> SUFFICES ASSUME HookInv PROVE HooksRun
    OBVIOUS
  <2>1. ASSUME NEW c \in Chain, chain[c].at = "done", ~chain[c].stopped
        PROVE  chain[c].owed \subseteq chain[c].asked
    <3>1. Ahead(chain[c]) = {}
      BY <2>1 DEF Ahead, Before
    <3> QED BY <2>1, <3>1 DEF HookInv, Owes
  <2>2. ASSUME NEW c \in Chain, chain[c].at = "waiting"
        PROVE  \E j \in hookPending : /\ chain[c].on = {j}
                                      /\ \A d \in Chain \ {c} : chain[d].on # {j}
    <3>1. chain[c].on # {}
      BY <2>2 DEF HookInv, Awaits
    <3>2. PICK j \in hookPending : chain[c].on = {j}
      BY <3>1 DEF HookInv, Awaits
    <3>3. \A d \in Chain \ {c} : chain[d].on # {j}
      BY <3>1, <3>2 DEF HookInv, Awaits
    <3> QED BY <3>2, <3>3
  <2> QED BY <2>1, <2>2 DEF HooksRun, NobodySkipped, NeverStalled
<1> QED BY <1>1, HookInitially, HookStep, PTL DEF HookSpec

\* A disabled plugin is handed no event by any chain.
THEOREM TheDisabledAreLeftAlone == HookSpec => [][LeftAlone]_hookVars
<1>1. HookInv /\ [HookNext]_hookVars => [LeftAlone]_hookVars
  <2> SUFFICES ASSUME HookInv, HookNext, NEW j \in HookJob, worker = "off",
                      hookJob[j].at = "none"
               PROVE  hookJob'[j].at = "none"
    BY DEF LeftAlone, hookVars
  <2>1. hookJob \in [HookJob -> JobType]
    BY HookTypes
  <2>2. JobsEnded[j] = hookJob[j]
    BY DEF JobsEnded
  <2> QED BY <2>1, <2>2 DEF HookNext, Register, Unregister, Execute, Finish, AskLocal, LocalAnswers,
       ShimPasses, Dispatch, HostReceives, TimesOut, WorkerRuns, WorkerAnswers, CapResult,
       WorkerSends, WorkerExits
<1> QED BY <1>1, HookInitially, HookStep, PTL DEF HookSpec

-----------------------------------------------------------------------------
(* Calls into the worker of a sandboxed plugin.                            *)

CallEntry == [kind : CallKind, is : {"open", "ok", "failed", "late"}]
ToWorker == [kind : CallKind \cup {"config-change"}, id : Nat, config : Nat]
ToHost == [kind : {"result", "cap"}, id : Nat, ok : BOOLEAN]

\* The open calls are those with an entry in a map of the host.
OpenWait(cs, waits) ==
  /\ cs \in Seq(CallEntry) /\ waits \subseteq 1..Len(cs)
  /\ \A i \in 1..Len(cs) : cs[i].is = "open" <=> i \in waits

OkEnded(cs, ended) == \A i \in 1..Len(cs) : cs[i].is = "ok" => i \in ended
OnlyHooks(cs, waits) == \A i \in waits : cs[i].kind = "hook"

\* A good result is on its way only from a handler that ended well.
TrueResults(up, ended) ==
  \A n \in 1..Len(up) : up[n].kind = "result" /\ up[n].ok => up[n].id \in ended

BridgeInv ==
  /\ brPlugin \in {"off", "load", "enabled"} \cup Lifecycle
  /\ brConfig \in Nat /\ brAlive \in BOOLEAN
  /\ OpenWait(brCalls, brPending) /\ OkEnded(brCalls, brEnded)
  /\ ~brAlive => OnlyHooks(brCalls, brPending)
  /\ brDown \in Seq(ToWorker) /\ brUp \in Seq(ToHost) /\ TrueResults(brUp, brEnded)

-----------------------------------------------------------------------------
LEMMA ACallIsPosted ==
  ASSUME NEW cs, NEW waits, NEW ended, NEW kind \in CallKind, OpenWait(cs, waits), OkEnded(cs, ended)
  PROVE  LET ds == Append(cs, [kind |-> kind, is |-> "open"])
             ws == waits \cup {Len(cs) + 1} IN
         /\ OpenWait(ds, ws) /\ OkEnded(ds, ended)
         /\ kind = "hook" /\ OnlyHooks(cs, waits) => OnlyHooks(ds, ws)
<1> DEFINE c == [kind |-> kind, is |-> "open"]
           ds == Append(cs, c)
           ws == waits \cup {Len(cs) + 1}
<1>1. c \in CallEntry /\ c.kind = kind /\ c.is = "open"
  BY DEF CallEntry
<1>2. cs \in Seq(CallEntry) /\ Len(cs) \in Nat
  BY DEF OpenWait
<1> HIDE DEF c
<1>3. /\ ds \in Seq(CallEntry) /\ Len(ds) = Len(cs) + 1 /\ ds[Len(cs) + 1] = c
      /\ \A i \in 1..Len(cs) : ds[i] = cs[i]
  BY <1>1, <1>2
<1> HIDE DEF ds
<1>4. OpenWait(ds, ws)
  BY <1>1, <1>2, <1>3 DEF OpenWait
<1>5. OkEnded(ds, ended)
  BY <1>1, <1>2, <1>3 DEF OkEnded
<1>6. kind = "hook" /\ OnlyHooks(cs, waits) => OnlyHooks(ds, ws)
  BY <1>1, <1>2, <1>3 DEF OnlyHooks, OpenWait
<1> QED BY <1>4, <1>5, <1>6 DEF ds, c

LEMMA ACallHasFailed ==
  ASSUME NEW cs, NEW waits, NEW ended, NEW kind \in CallKind, OpenWait(cs, waits), OkEnded(cs, ended)
  PROVE  LET ds == Append(cs, [kind |-> kind, is |-> "failed"]) IN
         /\ OpenWait(ds, waits) /\ OkEnded(ds, ended)
         /\ OnlyHooks(cs, waits) => OnlyHooks(ds, waits)
<1> DEFINE c == [kind |-> kind, is |-> "failed"]
           ds == Append(cs, c)
<1>1. c \in CallEntry /\ c.is = "failed"
  BY DEF CallEntry
<1>2. cs \in Seq(CallEntry) /\ Len(cs) \in Nat
  BY DEF OpenWait
<1> HIDE DEF c
<1>3. /\ ds \in Seq(CallEntry) /\ Len(ds) = Len(cs) + 1 /\ ds[Len(cs) + 1] = c
      /\ \A i \in 1..Len(cs) : ds[i] = cs[i]
  BY <1>1, <1>2
<1> HIDE DEF ds
<1>4. OpenWait(ds, waits)
  BY <1>1, <1>2, <1>3 DEF OpenWait
<1>5. OkEnded(ds, ended)
  BY <1>1, <1>2, <1>3 DEF OkEnded
<1>6. OnlyHooks(cs, waits) => OnlyHooks(ds, waits)
  BY <1>1, <1>2, <1>3 DEF OnlyHooks, OpenWait
<1> QED BY <1>4, <1>5, <1>6 DEF ds, c

LEMMA ACallIsSettled ==
  ASSUME NEW i \in brPending, NEW how \in {"ok", "failed", "late"},
         OpenWait(brCalls, brPending), OkEnded(brCalls, brEnded), how = "ok" => i \in brEnded
  PROVE  /\ OpenWait(SettledAs(i, how), brPending \ {i}) /\ OkEnded(SettledAs(i, how), brEnded)
         /\ Len(SettledAs(i, how)) = Len(brCalls)
         /\ OnlyHooks(brCalls, brPending) => OnlyHooks(SettledAs(i, how), brPending \ {i})
<1> DEFINE ds == SettledAs(i, how)
<1>1. /\ brCalls \in Seq(CallEntry) /\ Len(brCalls) \in Nat /\ i \in 1..Len(brCalls)
      /\ brCalls[i] \in CallEntry
  BY DEF OpenWait
<1>2. [brCalls[i] EXCEPT !.is = how] \in CallEntry
  BY <1>1 DEF CallEntry
<1>3. ds = [brCalls EXCEPT ![i] = [brCalls[i] EXCEPT !.is = how]]
  BY DEF SettledAs
<1>4. ds \in Seq(CallEntry) /\ Len(ds) = Len(brCalls)
  BY <1>1, <1>2, <1>3
<1>5. \A k \in 1..Len(brCalls) : /\ k # i => ds[k] = brCalls[k]
                                 /\ ds[i].is = how /\ ds[i].kind = brCalls[i].kind
  BY <1>1, <1>3 DEF CallEntry
<1> HIDE DEF ds
<1>6. OpenWait(ds, brPending \ {i})
  BY <1>1, <1>4, <1>5 DEF OpenWait
<1>7. OkEnded(ds, brEnded)
  BY <1>1, <1>4, <1>5 DEF OkEnded
<1>8. OnlyHooks(brCalls, brPending) => OnlyHooks(ds, brPending \ {i})
  BY <1>1, <1>4, <1>5 DEF OnlyHooks, OpenWait
<1> QED BY <1>4, <1>6, <1>7, <1>8 DEF ds

\* The exit of the worker settles what is open except the hooks.
LEMMA AnExitSettles ==
  ASSUME NEW cs, NEW waits, NEW ended, OpenWait(cs, waits), OkEnded(cs, ended), Exits(cs, waits)
  PROVE  /\ OpenWait(brCalls', brPending') /\ OkEnded(brCalls', ended)
         /\ OnlyHooks(brCalls', brPending')
<1> DEFINE c(i) == IF i \in waits /\ cs[i].kind # "hook" THEN [cs[i] EXCEPT !.is = "failed"] ELSE cs[i]
<1>1. cs \in Seq(CallEntry) /\ Len(cs) \in Nat /\ DOMAIN cs = 1..Len(cs)
  BY DEF OpenWait
<1>2. \A i \in 1..Len(cs) : cs[i] \in CallEntry
  BY <1>1
<1>3. \A i \in 1..Len(cs) :
        /\ c(i) \in CallEntry /\ c(i).kind = cs[i].kind
        /\ c(i).is = IF i \in waits /\ cs[i].kind # "hook" THEN "failed" ELSE cs[i].is
  BY <1>2 DEF CallEntry
<1>4. brCalls' = [i \in 1..Len(cs) |-> c(i)] /\ brPending' = {i \in waits : cs[i].kind = "hook"}
  BY <1>1 DEF Exits
<1> HIDE DEF c
<1>5. brCalls' \in Seq(CallEntry) /\ Len(brCalls') = Len(cs)
  <2>1. brCalls' \in [1..Len(cs) -> CallEntry]
    BY <1>3, <1>4
  <2> QED BY <1>1, <2>1, IsASeq, LenProperties
<1>6. \A i \in 1..Len(cs) : brCalls'[i] = c(i)
  BY <1>4
<1>7. OpenWait(brCalls', brPending')
  BY <1>3, <1>4, <1>5, <1>6 DEF OpenWait
<1>8. OkEnded(brCalls', ended)
  BY <1>3, <1>4, <1>5, <1>6 DEF OkEnded
<1>9. OnlyHooks(brCalls', brPending')
  BY <1>3, <1>4, <1>6 DEF OnlyHooks, OpenWait
<1> QED BY <1>7, <1>8, <1>9

LEMMA MessagesArePosted ==
  ASSUME BridgeInv, NEW kind \in CallKind
  PROVE  Posted(kind, NextId) \in Seq(ToWorker)
<1>1. NextId \in Nat
  BY DEF NextId, BridgeInv, OpenWait
<1>2. [kind |-> kind, id |-> NextId, config |-> brConfig] \in ToWorker
  BY <1>1 DEF ToWorker, BridgeInv
<1> QED BY <1>2 DEF Posted, BridgeInv

\* What the caller of a settled call does next.
LEMMA SettlingKeeps ==
  ASSUME BridgeInv, NEW i \in brPending, NEW how \in {"ok", "failed", "late"},
         how = "ok" => i \in brEnded, SettleCall(i, how)
  PROVE  /\ brPlugin' \in {"off", "load", "enabled"} \cup Lifecycle /\ brAlive' \in BOOLEAN
         /\ OpenWait(brCalls', brPending') /\ OkEnded(brCalls', brEnded)
         /\ ~brAlive' => OnlyHooks(brCalls', brPending')
         /\ brDown' \in Seq(ToWorker)
<1> DEFINE kind == brCalls[i].kind
           cs == SettledAs(i, how)
           waits == brPending \ {i}
<1>1. OpenWait(brCalls, brPending) /\ OkEnded(brCalls, brEnded) /\ (~brAlive => OnlyHooks(brCalls, brPending))
  BY DEF BridgeInv
<1>2. /\ OpenWait(cs, waits) /\ OkEnded(cs, brEnded) /\ Len(cs) = Len(brCalls)
      /\ ~brAlive => OnlyHooks(cs, waits)
  BY <1>1, ACallIsSettled
<1>3. kind \in CallKind
  <2>1. brCalls \in Seq(CallEntry) /\ i \in 1..Len(brCalls)
    BY <1>1 DEF OpenWait
  <2>2. brCalls[i] \in CallEntry
    BY <2>1
  <2> QED BY <2>2 DEF CallEntry
<1>4. kind = brPlugin => brAlive
  BY <1>1 DEF OnlyHooks, BridgeInv, Lifecycle
<1>5. brAlive \in BOOLEAN /\ brPlugin \in {"off", "load", "enabled"} \cup Lifecycle
      /\ brDown \in Seq(ToWorker)
  BY DEF BridgeInv
<1> HIDE DEF cs
<1>6. CASE kind # brPlugin
  <2>1. brCalls' = cs /\ brPending' = waits /\ UNCHANGED <<brPlugin, brDown, brAlive, brRunning>>
    BY <1>6 DEF SettleCall, cs
  <2> QED BY <2>1, <1>2, <1>5
<1>7. CASE kind = brPlugin /\ kind \in {"load", "onLoad"} /\ how = "ok"
  <2>1. /\ brPlugin' = Following[kind] /\ PostCall(Following[kind], cs, waits)
        /\ UNCHANGED <<brAlive, brRunning>>
    BY <1>7 DEF SettleCall, cs
  <2>2. Following[kind] \in {"onLoad", "onEnable"}
    BY <1>7 DEF Following
  <2>3. Following[kind] \in CallKind
    BY <2>2 DEF CallKind, Lifecycle
  <2>4. /\ brCalls' = Append(cs, [kind |-> Following[kind], is |-> "open"])
        /\ brPending' = waits \cup {Len(cs) + 1} /\ brDown' = Posted(Following[kind], NextId)
    BY <2>1, <1>2 DEF PostCall, NextId
  <2>5. OpenWait(brCalls', brPending') /\ OkEnded(brCalls', brEnded)
    BY <2>3, <2>4, <1>2, ACallIsPosted
  <2>6. brDown' \in Seq(ToWorker)
    BY <2>3, <2>4, MessagesArePosted
  <2>7. brAlive' = TRUE
    BY <2>1, <1>4, <1>5, <1>7
  <2> QED BY <2>1, <2>2, <2>5, <2>6, <2>7 DEF Lifecycle
<1>8. CASE kind = brPlugin /\ kind = "onEnable" /\ how = "ok"
  <2>1. brPlugin' = "enabled" /\ brCalls' = cs /\ brPending' = waits /\ UNCHANGED <<brDown, brAlive, brRunning>>
    BY <1>8 DEF SettleCall, cs
  <2> QED BY <2>1, <1>2, <1>5
<1>9. CASE kind = brPlugin /\ ~(kind \in {"load", "onLoad"} /\ how = "ok") /\ ~(kind = "onEnable" /\ how = "ok")
  <2>1. brPlugin' = "off" /\ Exits(cs, waits)
    BY <1>9 DEF SettleCall, cs
  <2>2. /\ OpenWait(brCalls', brPending') /\ OkEnded(brCalls', brEnded)
        /\ OnlyHooks(brCalls', brPending')
    BY <2>1, <1>2, AnExitSettles
  <2>3. brDown' = <<>> /\ brAlive' = FALSE /\ <<>> \in Seq(ToWorker)
    BY <2>1 DEF Exits
  <2> QED BY <2>1, <2>2, <2>3
<1> QED BY <1>6, <1>7, <1>8, <1>9

LEMMA TheFirstIsTaken ==
  ASSUME NEW S, NEW s \in Seq(S), s # <<>>
  PROVE  /\ Head(s) = s[1] /\ s[1] \in S /\ 1 \in 1..Len(s) /\ Tail(s) \in Seq(S)
         /\ Len(Tail(s)) = Len(s) - 1 /\ \A n \in 1..Len(s) - 1 : Tail(s)[n] = s[n + 1]
OBVIOUS

LEMMA TheRestIsTrue ==
  ASSUME NEW up \in Seq(ToHost), up # <<>>, NEW ended, TrueResults(up, ended)
  PROVE  /\ Tail(up) \in Seq(ToHost) /\ TrueResults(Tail(up), ended) /\ Head(up) \in ToHost
         /\ Head(up).kind = "result" /\ Head(up).ok => Head(up).id \in ended
<1>1. /\ Head(up) = up[1] /\ up[1] \in ToHost /\ 1 \in 1..Len(up) /\ Tail(up) \in Seq(ToHost)
      /\ Len(Tail(up)) = Len(up) - 1 /\ \A n \in 1..Len(up) - 1 : Tail(up)[n] = up[n + 1]
  BY TheFirstIsTaken
<1>2. Len(up) \in Nat
  OBVIOUS
<1>3. TrueResults(Tail(up), ended)
  BY <1>1, <1>2 DEF TrueResults
<1> QED BY <1>1, <1>3 DEF TrueResults

LEMMA ARightReply ==
  ASSUME NEW up \in Seq(ToHost), NEW ended, NEW more, ended \subseteq more, TrueResults(up, ended),
         NEW x \in ToHost, x.kind = "result" /\ x.ok => x.id \in more
  PROVE  Append(up, x) \in Seq(ToHost) /\ TrueResults(Append(up, x), more)
<1>1. /\ Append(up, x) \in Seq(ToHost) /\ Len(Append(up, x)) = Len(up) + 1 /\ Len(up) \in Nat
      /\ Append(up, x)[Len(up) + 1] = x /\ \A n \in 1..Len(up) : Append(up, x)[n] = up[n]
  OBVIOUS
<1> DEFINE s == Append(up, x)
<1> HIDE DEF s
<1>2. /\ s \in Seq(ToHost) /\ Len(s) = Len(up) + 1 /\ Len(up) \in Nat
      /\ s[Len(up) + 1] = x /\ \A n \in 1..Len(up) : s[n] = up[n]
  BY <1>1 DEF s
<1>3. TrueResults(s, more)
  BY <1>2 DEF TrueResults
<1> QED BY <1>2, <1>3 DEF s

-----------------------------------------------------------------------------
LEMMA BridgeStarts == BridgeInit => BridgeInv
<1> SUFFICES ASSUME BridgeInit PROVE BridgeInv
  OBVIOUS
<1>1. <<>> \in Seq(CallEntry) /\ <<>> \in Seq(ToWorker) /\ <<>> \in Seq(ToHost)
  OBVIOUS
<1>2. OpenWait(<<>>, {}) /\ OkEnded(<<>>, {}) /\ OnlyHooks(<<>>, {}) /\ TrueResults(<<>>, {})
  BY <1>1 DEF OpenWait, OkEnded, OnlyHooks, TrueResults
<1> QED BY <1>1, <1>2 DEF BridgeInit, BridgeInv

LEMMA BridgeKeeps == BridgeInv /\ [BridgeNext]_bridgeVars => BridgeInv'
<1> SUFFICES ASSUME BridgeInv, [BridgeNext]_bridgeVars PROVE BridgeInv'
  OBVIOUS
<1>t. /\ brPlugin \in {"off", "load", "enabled"} \cup Lifecycle
      /\ brConfig \in Nat /\ brAlive \in BOOLEAN
      /\ OpenWait(brCalls, brPending) /\ OkEnded(brCalls, brEnded)
      /\ ~brAlive => OnlyHooks(brCalls, brPending)
      /\ brDown \in Seq(ToWorker) /\ brUp \in Seq(ToHost) /\ TrueResults(brUp, brEnded)
  BY DEF BridgeInv
<1>e. <<>> \in Seq(ToHost) /\ <<>> \in Seq(ToWorker) /\ TrueResults(<<>>, brEnded)
  BY DEF TrueResults
<1>1. CASE Enable
  <2>1. /\ brPlugin' = "load" /\ brAlive' = TRUE /\ brPending' = {1}
        /\ brCalls' = <<[kind |-> "load", is |-> "open"]>>
        /\ brDown' = <<[kind |-> "load", id |-> 1, config |-> brConfig]>>
        /\ UNCHANGED <<brConfig, brUp, brEnded>>
    BY <1>1 DEF Enable, thread
  <2>2. [kind |-> "load", is |-> "open"] \in CallEntry
        /\ [kind |-> "load", id |-> 1, config |-> brConfig] \in ToWorker
    BY <1>t DEF CallEntry, CallKind, ToWorker
  <2>3. brDown' \in Seq(ToWorker) /\ brCalls' \in Seq(CallEntry) /\ Len(brCalls') = 1
    BY <2>1, <2>2
  <2>4. brCalls'[1].is = "open"
    BY <2>1
  <2>5. OpenWait(brCalls', brPending') /\ OkEnded(brCalls', brEnded')
    BY <2>1, <2>3, <2>4 DEF OpenWait, OkEnded
  <2> QED BY <2>1, <2>3, <2>5, <1>t DEF BridgeInv
<1>2. CASE Disable
  <2>1. CASE brAlive
    <3>1. /\ brPlugin' = "onDisable" /\ PostCall("onDisable", brCalls, brPending)
          /\ UNCHANGED <<brConfig, brUp, brAlive, brEnded>>
      BY <1>2, <2>1 DEF Disable, thread
    <3>2. "onDisable" \in CallKind /\ "onDisable" \in Lifecycle
      BY DEF CallKind, Lifecycle
    <3>3. OpenWait(brCalls', brPending') /\ OkEnded(brCalls', brEnded)
      BY <3>1, <3>2, <1>t, ACallIsPosted DEF PostCall, NextId
    <3>4. brDown' \in Seq(ToWorker)
      BY <3>1, <3>2, MessagesArePosted DEF PostCall
    <3> QED BY <2>1, <3>1, <3>2, <3>3, <3>4, <1>t DEF BridgeInv
  <2>2. CASE ~brAlive
    BY <1>2, <2>2, <1>t DEF Disable, thread, BridgeInv
  <2> QED BY <2>1, <2>2
<1>3. CASE UpdateConfig
  <2>1. /\ brConfig' = brConfig + 1 /\ UNCHANGED <<brPlugin, brCalls, brPending, brUp, brAlive, brEnded>>
        /\ brDown' = IF SendsConfig
                     THEN Append(brDown, [kind |-> "config-change", id |-> 0, config |-> brConfig + 1])
                     ELSE brDown
    BY <1>3 DEF UpdateConfig, thread
  <2>2. [kind |-> "config-change", id |-> 0, config |-> brConfig + 1] \in ToWorker
    BY <1>t DEF ToWorker
  <2>3. brDown' \in Seq(ToWorker) /\ brConfig' \in Nat
    BY <2>1, <2>2, <1>t
  <2> QED BY <2>1, <2>3, <1>t DEF BridgeInv
<1>4. ASSUME NEW kind \in {"hook", "health"}, Ask(kind) PROVE BridgeInv'
  <2>1. kind \in CallKind /\ UNCHANGED <<brPlugin, brConfig, brUp, brAlive, brEnded>> /\ brPlugin # "off"
    BY <1>4 DEF Ask, CallKind, thread
  <2>2. CASE kind = "health" /\ Dead
    <3>1. /\ brCalls' = Append(brCalls, [kind |-> kind, is |-> "failed"])
          /\ UNCHANGED <<brPending, brDown>>
      BY <1>4, <2>2 DEF Ask
    <3>2. /\ OpenWait(brCalls', brPending) /\ OkEnded(brCalls', brEnded)
          /\ OnlyHooks(brCalls, brPending) => OnlyHooks(brCalls', brPending)
      BY <2>1, <3>1, <1>t, ACallHasFailed
    <3> QED BY <2>1, <3>1, <3>2, <1>t DEF BridgeInv
  <2>3. CASE ~(kind = "health" /\ Dead)
    <3>1. PostCall(kind, brCalls, brPending)
      BY <1>4, <2>3 DEF Ask
    <3>2. /\ OpenWait(brCalls', brPending') /\ OkEnded(brCalls', brEnded)
          /\ kind = "hook" /\ OnlyHooks(brCalls, brPending) => OnlyHooks(brCalls', brPending')
      BY <2>1, <3>1, <1>t, ACallIsPosted DEF PostCall, NextId
    <3>3. brDown' \in Seq(ToWorker)
      BY <2>1, <3>1, MessagesArePosted DEF PostCall
    <3>4. ~brAlive => kind = "hook"
      BY <2>1, <2>3 DEF Dead
    <3> QED BY <2>1, <3>2, <3>3, <3>4, <1>t DEF BridgeInv
  <2> QED BY <2>2, <2>3
<1>5. CASE Result
  <2>1. /\ brUp # <<>> /\ Head(brUp).kind = "result" /\ brUp' = Emptied
        /\ UNCHANGED <<brConfig, brEnded>>
    BY <1>5 DEF Result
  <2>2. /\ Tail(brUp) \in Seq(ToHost) /\ TrueResults(Tail(brUp), brEnded) /\ Head(brUp) \in ToHost
        /\ Head(brUp).kind = "result" /\ Head(brUp).ok => Head(brUp).id \in brEnded
    BY <2>1, <1>t, TheRestIsTrue
  <2>3. brUp' \in Seq(ToHost) /\ TrueResults(brUp', brEnded')
    BY <2>1, <2>2, <1>e DEF Emptied
  <2>4. CASE WaitsFor(Head(brUp).id) = {}
    <3>1. UNCHANGED <<brPlugin, brCalls, brPending, brDown, brAlive, brRunning>>
      BY <1>5, <2>4 DEF Result
    <3> QED BY <2>1, <2>3, <3>1, <1>t DEF BridgeInv
  <2>5. CASE WaitsFor(Head(brUp).id) # {}
    <3>1. PICK w \in WaitsFor(Head(brUp).id) : SettleCall(w, IF Head(brUp).ok THEN "ok" ELSE "failed")
      BY <1>5, <2>5 DEF Result
    <3>2. w \in brPending /\ w = Head(brUp).id
      BY DEF WaitsFor
    <3> DEFINE how == IF Head(brUp).ok THEN "ok" ELSE "failed"
    <3>3. how \in {"ok", "failed", "late"} /\ (how = "ok" => w \in brEnded)
      BY <2>1, <2>2, <3>2
    <3> HIDE DEF how
    <3>4. /\ brPlugin' \in {"off", "load", "enabled"} \cup Lifecycle /\ brAlive' \in BOOLEAN
          /\ OpenWait(brCalls', brPending') /\ OkEnded(brCalls', brEnded)
          /\ ~brAlive' => OnlyHooks(brCalls', brPending')
          /\ brDown' \in Seq(ToWorker)
      <4>1. SettleCall(w, how)
        BY <3>1 DEF how
      <4> QED BY <3>2, <3>3, <4>1, SettlingKeeps
    <3> QED BY <2>1, <2>3, <3>4, <1>t DEF BridgeInv
  <2> QED BY <2>4, <2>5
<1>6. ASSUME NEW i \in Id, CallTimesOut(i) PROVE BridgeInv'
  <2>1. /\ i \in brPending /\ SettleCall(i, "late") /\ brUp' = IF brAlive' THEN brUp ELSE <<>>
        /\ UNCHANGED <<brConfig, brEnded>>
    BY <1>6 DEF CallTimesOut
  <2>2. "late" \in {"ok", "failed", "late"} /\ ("late" = "ok" => i \in brEnded)
    OBVIOUS
  <2>3. /\ brPlugin' \in {"off", "load", "enabled"} \cup Lifecycle /\ brAlive' \in BOOLEAN
        /\ OpenWait(brCalls', brPending') /\ OkEnded(brCalls', brEnded)
        /\ ~brAlive' => OnlyHooks(brCalls', brPending')
        /\ brDown' \in Seq(ToWorker)
    BY <2>1, <2>2, SettlingKeeps
  <2>4. brUp' \in Seq(ToHost) /\ TrueResults(brUp', brEnded)
    BY <2>1, <1>t, <1>e
  <2> QED BY <2>1, <2>3, <2>4, <1>t DEF BridgeInv
<1>7. CASE Capability
  <2>1. brUp # <<>> /\ brUp' = Tail(brUp) /\ UNCHANGED <<bridgeHost, brDown, brAlive, brEnded>>
    BY <1>7 DEF Capability, thread
  <2>2. Tail(brUp) \in Seq(ToHost) /\ TrueResults(Tail(brUp), brEnded)
    BY <2>1, <1>t, TheRestIsTrue
  <2> QED BY <2>1, <2>2, <1>t DEF BridgeInv, bridgeHost
<1>8. CASE ThreadExits
  <2>1. /\ Exits(brCalls, brPending) /\ UNCHANGED <<brConfig, brEnded>>
        /\ brPlugin' = IF brPlugin = "enabled" THEN brPlugin ELSE "off"
    BY <1>8 DEF ThreadExits
  <2>2. brAlive' = FALSE /\ brDown' = <<>> /\ brUp' = <<>>
    BY <2>1 DEF Exits
  <2>3. /\ OpenWait(brCalls', brPending') /\ OkEnded(brCalls', brEnded)
        /\ OnlyHooks(brCalls', brPending')
    BY <2>1, <1>t, AnExitSettles
  <2> QED BY <2>1, <2>2, <2>3, <1>t, <1>e DEF BridgeInv
<1>9. CASE Loads
  <2> DEFINE d == Head(brDown)
  <2>1. /\ brDown # <<>> /\ brDown' = Tail(brDown) /\ UNCHANGED <<bridgeHost, brAlive>>
        /\ \/ brEnded' = brEnded \cup {d.id} /\ Reply(d.id, TRUE)
           \/ Reply(d.id, FALSE) /\ UNCHANGED brEnded
    BY <1>9 DEF Loads
  <2>2. d \in ToWorker /\ Tail(brDown) \in Seq(ToWorker)
    BY <2>1, <1>t, TheFirstIsTaken
  <2>3. d.id \in Nat
    BY <2>2 DEF ToWorker
  <2> HIDE DEF d
  <2>4. /\ brEnded \subseteq brEnded'
        /\ \E ok \in BOOLEAN : (ok => d.id \in brEnded') /\ Reply(d.id, ok)
    BY <2>1
  <2>5. PICK ok \in BOOLEAN : (ok => d.id \in brEnded') /\ Reply(d.id, ok)
    BY <2>4
  <2> DEFINE x == [kind |-> "result", id |-> d.id, ok |-> ok]
  <2>6. x \in ToHost /\ (x.kind = "result" /\ x.ok => x.id \in brEnded') /\ brUp' = Append(brUp, x)
    BY <2>3, <2>5 DEF Reply, ToHost
  <2> HIDE DEF x
  <2>7. brUp' \in Seq(ToHost) /\ TrueResults(brUp', brEnded')
    BY <2>4, <2>6, <1>t, ARightReply
  <2>8. OkEnded(brCalls, brEnded')
    BY <2>4, <1>t DEF OkEnded
  <2> QED BY <2>1, <2>2, <2>7, <2>8, <1>t DEF BridgeInv, bridgeHost
<1>10. CASE Starts \/ ConfigChanges
  <2>1. brDown # <<>> /\ brDown' = Tail(brDown) /\ UNCHANGED <<bridgeHost, brUp, brAlive, brEnded>>
    BY <1>10 DEF Starts, ConfigChanges
  <2>2. Tail(brDown) \in Seq(ToWorker)
    BY <2>1, <1>t, TheFirstIsTaken
  <2> QED BY <2>1, <2>2, <1>t DEF BridgeInv, bridgeHost
<1>11. CASE AsksHost
  <2> DEFINE x == [kind |-> "cap", id |-> 0, ok |-> TRUE]
  <2>1. brUp' = Append(brUp, x) /\ UNCHANGED <<bridgeHost, brDown, brAlive, brEnded>>
    BY <1>11 DEF AsksHost
  <2>2. x \in ToHost /\ x.kind # "result"
    BY DEF ToHost
  <2> HIDE DEF x
  <2>3. brUp' \in Seq(ToHost) /\ TrueResults(brUp', brEnded)
    BY <2>1, <2>2, <1>t, ARightReply
  <2> QED BY <2>1, <2>3, <1>t DEF BridgeInv, bridgeHost
<1>12. ASSUME NEW i \in Id, Ends(i) PROVE BridgeInv'
  <2>1. /\ UNCHANGED <<bridgeHost, brDown, brAlive>>
        /\ \/ brEnded' = brEnded \cup {i} /\ Reply(i, TRUE)
           \/ Reply(i, FALSE) /\ UNCHANGED brEnded
    BY <1>12 DEF Ends
  <2>2. i \in Nat
    BY BridgeAssumption DEF Id
  <2>3. brEnded \subseteq brEnded'
    BY <2>1
  <2>4. PICK ok \in BOOLEAN : (ok => i \in brEnded') /\ Reply(i, ok)
    BY <2>1
  <2> DEFINE x == [kind |-> "result", id |-> i, ok |-> ok]
  <2>5. x \in ToHost /\ (x.kind = "result" /\ x.ok => x.id \in brEnded') /\ brUp' = Append(brUp, x)
    BY <2>2, <2>4 DEF Reply, ToHost
  <2> HIDE DEF x
  <2>6. brUp' \in Seq(ToHost) /\ TrueResults(brUp', brEnded')
    BY <2>3, <2>5, <1>t, ARightReply
  <2>7. OkEnded(brCalls, brEnded')
    BY <2>3, <1>t DEF OkEnded
  <2> QED BY <2>1, <2>6, <2>7, <1>t DEF BridgeInv, bridgeHost
<1>13. CASE UNCHANGED bridgeVars
  BY <1>13 DEF bridgeVars, BridgeInv
<1> QED BY <1>1, <1>2, <1>3, <1>4, <1>5, <1>6, <1>7, <1>8, <1>9, <1>10, <1>11, <1>12, <1>13
        DEF BridgeNext

LEMMA BridgeInvGives == BridgeInv => AnswersAreTheirOwn
<1> SUFFICES ASSUME BridgeInv PROVE AnswersAreTheirOwn
  OBVIOUS
<1>1. DOMAIN brCalls = 1..Len(brCalls)
  BY DEF BridgeInv, OpenWait
<1> QED BY <1>1 DEF BridgeInv, OpenWait, OkEnded, OnlyHooks, AnswersAreTheirOwn

\* However many calls, answers and messages are on their way between the host and a
\* worker, a good answer is that of the call's own handler, and an exit leaves only
\* hooks waiting.
THEOREM AnswersAreOwn == BridgeSpec => []AnswersAreTheirOwn
BY BridgeStarts, BridgeKeeps, BridgeInvGives, PTL DEF BridgeSpec

-----------------------------------------------------------------------------
(* The configuration of a worker.                                          *)

\* The messages that carry the configuration, and the last of them on its way.
CarriesOne(m) == m.kind \in {"load", "config-change"}
CarriesNone(down) == \A n \in 1..Len(down) : ~CarriesOne(down[n])
LastCarries(down, config) ==
  \A n \in 1..Len(down) :
    CarriesOne(down[n]) /\ (\A m \in 1..Len(down) : m > n => ~CarriesOne(down[m])) => down[n].config = config

\* Only the first call is a load; it is the first message, and nothing else has its id.
LoadComesFirst(down, ended) ==
  \A n \in 1..Len(down) :
    /\ down[n].kind = "load" => n = 1 /\ down[n].id = 1 /\ 1 \notin ended
    /\ ~CarriesOne(down[n]) => down[n].id # 1
LoadIsFirst(cs) == \A i \in 1..Len(cs) : cs[i].kind = "load" => i = 1

\* A worker that has loaded has the configuration, or the last message that carries one
\* brings it.
ConfigLeads ==
  /\ LoadIsFirst(brCalls) /\ LoadComesFirst(brDown, brEnded) /\ 1 \notin brRunning
  /\ brCalls = <<>> => brPlugin = "off" /\ brAlive = FALSE /\ 1 \notin brEnded
  /\ brPlugin \notin {"off", "load"} => 1 \in brEnded
  /\ brAlive /\ brPlugin # "off" /\ brMissed = FALSE =>
       /\ LastCarries(brDown, brConfig)
       /\ CarriesNone(brDown) /\ 1 \in brEnded => brBase = brConfig

-----------------------------------------------------------------------------
LEMMA OneMessageLess ==
  ASSUME NEW down \in Seq(ToWorker), down # <<>>, NEW config, NEW ended, LoadComesFirst(down, ended)
  PROVE  /\ LastCarries(down, config) => LastCarries(Tail(down), config)
         /\ LastCarries(down, config) /\ CarriesNone(Tail(down)) /\ CarriesOne(Head(down))
              => Head(down).config = config
         /\ CarriesNone(Tail(down)) /\ ~CarriesOne(Head(down)) => CarriesNone(down)
         /\ \A more : LoadComesFirst(Tail(down), more)
         /\ Head(down).kind = "load" => Head(down).id = 1 /\ 1 \notin ended
         /\ ~CarriesOne(Head(down)) => Head(down).id # 1
<1>1. /\ Head(down) = down[1] /\ 1 \in 1..Len(down) /\ Len(Tail(down)) = Len(down) - 1
      /\ \A n \in 1..Len(down) - 1 : Tail(down)[n] = down[n + 1]
  BY TheFirstIsTaken
<1> DEFINE s == Tail(down)
           k == Len(down)
<1>2. Len(s) = k - 1 /\ k \in Nat /\ \A n \in 1..k - 1 : s[n] = down[n + 1]
  BY <1>1
<1> HIDE DEF s
<1>3. \A n \in 2..k : s[n - 1] = down[n] /\ n - 1 \in 1..Len(s)
  <2> SUFFICES ASSUME NEW n \in 2..k PROVE s[n - 1] = down[n] /\ n - 1 \in 1..Len(s)
    OBVIOUS
  <2>1. n - 1 \in 1..k - 1 /\ (n - 1) + 1 = n
    BY <1>2
  <2> QED BY <1>2, <2>1
<1>4. ASSUME LastCarries(down, config) PROVE LastCarries(s, config)
  <2> SUFFICES ASSUME NEW n \in 1..Len(s), CarriesOne(s[n]),
                      \A m \in 1..Len(s) : m > n => ~CarriesOne(s[m])
               PROVE  s[n].config = config
    BY DEF LastCarries
  <2>1. n + 1 \in 1..k /\ s[n] = down[n + 1]
    BY <1>2
  <2>2. ASSUME NEW m \in 1..k, m > n + 1 PROVE ~CarriesOne(down[m])
    <3>1. m \in 2..k /\ m - 1 > n
      BY <1>2, <2>2
    <3>2. s[m - 1] = down[m] /\ m - 1 \in 1..Len(s)
      BY <3>1, <1>3
    <3> QED BY <3>1, <3>2
  <2> QED BY <1>4, <2>1, <2>2 DEF LastCarries
<1>5. ASSUME CarriesNone(s) PROVE \A m \in 1..k : m > 1 => ~CarriesOne(down[m])
  <2> SUFFICES ASSUME NEW m \in 1..k, m > 1 PROVE ~CarriesOne(down[m])
    OBVIOUS
  <2>1. s[m - 1] = down[m] /\ m - 1 \in 1..Len(s)
    BY <1>2, <1>3
  <2> QED BY <1>5, <2>1 DEF CarriesNone
<1>6. LastCarries(down, config) /\ CarriesNone(s) /\ CarriesOne(Head(down)) => Head(down).config = config
  BY <1>1, <1>2, <1>5 DEF LastCarries
<1>7. CarriesNone(s) /\ ~CarriesOne(Head(down)) => CarriesNone(down)
  BY <1>1, <1>2, <1>5 DEF CarriesNone
<1>8. ASSUME NEW more PROVE LoadComesFirst(s, more)
  <2> SUFFICES ASSUME NEW n \in 1..Len(s)
               PROVE  s[n].kind # "load" /\ (~CarriesOne(s[n]) => s[n].id # 1)
    BY DEF LoadComesFirst
  <2>1. s[n] = down[n + 1] /\ n + 1 \in 1..Len(down) /\ n + 1 # 1
    BY <1>2
  <2> QED BY <2>1 DEF LoadComesFirst
<1>9. /\ Head(down).kind = "load" => Head(down).id = 1 /\ 1 \notin ended
      /\ ~CarriesOne(Head(down)) => Head(down).id # 1
  BY <1>1 DEF LoadComesFirst
<1> QED BY <1>4, <1>6, <1>7, <1>8, <1>9 DEF s

LEMMA OneMessageMore ==
  ASSUME NEW down \in Seq(ToWorker), NEW x \in ToWorker, NEW ended, LoadComesFirst(down, ended),
         x.kind # "load", ~CarriesOne(x) => x.id # 1
  PROVE  /\ LoadComesFirst(Append(down, x), ended)
         /\ CarriesOne(x) => LastCarries(Append(down, x), x.config) /\ ~CarriesNone(Append(down, x))
         /\ ~CarriesOne(x) =>
              /\ \A config : LastCarries(down, config) => LastCarries(Append(down, x), config)
              /\ CarriesNone(Append(down, x)) => CarriesNone(down)
<1> DEFINE s == Append(down, x)
           k == Len(down)
<1>1. /\ k \in Nat /\ Len(s) = k + 1 /\ s[k + 1] = x /\ \A n \in 1..k : s[n] = down[n]
  OBVIOUS
<1> HIDE DEF s
<1>2. LoadComesFirst(s, ended)
  <2> SUFFICES ASSUME NEW n \in 1..k + 1
               PROVE  /\ s[n].kind = "load" => n = 1 /\ s[n].id = 1 /\ 1 \notin ended
                      /\ ~CarriesOne(s[n]) => s[n].id # 1
    BY <1>1 DEF LoadComesFirst
  <2>1. CASE n = k + 1
    BY <1>1, <2>1
  <2>2. CASE n # k + 1
    BY <1>1, <2>2 DEF LoadComesFirst
  <2> QED BY <2>1, <2>2
<1>3. CarriesOne(x) => LastCarries(s, x.config) /\ ~CarriesNone(s)
  <2> SUFFICES ASSUME CarriesOne(x) PROVE LastCarries(s, x.config) /\ ~CarriesNone(s)
    OBVIOUS
  <2>1. k + 1 \in 1..Len(s) /\ CarriesOne(s[k + 1])
    BY <1>1
  <2>2. ~CarriesNone(s)
    BY <2>1 DEF CarriesNone
  <2>3. ASSUME NEW n \in 1..Len(s), \A m \in 1..Len(s) : m > n => ~CarriesOne(s[m])
        PROVE  s[n].config = x.config
    <3>1. n = k + 1
      BY <1>1, <2>1, <2>3
    <3> QED BY <1>1, <3>1
  <2> QED BY <2>2, <2>3 DEF LastCarries
<1>4. ASSUME ~CarriesOne(x), NEW config, LastCarries(down, config) PROVE LastCarries(s, config)
  <2> SUFFICES ASSUME NEW n \in 1..Len(s), CarriesOne(s[n]),
                      \A m \in 1..Len(s) : m > n => ~CarriesOne(s[m])
               PROVE  s[n].config = config
    BY DEF LastCarries
  <2>1. n \in 1..k /\ s[n] = down[n]
    BY <1>1, <1>4
  <2>2. \A m \in 1..k : m > n => ~CarriesOne(down[m])
    BY <1>1
  <2> QED BY <1>4, <2>1, <2>2 DEF LastCarries
<1>5. CarriesNone(s) => CarriesNone(down)
  BY <1>1 DEF CarriesNone
<1> QED BY <1>2, <1>3, <1>4, <1>5 DEF s

\* load(), runLifecycle(), dispatchHook(), healthCheck(): one more call, whose message
\* carries nothing.
LEMMA AnotherCall ==
  ASSUME BridgeInv, ConfigLeads, NEW kind \in CallKind \ {"load"},
         NEW cs, NEW waits, cs \in Seq(CallEntry), LoadIsFirst(cs), Len(cs) = Len(brCalls), brCalls # <<>>,
         PostCall(kind, cs, waits), UNCHANGED <<brAlive, brConfig, brMissed, brEnded, brBase, brRunning>>,
         brPlugin' # "off" => brPlugin # "off",
         brPlugin' \notin {"off", "load"} => 1 \in brEnded
  PROVE  ConfigLeads'
<1>1. /\ brCalls \in Seq(CallEntry) /\ brDown \in Seq(ToWorker)
      /\ brConfig \in Nat /\ brAlive \in BOOLEAN
  BY DEF BridgeInv, OpenWait
<1> DEFINE c == [kind |-> kind, is |-> "open"]
           x == [kind |-> kind, id |-> NextId, config |-> brConfig]
<1>2. Len(cs) \in Nat /\ Len(cs) > 0 /\ NextId = Len(cs) + 1 /\ c \in CallEntry /\ c.kind # "load"
  BY <1>1 DEF NextId, CallEntry
<1>3. x \in ToWorker /\ x.kind # "load" /\ ~CarriesOne(x) /\ x.id # 1
  BY <1>1, <1>2 DEF ToWorker, CarriesOne, CallKind, Lifecycle
<1>4. brCalls' = Append(cs, c) /\ brDown' = IF brAlive THEN Append(brDown, x) ELSE brDown
  BY DEF PostCall, Posted
<1> HIDE DEF c, x
<1>5. LoadIsFirst(brCalls') /\ brCalls' # <<>>
  <2>1. /\ Len(Append(cs, c)) = Len(cs) + 1 /\ Append(cs, c)[Len(cs) + 1] = c
        /\ \A n \in 1..Len(cs) : Append(cs, c)[n] = cs[n]
    BY <1>2
  <2> QED BY <1>2, <1>4, <2>1 DEF LoadIsFirst
<1>6. /\ LoadComesFirst(brDown', brEnded)
      /\ \A config : LastCarries(brDown, config) => LastCarries(brDown', config)
      /\ CarriesNone(brDown') => CarriesNone(brDown)
  <2>1. LoadComesFirst(brDown, brEnded)
    BY DEF ConfigLeads
  <2>2. /\ LoadComesFirst(Append(brDown, x), brEnded)
        /\ \A config : LastCarries(brDown, config) => LastCarries(Append(brDown, x), config)
        /\ CarriesNone(Append(brDown, x)) => CarriesNone(brDown)
    BY <1>1, <1>3, <2>1, OneMessageMore
  <2>3. CASE brAlive
    BY <1>4, <2>2, <2>3
  <2>4. CASE ~brAlive
    BY <1>4, <2>1, <2>4
  <2> QED BY <2>3, <2>4
<1> QED BY <1>5, <1>6 DEF ConfigLeads

\* An exit: nothing is on its way to a worker that is gone.
LEMMA AnExitLeaves ==
  ASSUME ConfigLeads, NEW cs, NEW waits, cs \in Seq(CallEntry), LoadIsFirst(cs), cs # <<>>,
         Exits(cs, waits), UNCHANGED brEnded,
         brPlugin' \in {"off", brPlugin}
  PROVE  ConfigLeads'
<1>1. brAlive' = FALSE /\ brDown' = <<>> /\ brRunning' = {}
  BY DEF Exits
<1> DEFINE c(i) == IF i \in waits /\ cs[i].kind # "hook" THEN [cs[i] EXCEPT !.is = "failed"] ELSE cs[i]
<1>2. DOMAIN cs = 1..Len(cs) /\ Len(cs) \in Nat /\ Len(cs) > 0 /\ \A i \in 1..Len(cs) : cs[i] \in CallEntry
  OBVIOUS
<1>3. \A i \in 1..Len(cs) : c(i).kind = cs[i].kind /\ c(i) \in CallEntry
  BY <1>2 DEF CallEntry
<1>4. brCalls' = [i \in 1..Len(cs) |-> c(i)]
  BY <1>2 DEF Exits
<1> HIDE DEF c
<1>5. brCalls' \in Seq(CallEntry) /\ Len(brCalls') = Len(cs)
  <2>1. brCalls' \in [1..Len(cs) -> CallEntry]
    BY <1>3, <1>4
  <2> QED BY <1>2, <2>1, IsASeq, LenProperties
<1>6. LoadIsFirst(brCalls')
  BY <1>3, <1>4, <1>5 DEF LoadIsFirst
<1>7. brCalls' # <<>>
  BY <1>2, <1>5
<1>8. LoadComesFirst(brDown', brEnded')
  BY <1>1 DEF LoadComesFirst
<1> QED BY <1>1, <1>6, <1>7, <1>8 DEF ConfigLeads

\* The caller of a call that is settled goes on.
LEMMA SettlingLeads ==
  ASSUME BridgeInv, ConfigLeads, NEW i \in brPending, NEW how \in {"ok", "failed", "late"},
         how = "ok" => i \in brEnded, SettleCall(i, how),
         UNCHANGED <<brConfig, brMissed, brEnded, brBase>>
  PROVE  ConfigLeads'
<1> DEFINE kind == brCalls[i].kind
           cs == SettledAs(i, how)
           waits == brPending \ {i}
<1>1. /\ brCalls \in Seq(CallEntry) /\ i \in 1..Len(brCalls) /\ Len(brCalls) \in Nat
      /\ OpenWait(brCalls, brPending) /\ OkEnded(brCalls, brEnded) /\ (~brAlive => OnlyHooks(brCalls, brPending))
  BY DEF BridgeInv, OpenWait
<1>2. brCalls[i] \in CallEntry /\ brCalls # <<>>
  BY <1>1
<1>3. OpenWait(cs, waits) /\ Len(cs) = Len(brCalls)
  BY <1>1, ACallIsSettled
<1>4. cs \in Seq(CallEntry) /\ cs # <<>>
  BY <1>1, <1>3 DEF OpenWait
<1>5. LoadIsFirst(cs)
  <2>1. cs = [brCalls EXCEPT ![i] = [brCalls[i] EXCEPT !.is = how]]
    BY DEF SettledAs
  <2>2. \A n \in 1..Len(brCalls) : cs[n].kind = brCalls[n].kind
    BY <1>1, <1>2, <2>1 DEF CallEntry
  <2> HIDE DEF cs
  <2> QED BY <1>3, <2>2 DEF LoadIsFirst, ConfigLeads
<1> HIDE DEF cs
<1>6. CASE kind # brPlugin
  <2>1. brCalls' = cs /\ UNCHANGED <<brPlugin, brDown, brAlive, brRunning>>
    BY <1>6 DEF SettleCall, cs
  <2> QED BY <2>1, <1>4, <1>5 DEF ConfigLeads
<1>7. CASE kind = brPlugin /\ kind \in {"load", "onLoad"} /\ how = "ok"
  <2>1. /\ brPlugin' = Following[kind] /\ PostCall(Following[kind], cs, waits)
        /\ UNCHANGED <<brAlive, brRunning>>
    BY <1>7 DEF SettleCall, cs
  <2>2. Following[kind] \in {"onLoad", "onEnable"}
    BY <1>7 DEF Following
  <2>3. Following[kind] \in CallKind \ {"load"}
    BY <2>2 DEF CallKind, Lifecycle
  <2>4. 1 \in brEnded /\ brPlugin # "off"
    <3>1. CASE kind = "load"
      BY <1>1, <1>7, <3>1 DEF ConfigLeads, LoadIsFirst
    <3>2. CASE kind = "onLoad"
      BY <1>7, <3>2 DEF ConfigLeads
    <3> QED BY <3>1, <3>2, <1>7
  <2> QED BY <2>1, <2>3, <2>4, <1>2, <1>3, <1>4, <1>5, AnotherCall
<1>8. CASE kind = brPlugin /\ kind = "onEnable" /\ how = "ok"
  <2>1. brPlugin' = "enabled" /\ brCalls' = cs /\ UNCHANGED <<brDown, brAlive, brRunning>>
    BY <1>8 DEF SettleCall, cs
  <2> QED BY <2>1, <1>4, <1>5, <1>8 DEF ConfigLeads
<1>9. CASE kind = brPlugin /\ ~(kind \in {"load", "onLoad"} /\ how = "ok") /\ ~(kind = "onEnable" /\ how = "ok")
  <2>1. brPlugin' = "off" /\ Exits(cs, waits)
    BY <1>9 DEF SettleCall, cs
  <2> QED BY <2>1, <1>4, <1>5, AnExitLeaves
<1> QED BY <1>6, <1>7, <1>8, <1>9

-----------------------------------------------------------------------------
LEMMA LeadsAtStart == BridgeInit => ConfigLeads
<1> SUFFICES ASSUME BridgeInit PROVE ConfigLeads
  OBVIOUS
<1>1. LoadIsFirst(<<>>) /\ LoadComesFirst(<<>>, {})
  BY DEF LoadIsFirst, LoadComesFirst
<1> QED BY <1>1 DEF BridgeInit, ConfigLeads

LEMMA ConfigStillLeads == BridgeInv /\ ConfigLeads /\ [BridgeNext]_bridgeVars => ConfigLeads'
<1> SUFFICES ASSUME BridgeInv, ConfigLeads, [BridgeNext]_bridgeVars PROVE ConfigLeads'
  OBVIOUS
<1>t. /\ brPlugin \in {"off", "load", "enabled"} \cup Lifecycle
      /\ brConfig \in Nat /\ brAlive \in BOOLEAN
      /\ brCalls \in Seq(CallEntry) /\ brPending \subseteq 1..Len(brCalls)
      /\ brDown \in Seq(ToWorker) /\ brUp \in Seq(ToHost) /\ TrueResults(brUp, brEnded)
  BY DEF BridgeInv, OpenWait
<1>c. LoadIsFirst(brCalls) /\ LoadComesFirst(brDown, brEnded) /\ (brPlugin # "off" => brCalls # <<>>)
  BY DEF ConfigLeads
<1>1. CASE Enable
  <2>1. /\ brPlugin' = "load" /\ brAlive' = TRUE /\ brCalls = <<>>
        /\ brCalls' = <<[kind |-> "load", is |-> "open"]>>
        /\ brDown' = <<[kind |-> "load", id |-> 1, config |-> brConfig]>>
        /\ UNCHANGED <<brConfig, brMissed, brEnded, brBase, brRunning>>
    BY <1>1 DEF Enable, thread
  <2>2. Len(brDown') = 1 /\ brDown'[1].kind = "load" /\ brDown'[1].id = 1 /\ brDown'[1].config = brConfig
    BY <2>1
  <2>3. Len(brCalls') = 1 /\ brCalls' # <<>>
    BY <2>1
  <2>4. LoadIsFirst(brCalls')
    BY <2>3 DEF LoadIsFirst
  <2>5. 1 \notin brEnded /\ 1 \notin brRunning
    BY <2>1 DEF ConfigLeads
  <2>6. LoadComesFirst(brDown', brEnded')
    BY <2>1, <2>2, <2>5 DEF LoadComesFirst, CarriesOne
  <2>7. LastCarries(brDown', brConfig')
    BY <2>1, <2>2 DEF LastCarries
  <2> QED BY <2>1, <2>3, <2>4, <2>5, <2>6, <2>7 DEF ConfigLeads
<1>2. CASE Disable
  <2>1. UNCHANGED <<brConfig, brMissed, brAlive, brEnded, brBase, brRunning>> /\ brPlugin = "enabled"
    BY <1>2 DEF Disable, thread
  <2>2. CASE brAlive
    <3>1. brPlugin' = "onDisable" /\ PostCall("onDisable", brCalls, brPending)
      BY <1>2, <2>2 DEF Disable
    <3>2. "onDisable" \in CallKind \ {"load"}
      BY DEF CallKind, Lifecycle
    <3>3. 1 \in brEnded /\ brPlugin # "off"
      BY <2>1 DEF ConfigLeads
    <3> QED BY <2>1, <3>1, <3>2, <3>3, <1>t, <1>c, AnotherCall
  <2>3. CASE ~brAlive
    BY <1>2, <2>1, <2>3 DEF Disable, ConfigLeads
  <2> QED BY <2>2, <2>3
<1>3. CASE UpdateConfig
  <2> DEFINE x == [kind |-> "config-change", id |-> 0, config |-> brConfig + 1]
  <2>1. /\ brConfig' = brConfig + 1
        /\ UNCHANGED <<brPlugin, brCalls, brAlive, brEnded, brBase, brRunning>>
        /\ brDown' = IF SendsConfig THEN Append(brDown, x) ELSE brDown
        /\ brMissed' = (brMissed \/ brPlugin \in {"load", "onLoad", "onEnable"})
    BY <1>3 DEF UpdateConfig, thread
  <2>2. x \in ToWorker /\ x.kind # "load" /\ CarriesOne(x) /\ x.config = brConfig + 1
    BY <1>t DEF ToWorker, CarriesOne
  <2> HIDE DEF x
  <2>3. CASE SendsConfig
    <3>1. /\ LoadComesFirst(brDown', brEnded) /\ LastCarries(brDown', brConfig') /\ ~CarriesNone(brDown')
      BY <2>1, <2>2, <2>3, <1>t, <1>c, OneMessageMore
    <3> QED BY <2>1, <3>1 DEF ConfigLeads
  <2>4. CASE ~SendsConfig
    <3>1. brAlive /\ brPlugin # "off" => brPlugin \in {"load", "onLoad", "onEnable"}
      BY <2>4, <1>t DEF SendsConfig, Lifecycle
    <3> QED BY <2>1, <2>4, <3>1 DEF ConfigLeads
  <2> QED BY <2>3, <2>4
<1>4. ASSUME NEW kind \in {"hook", "health"}, Ask(kind) PROVE ConfigLeads'
  <2>1. /\ kind \in CallKind \ {"load"} /\ brPlugin # "off" /\ brCalls # <<>>
        /\ UNCHANGED <<brPlugin, brConfig, brMissed, brAlive, brEnded, brBase, brRunning>>
    BY <1>4, <1>c DEF Ask, CallKind, thread
  <2>2. CASE kind = "health" /\ Dead
    <3> DEFINE c == [kind |-> kind, is |-> "failed"]
    <3>1. brCalls' = Append(brCalls, c) /\ UNCHANGED brDown
      BY <1>4, <2>2 DEF Ask
    <3>2. c \in CallEntry /\ c.kind # "load"
      BY <2>1 DEF CallEntry
    <3> HIDE DEF c
    <3>3. /\ Len(brCalls') = Len(brCalls) + 1 /\ brCalls'[Len(brCalls) + 1] = c /\ Len(brCalls) \in Nat
          /\ \A n \in 1..Len(brCalls) : brCalls'[n] = brCalls[n]
      BY <3>1, <3>2, <1>t
    <3>4. LoadIsFirst(brCalls')
      BY <3>2, <3>3, <1>c DEF LoadIsFirst
    <3>5. brCalls' # <<>>
      BY <3>3
    <3> QED BY <2>1, <3>1, <3>4, <3>5 DEF ConfigLeads
  <2>3. CASE ~(kind = "health" /\ Dead)
    <3>1. PostCall(kind, brCalls, brPending)
      BY <1>4, <2>3 DEF Ask
    <3>2. brPlugin' \notin {"off", "load"} => 1 \in brEnded
      BY <2>1 DEF ConfigLeads
    <3> QED BY <2>1, <3>1, <3>2, <1>t, <1>c, AnotherCall
  <2> QED BY <2>2, <2>3
<1>5. CASE Result
  <2>1. /\ brUp # <<>> /\ Head(brUp).kind = "result"
        /\ UNCHANGED <<brConfig, brMissed, brEnded, brBase>>
    BY <1>5 DEF Result
  <2>2. /\ Head(brUp) \in ToHost
        /\ Head(brUp).kind = "result" /\ Head(brUp).ok => Head(brUp).id \in brEnded
    BY <2>1, <1>t, TheRestIsTrue
  <2>3. CASE WaitsFor(Head(brUp).id) = {}
    <3>1. UNCHANGED <<brPlugin, brCalls, brPending, brDown, brAlive, brRunning>>
      BY <1>5, <2>3 DEF Result
    <3> QED BY <2>1, <3>1 DEF ConfigLeads
  <2>4. CASE WaitsFor(Head(brUp).id) # {}
    <3>1. PICK w \in WaitsFor(Head(brUp).id) : SettleCall(w, IF Head(brUp).ok THEN "ok" ELSE "failed")
      BY <1>5, <2>4 DEF Result
    <3>2. w \in brPending /\ w = Head(brUp).id
      BY DEF WaitsFor
    <3> DEFINE how == IF Head(brUp).ok THEN "ok" ELSE "failed"
    <3>3. how \in {"ok", "failed", "late"} /\ (how = "ok" => w \in brEnded) /\ SettleCall(w, how)
      BY <2>1, <2>2, <3>1, <3>2
    <3> HIDE DEF how
    <3> QED BY <2>1, <3>2, <3>3, SettlingLeads
  <2> QED BY <2>3, <2>4
<1>6. ASSUME NEW i \in Id, CallTimesOut(i) PROVE ConfigLeads'
  <2>1. /\ i \in brPending /\ SettleCall(i, "late")
        /\ UNCHANGED <<brConfig, brMissed, brEnded, brBase>>
    BY <1>6 DEF CallTimesOut
  <2>2. "late" \in {"ok", "failed", "late"} /\ ("late" = "ok" => i \in brEnded)
    OBVIOUS
  <2> QED BY <2>1, <2>2, SettlingLeads
<1>7. CASE Capability
  BY <1>7 DEF Capability, bridgeHost, thread, ConfigLeads
<1>8. CASE ThreadExits
  <2>1. /\ Exits(brCalls, brPending) /\ UNCHANGED brEnded /\ brPlugin' \in {"off", brPlugin}
    BY <1>8 DEF ThreadExits
  <2>2. brCalls # <<>>
    BY <1>8 DEF ThreadExits, ConfigLeads
  <2> QED BY <2>1, <2>2, <1>t, <1>c, AnExitLeaves
<1>9. CASE Loads
  <2> DEFINE d == Head(brDown)
  <2>1. /\ brDown # <<>> /\ d.kind = "load" /\ brDown' = Tail(brDown) /\ UNCHANGED <<bridgeHost, brAlive, brRunning>>
        /\ \/ brBase' = d.config /\ brEnded' = brEnded \cup {d.id}
           \/ UNCHANGED <<brBase, brEnded>>
    BY <1>9 DEF Loads
  <2>2. /\ LastCarries(brDown, brConfig) => LastCarries(brDown', brConfig)
        /\ LastCarries(brDown, brConfig) /\ CarriesNone(brDown') => d.config = brConfig
        /\ LoadComesFirst(brDown', brEnded')
        /\ d.id = 1 /\ 1 \notin brEnded
    BY <2>1, <1>t, <1>c, OneMessageLess DEF CarriesOne
  <2> HIDE DEF d
  <2>3. UNCHANGED <<brPlugin, brConfig, brMissed, brCalls, brAlive, brRunning>>
    BY <2>1 DEF bridgeHost
  <2>4. LoadIsFirst(brCalls') /\ LoadComesFirst(brDown', brEnded') /\ 1 \notin brRunning'
    BY <2>2, <2>3, <1>c DEF ConfigLeads
  <2>5. brCalls' # <<>>
    BY <1>9, <2>3, <1>t DEF Loads, ConfigLeads
  <2>6. brPlugin' \notin {"off", "load"} => 1 \in brEnded'
    BY <2>1, <2>3 DEF ConfigLeads
  <2>7. ASSUME brAlive', brPlugin' # "off", brMissed' = FALSE
        PROVE  /\ LastCarries(brDown', brConfig')
               /\ CarriesNone(brDown') /\ 1 \in brEnded' => brBase' = brConfig'
    <3>1. LastCarries(brDown, brConfig)
      BY <2>3, <2>7 DEF ConfigLeads
    <3>2. LastCarries(brDown', brConfig') /\ (CarriesNone(brDown') => d.config = brConfig)
      BY <2>2, <2>3, <3>1
    <3>3. 1 \in brEnded' => brBase' = d.config
      BY <2>1, <2>2
    <3> QED BY <2>3, <3>2, <3>3
  <2> QED BY <2>4, <2>5, <2>6, <2>7 DEF ConfigLeads
<1>10. CASE Starts
  <2>1. /\ brDown # <<>> /\ ~CarriesOne(Head(brDown)) /\ brDown' = Tail(brDown)
        /\ brRunning' = brRunning \cup {Head(brDown).id} /\ UNCHANGED <<bridgeHost, brAlive, brEnded, brBase>>
    BY <1>10 DEF Starts, CarriesOne, CallKind, Lifecycle
  <2>2. /\ LastCarries(brDown, brConfig) => LastCarries(brDown', brConfig)
        /\ CarriesNone(brDown') => CarriesNone(brDown)
        /\ LoadComesFirst(brDown', brEnded) /\ Head(brDown).id # 1
    BY <2>1, <1>t, <1>c, OneMessageLess
  <2> QED BY <2>1, <2>2 DEF ConfigLeads, bridgeHost
<1>11. CASE ConfigChanges
  <2>1. /\ brDown # <<>> /\ CarriesOne(Head(brDown)) /\ brDown' = Tail(brDown)
        /\ brBase' = Head(brDown).config /\ UNCHANGED <<bridgeHost, brAlive, brEnded, brRunning>>
    BY <1>11 DEF ConfigChanges, CarriesOne
  <2>2. /\ LastCarries(brDown, brConfig) => LastCarries(brDown', brConfig)
        /\ LastCarries(brDown, brConfig) /\ CarriesNone(brDown') => Head(brDown).config = brConfig
        /\ LoadComesFirst(brDown', brEnded)
    BY <2>1, <1>t, <1>c, OneMessageLess
  <2> QED BY <2>1, <2>2 DEF ConfigLeads, bridgeHost
<1>12. CASE AsksHost
  BY <1>12 DEF AsksHost, bridgeHost, ConfigLeads
<1>13. ASSUME NEW i \in Id, Ends(i) PROVE ConfigLeads'
  <2>1. /\ UNCHANGED <<bridgeHost, brDown, brAlive, brBase>> /\ i \in brRunning /\ brRunning' = brRunning \ {i}
        /\ brEnded' \in {brEnded, brEnded \cup {i}}
    BY <1>13 DEF Ends
  <2>2. i # 1 /\ (1 \in brEnded' <=> 1 \in brEnded)
    BY <2>1 DEF ConfigLeads
  <2>3. LoadComesFirst(brDown, brEnded')
    BY <2>2, <1>c DEF LoadComesFirst
  <2> QED BY <2>1, <2>2, <2>3 DEF ConfigLeads, bridgeHost
<1>14. CASE UNCHANGED bridgeVars
  BY <1>14 DEF bridgeVars, thread, ConfigLeads
<1> QED BY <1>1, <1>2, <1>3, <1>4, <1>5, <1>6, <1>7, <1>8, <1>9, <1>10, <1>11, <1>12, <1>13, <1>14
        DEF BridgeNext

\* Whichever updates, calls and answers cross, a worker to which nothing is on its way
\* has the plugin's configuration, unless it was updated while the plugin was enabled.
THEOREM TheConfigArrives == BridgeSpec => []ConfigArrives
<1>1. BridgeInv /\ ConfigLeads => ConfigArrives
  <2> SUFFICES ASSUME BridgeInv, ConfigLeads, brPlugin = "enabled", brAlive, brDown = <<>>, ~brMissed
               PROVE  brBase = brConfig
    BY DEF ConfigArrives
  <2>1. CarriesNone(brDown)
    BY DEF CarriesNone
  <2> QED BY <2>1 DEF ConfigLeads
<1> QED BY <1>1, BridgeStarts, BridgeKeeps, LeadsAtStart, ConfigStillLeads, PTL DEF BridgeSpec

-----------------------------------------------------------------------------
(* The rest of the bridge's type: ids that are there, counters in bounds.  *)

\* A message to the worker is of a call that was made and carries a configuration
\* there was.
OfACall(m, n) == m.config \in 0..MaxConfig /\ (m.kind # "config-change" => m.id \in 1..n)
AllOfCalls(down, n) == \A k \in 1..Len(down) : OfACall(down[k], n)

\* The capabilities on their way to the host are numbered between those it carried
\* out and those that were asked for.
Numbering(f, up) ==
  /\ \A m, n \in 0..Len(up) : m <= n => f[m] <= f[n]
  /\ \A n \in 1..Len(up) : up[n].kind = "cap" => f[n - 1] < f[n]
Numbered(up, done, asked) == \E f \in [0..Len(up) -> done..asked] : Numbering(f, up)

BridgeFits ==
  /\ brConfig \in 0..MaxConfig /\ brBase \in 0..MaxConfig
  /\ AllOfCalls(brDown, Len(brCalls))
  /\ brRunning \subseteq 1..Len(brCalls) /\ brEnded \subseteq 1..Len(brCalls)
BridgeCounts == brAsked \in 0..MaxAsks /\ brDone \in 0..brAsked /\ Numbered(brUp, brDone, brAsked)

-----------------------------------------------------------------------------
LEMMA NoneNumbered ==
  ASSUME NEW asked \in Nat, NEW done \in 0..asked
  PROVE  Numbered(<<>>, done, asked)
<1> DEFINE f == [n \in 0..0 |-> done]
<1>1. Len(<<>>) = 0 /\ done \in done..asked
  OBVIOUS
<1>2. f \in [0..Len(<<>>) -> done..asked]
  BY <1>1
<1>3. Numbering(f, <<>>)
  BY <1>1 DEF Numbering
<1> QED BY <1>2, <1>3 DEF Numbered

LEMMA OneCarriedOut ==
  ASSUME NEW asked \in Nat, NEW done \in 0..asked, NEW up \in Seq(ToHost), up # <<>>,
         Numbered(up, done, asked)
  PROVE  /\ Numbered(Tail(up), done, asked)
         /\ Head(up).kind = "cap" => done + 1 \in 0..asked /\ Numbered(Tail(up), done + 1, asked)
<1>1. PICK f \in [0..Len(up) -> done..asked] : Numbering(f, up)
  BY DEF Numbered
<1> DEFINE s == Tail(up)
           k == Len(up)
<1>2. /\ Head(up) = up[1] /\ Len(s) = k - 1 /\ k \in Nat /\ k >= 1
      /\ \A n \in 1..k - 1 : s[n] = up[n + 1]
  BY TheFirstIsTaken
<1> HIDE DEF s
<1> DEFINE g == [n \in 0..k - 1 |-> f[n + 1]]
<1>3. \A n \in 0..k - 1 : n + 1 \in 0..k /\ g[n] = f[n + 1]
  BY <1>2
<1>4. \A n \in 1..k - 1 : n - 1 \in 0..k - 1 /\ (n - 1) + 1 = n
  BY <1>2
<1>5. g \in [0..Len(s) -> done..asked]
  BY <1>1, <1>2, <1>3
<1>6. Numbering(g, s)
  <2>1. ASSUME NEW m \in 0..Len(s), NEW n \in 0..Len(s), m <= n PROVE g[m] <= g[n]
    <3>1. m + 1 \in 0..k /\ n + 1 \in 0..k /\ m + 1 <= n + 1
      BY <1>2, <2>1
    <3>2. g[m] = f[m + 1] /\ g[n] = f[n + 1]
      BY <1>2, <1>3
    <3> HIDE DEF g
    <3> QED BY <1>1, <3>1, <3>2 DEF Numbering
  <2>2. ASSUME NEW n \in 1..Len(s), s[n].kind = "cap" PROVE g[n - 1] < g[n]
    <3>1. n + 1 \in 1..k /\ (n + 1) - 1 = n /\ s[n] = up[n + 1]
      BY <1>2
    <3>2. f[(n + 1) - 1] < f[n + 1]
      BY <1>1, <2>2, <3>1 DEF Numbering
    <3>3. g[n - 1] = f[n] /\ g[n] = f[n + 1]
      BY <1>2, <1>3, <1>4
    <3> HIDE DEF g
    <3> QED BY <3>1, <3>2, <3>3
  <2> HIDE DEF g
  <2> QED BY <2>1, <2>2 DEF Numbering
<1>7. ASSUME Head(up).kind = "cap"
      PROVE  done + 1 \in 0..asked /\ g \in [0..Len(s) -> done + 1..asked]
  <2>1. 1 \in 1..k /\ 1 - 1 = 0 /\ 0 \in 0..k /\ 1 \in 0..k
    BY <1>2
  <2>2. f[0] < f[1] /\ f[0] \in done..asked /\ f[1] \in done..asked
    BY <1>1, <1>2, <1>7, <2>1 DEF Numbering
  <2>3. ASSUME NEW n \in 0..k - 1 PROVE g[n] \in done + 1..asked
    <3>1. n + 1 \in 0..k /\ 1 <= n + 1
      BY <1>2
    <3>2. f[1] <= f[n + 1] /\ f[n + 1] \in done..asked
      BY <1>1, <2>1, <3>1 DEF Numbering
    <3>3. f[n + 1] \in done + 1..asked
      BY <2>2, <3>2
    <3> QED BY <1>3, <3>3
  <2>4. done + 1 \in 0..asked
    BY <2>2
  <2> QED BY <1>2, <2>3, <2>4
<1> QED BY <1>5, <1>6, <1>7 DEF Numbered, s

LEMMA OneMoreNumbered ==
  ASSUME NEW asked \in Nat, NEW done \in 0..asked, NEW up \in Seq(ToHost), NEW x \in ToHost,
         Numbered(up, done, asked)
  PROVE  /\ x.kind # "cap" => Numbered(Append(up, x), done, asked)
         /\ Numbered(Append(up, x), done, asked + 1)
<1>1. PICK f \in [0..Len(up) -> done..asked] : Numbering(f, up)
  BY DEF Numbered
<1> DEFINE s == Append(up, x)
           k == Len(up)
<1>2. /\ k \in Nat /\ Len(s) = k + 1 /\ s[k + 1] = x /\ \A n \in 1..k : s[n] = up[n]
  OBVIOUS
<1> HIDE DEF s
<1>3. ASSUME NEW top \in Nat, NEW most \in Nat, top \in f[k]..most, asked <= most,
             x.kind = "cap" => f[k] < top
      PROVE  Numbered(s, done, most)
  <2> DEFINE g == [n \in 0..k + 1 |-> IF n = k + 1 THEN top ELSE f[n]]
  <2>1. \A n \in 0..k : n \in 0..k + 1 /\ n # k + 1
    BY <1>2
  <2>2. g[k + 1] = top /\ \A n \in 0..k : g[n] = f[n]
    BY <1>2, <2>1
  <2>3. \A n \in 0..k : f[n] \in done..asked /\ f[n] <= f[k]
    BY <1>1, <1>2 DEF Numbering
  <2>4. f[k] \in done..asked
    BY <1>2, <2>3
  <2>5. top \in done..most /\ done..asked \subseteq done..most
    BY <1>3, <2>4
  <2>6. \A n \in 0..k + 1 : g[n] \in done..most
    BY <1>2, <2>2, <2>3, <2>5
  <2>9. g \in [0..Len(s) -> done..most]
    BY <1>2, <2>6
  <2> HIDE DEF g
  <2>7. ASSUME NEW m \in 0..Len(s), NEW n \in 0..Len(s), m <= n PROVE g[m] <= g[n]
    <3>1. CASE n = k + 1 /\ m # k + 1
      <4>1. m \in 0..k
        BY <1>2, <3>1
      <4>2. f[m] \in done..asked /\ f[m] <= f[k]
        BY <2>3, <4>1
      <4> QED BY <1>3, <2>2, <2>4, <3>1, <4>1, <4>2
    <3>2. CASE n = k + 1 /\ m = k + 1
      BY <2>2, <3>2
    <3>3. CASE n # k + 1
      <4>1. m \in 0..k /\ n \in 0..k
        BY <1>2, <2>7, <3>3
      <4> QED BY <1>1, <2>2, <2>7, <4>1 DEF Numbering
    <3> QED BY <3>1, <3>2, <3>3
  <2>8. ASSUME NEW n \in 1..Len(s), s[n].kind = "cap" PROVE g[n - 1] < g[n]
    <3>1. CASE n = k + 1
      <4>1. n - 1 = k /\ k \in 0..k
        BY <1>2, <3>1
      <4> QED BY <1>2, <1>3, <2>2, <2>8, <3>1, <4>1
    <3>2. CASE n # k + 1
      <4>1. n \in 1..k /\ n - 1 \in 0..k /\ n \in 0..k
        BY <1>2, <3>2
      <4> QED BY <1>1, <1>2, <2>2, <2>8, <4>1 DEF Numbering
    <3> QED BY <3>1, <3>2
  <2> QED BY <2>7, <2>8, <2>9 DEF Numbered, Numbering
<1>4. f[k] \in done..asked /\ k \in 0..k
  BY <1>1, <1>2
<1>5. x.kind # "cap" => Numbered(s, done, asked)
  BY <1>3, <1>4
<1>6. Numbered(s, done, asked + 1)
  <2>1. asked + 1 \in Nat /\ asked + 1 \in f[k]..asked + 1 /\ asked <= asked + 1 /\ f[k] < asked + 1
    BY <1>4
  <2> QED BY <1>3, <2>1
<1> QED BY <1>5, <1>6 DEF s

-----------------------------------------------------------------------------
LEMMA FewerFit ==
  ASSUME NEW down \in Seq(ToWorker), down # <<>>, NEW n, AllOfCalls(down, n)
  PROVE  AllOfCalls(Tail(down), n) /\ OfACall(Head(down), n)
<1>1. /\ Head(down) = down[1] /\ 1 \in 1..Len(down) /\ Len(Tail(down)) = Len(down) - 1
      /\ \A k \in 1..Len(down) - 1 : Tail(down)[k] = down[k + 1]
  BY TheFirstIsTaken
<1> DEFINE s == Tail(down)
<1>2. /\ Head(down) = down[1] /\ 1 \in 1..Len(down) /\ Len(s) = Len(down) - 1 /\ Len(down) \in Nat
      /\ \A k \in 1..Len(s) : s[k] = down[k + 1] /\ k + 1 \in 1..Len(down)
  BY <1>1
<1> HIDE DEF s
<1> QED BY <1>2 DEF AllOfCalls, s

LEMMA OneMoreFits ==
  ASSUME NEW down \in Seq(ToWorker), NEW n \in Nat, NEW more \in Nat, n <= more, AllOfCalls(down, n),
         NEW x \in ToWorker, OfACall(x, more)
  PROVE  AllOfCalls(down, more) /\ AllOfCalls(Append(down, x), more)
<1>1. AllOfCalls(down, more)
  <2>1. 1..n \subseteq 1..more
    OBVIOUS
  <2> QED BY <2>1 DEF AllOfCalls, OfACall
<1> DEFINE s == Append(down, x)
           k == Len(down)
<1>2. /\ k \in Nat /\ Len(s) = k + 1 /\ s[k + 1] = x /\ \A m \in 1..k : s[m] = down[m]
  OBVIOUS
<1> HIDE DEF s
<1>3. ASSUME NEW m \in 1..Len(s) PROVE OfACall(s[m], more)
  <2>1. CASE m = k + 1
    BY <1>2, <2>1
  <2>2. CASE m # k + 1
    BY <1>1, <1>2, <2>2 DEF AllOfCalls
  <2> QED BY <2>1, <2>2
<1>4. AllOfCalls(s, more)
  BY <1>3 DEF AllOfCalls
<1> QED BY <1>1, <1>4 DEF s

\* One more call: its message has its id.
LEMMA ThePostedFits ==
  ASSUME BridgeInv, BridgeFits, NEW kind \in CallKind, NEW cs \in Seq(CallEntry), Len(cs) = Len(brCalls),
         NEW waits, PostCall(kind, cs, waits)
  PROVE  Len(brCalls') = Len(brCalls) + 1 /\ AllOfCalls(brDown', Len(brCalls'))
<1>1. brDown \in Seq(ToWorker) /\ brCalls \in Seq(CallEntry) /\ brConfig \in Nat
  BY DEF BridgeInv, OpenWait
<1> DEFINE c == [kind |-> kind, is |-> "open"]
           x == [kind |-> kind, id |-> NextId, config |-> brConfig]
<1>2. c \in CallEntry
  BY DEF CallEntry
<1>3. brCalls' = Append(cs, c) /\ brDown' = IF brAlive THEN Append(brDown, x) ELSE brDown
  BY DEF PostCall, Posted
<1>4. Len(brCalls) \in Nat /\ Len(brCalls') = Len(brCalls) + 1 /\ NextId = Len(brCalls) + 1
  BY <1>1, <1>2, <1>3 DEF NextId
<1>5. x \in ToWorker /\ OfACall(x, Len(brCalls'))
  BY <1>1, <1>4 DEF ToWorker, OfACall, BridgeFits
<1> HIDE DEF x
<1>6. AllOfCalls(brDown, Len(brCalls'))  /\ AllOfCalls(Append(brDown, x), Len(brCalls'))
  BY <1>1, <1>4, <1>5, OneMoreFits DEF BridgeFits
<1> QED BY <1>3, <1>4, <1>6

LEMMA AnExitFits ==
  ASSUME NEW cs \in Seq(CallEntry), NEW waits, Exits(cs, waits)
  PROVE  Len(brCalls') = Len(cs) /\ brDown' = <<>> /\ brRunning' = {} /\ brUp' = <<>>
<1>1. DOMAIN cs = 1..Len(cs) /\ Len(cs) \in Nat
  OBVIOUS
<1>2. brCalls' = [i \in 1..Len(cs) |->
                   IF i \in waits /\ cs[i].kind # "hook" THEN [cs[i] EXCEPT !.is = "failed"] ELSE cs[i]]
  BY <1>1 DEF Exits
<1>3. Len(brCalls') = Len(cs)
  BY <1>1, <1>2
<1> QED BY <1>3 DEF Exits

LEMMA SettlingFits ==
  ASSUME BridgeInv, BridgeFits, NEW i \in brPending, NEW how \in {"ok", "failed", "late"},
         how = "ok" => i \in brEnded, SettleCall(i, how)
  PROVE  /\ Len(brCalls') \in {Len(brCalls), Len(brCalls) + 1} /\ AllOfCalls(brDown', Len(brCalls'))
         /\ brRunning' \in {brRunning, {}}
<1> DEFINE kind == brCalls[i].kind
           cs == SettledAs(i, how)
           waits == brPending \ {i}
<1>1. OpenWait(brCalls, brPending) /\ OkEnded(brCalls, brEnded)
  BY DEF BridgeInv
<1>2. cs \in Seq(CallEntry) /\ Len(cs) = Len(brCalls)
  BY <1>1, ACallIsSettled DEF OpenWait
<1>3. AllOfCalls(brDown, Len(brCalls)) /\ AllOfCalls(<<>>, Len(brCalls))
  BY DEF BridgeFits, AllOfCalls
<1> HIDE DEF cs
<1>4. CASE kind # brPlugin
  <2>1. brCalls' = cs /\ UNCHANGED <<brDown, brRunning>>
    BY <1>4 DEF SettleCall, cs
  <2> QED BY <2>1, <1>2, <1>3
<1>5. CASE kind = brPlugin /\ kind \in {"load", "onLoad"} /\ how = "ok"
  <2>1. PostCall(Following[kind], cs, waits) /\ UNCHANGED brRunning
    BY <1>5 DEF SettleCall, cs
  <2>2. Following[kind] \in CallKind
    BY <1>5 DEF Following, CallKind, Lifecycle
  <2> QED BY <2>1, <2>2, <1>2, ThePostedFits
<1>6. CASE kind = brPlugin /\ kind = "onEnable" /\ how = "ok"
  <2>1. brCalls' = cs /\ UNCHANGED <<brDown, brRunning>>
    BY <1>6 DEF SettleCall, cs
  <2> QED BY <2>1, <1>2, <1>3
<1>7. CASE kind = brPlugin /\ ~(kind \in {"load", "onLoad"} /\ how = "ok") /\ ~(kind = "onEnable" /\ how = "ok")
  <2>1. Exits(cs, waits)
    BY <1>7 DEF SettleCall, cs
  <2> QED BY <2>1, <1>2, <1>3, AnExitFits
<1> QED BY <1>4, <1>5, <1>6, <1>7

-----------------------------------------------------------------------------
LEMMA FitsAtStart == BridgeInit => BridgeFits /\ BridgeCounts
<1> SUFFICES ASSUME BridgeInit PROVE BridgeFits /\ BridgeCounts
  OBVIOUS
<1>1. AllOfCalls(<<>>, Len(<<>>)) /\ 0 \in 0..MaxConfig /\ 0 \in 0..MaxAsks /\ 0 \in 0..0
  BY BridgeAssumption DEF AllOfCalls
<1>2. Numbered(<<>>, 0, 0)
  BY <1>1, NoneNumbered
<1> QED BY <1>1, <1>2 DEF BridgeInit, BridgeFits, BridgeCounts

\* Where the calls are as many or one more, what was below their number still is.
LEMMA MoreCallsFit ==
  ASSUME BridgeFits, NEW n \in Nat, Len(brCalls) = n, Len(brCalls') \in {n, n + 1},
         AllOfCalls(brDown', Len(brCalls')), brRunning' \in {brRunning, {}},
         UNCHANGED <<brConfig, brBase, brEnded>>
  PROVE  BridgeFits'
<1>1. 1..n \subseteq 1..Len(brCalls')
  OBVIOUS
<1>2. brRunning \subseteq 1..n /\ brEnded \subseteq 1..n
  BY DEF BridgeFits
<1> QED BY <1>1, <1>2 DEF BridgeFits

LEMMA FitsKeep == BridgeInv /\ BridgeFits /\ [BridgeNext]_bridgeVars => BridgeFits'
<1> SUFFICES ASSUME BridgeInv, BridgeFits, [BridgeNext]_bridgeVars PROVE BridgeFits'
  OBVIOUS
<1>t. /\ brConfig \in Nat /\ brCalls \in Seq(CallEntry) /\ Len(brCalls) \in Nat
      /\ brDown \in Seq(ToWorker) /\ brUp \in Seq(ToHost) /\ TrueResults(brUp, brEnded)
      /\ OpenWait(brCalls, brPending)
  BY DEF BridgeInv, OpenWait
<1>f. AllOfCalls(brDown, Len(brCalls)) /\ brConfig \in 0..MaxConfig
  BY DEF BridgeFits
<1>1. CASE Enable
  <2>1. /\ brCalls = <<>> /\ brCalls' = <<[kind |-> "load", is |-> "open"]>>
        /\ brDown' = <<[kind |-> "load", id |-> 1, config |-> brConfig]>>
        /\ UNCHANGED <<brConfig, brEnded, brBase, brRunning>>
    BY <1>1 DEF Enable, thread
  <2>2. Len(brDown') = 1 /\ brDown'[1].id = 1 /\ brDown'[1].config = brConfig /\ Len(brCalls') = 1 /\ Len(brCalls) = 0
    BY <2>1
  <2>3. AllOfCalls(brDown', Len(brCalls'))
    BY <2>2, <1>f DEF AllOfCalls, OfACall
  <2> QED BY <2>1, <2>2, <2>3, <1>t, MoreCallsFit
<1>2. CASE Disable
  <2>1. UNCHANGED <<brConfig, brEnded, brBase, brRunning>>
    BY <1>2 DEF Disable, thread
  <2>2. CASE brAlive
    <3>1. PostCall("onDisable", brCalls, brPending) /\ "onDisable" \in CallKind
      BY <1>2, <2>2 DEF Disable, CallKind, Lifecycle
    <3>2. Len(brCalls') = Len(brCalls) + 1 /\ AllOfCalls(brDown', Len(brCalls'))
      BY <3>1, <1>t, ThePostedFits
    <3> QED BY <2>1, <3>2, <1>t, MoreCallsFit
  <2>3. CASE ~brAlive
    BY <1>2, <2>1, <2>3 DEF Disable, BridgeFits
  <2> QED BY <2>2, <2>3
<1>3. CASE UpdateConfig
  <2> DEFINE x == [kind |-> "config-change", id |-> 0, config |-> brConfig + 1]
  <2>1. /\ brConfig < MaxConfig /\ brConfig' = brConfig + 1
        /\ UNCHANGED <<brCalls, brEnded, brBase, brRunning>>
        /\ brDown' = IF SendsConfig THEN Append(brDown, x) ELSE brDown
    BY <1>3 DEF UpdateConfig, thread
  <2>2. brConfig' \in 0..MaxConfig
    BY <2>1, <1>f, BridgeAssumption
  <2>3. x \in ToWorker /\ OfACall(x, Len(brCalls))
    BY <2>1, <2>2, <1>t DEF ToWorker, OfACall
  <2> HIDE DEF x
  <2>4. AllOfCalls(brDown', Len(brCalls))
    BY <2>1, <2>3, <1>t, <1>f, OneMoreFits
  <2> QED BY <2>1, <2>2, <2>4 DEF BridgeFits
<1>4. ASSUME NEW kind \in {"hook", "health"}, Ask(kind) PROVE BridgeFits'
  <2>1. UNCHANGED <<brConfig, brEnded, brBase, brRunning>> /\ kind \in CallKind
    BY <1>4 DEF Ask, CallKind, thread
  <2>2. CASE kind = "health" /\ Dead
    <3> DEFINE c == [kind |-> kind, is |-> "failed"]
    <3>1. brCalls' = Append(brCalls, c) /\ UNCHANGED brDown
      BY <1>4, <2>2 DEF Ask
    <3>2. c \in CallEntry
      BY <2>1 DEF CallEntry
    <3> HIDE DEF c
    <3>3. Len(brCalls') = Len(brCalls) + 1
      BY <3>1, <3>2, <1>t
    <3>4. 1..Len(brCalls) \subseteq 1..Len(brCalls')
      BY <3>3, <1>t
    <3>5. AllOfCalls(brDown', Len(brCalls'))
      BY <3>1, <3>4, <1>f DEF AllOfCalls, OfACall
    <3> QED BY <2>1, <3>3, <3>5, <1>t, MoreCallsFit
  <2>3. CASE ~(kind = "health" /\ Dead)
    <3>1. PostCall(kind, brCalls, brPending)
      BY <1>4, <2>3 DEF Ask
    <3>2. Len(brCalls') = Len(brCalls) + 1 /\ AllOfCalls(brDown', Len(brCalls'))
      BY <2>1, <3>1, <1>t, ThePostedFits
    <3> QED BY <2>1, <3>2, <1>t, MoreCallsFit
  <2> QED BY <2>2, <2>3
<1>5. CASE Result
  <2>1. /\ brUp # <<>> /\ Head(brUp).kind = "result" /\ UNCHANGED <<brConfig, brEnded, brBase>>
    BY <1>5 DEF Result
  <2>2. Head(brUp).kind = "result" /\ Head(brUp).ok => Head(brUp).id \in brEnded
    BY <2>1, <1>t, TheRestIsTrue
  <2>3. CASE WaitsFor(Head(brUp).id) = {}
    <3>1. UNCHANGED <<brCalls, brDown, brRunning>>
      BY <1>5, <2>3 DEF Result
    <3> QED BY <2>1, <3>1 DEF BridgeFits
  <2>4. CASE WaitsFor(Head(brUp).id) # {}
    <3>1. PICK w \in WaitsFor(Head(brUp).id) : SettleCall(w, IF Head(brUp).ok THEN "ok" ELSE "failed")
      BY <1>5, <2>4 DEF Result
    <3>2. w \in brPending /\ w = Head(brUp).id
      BY DEF WaitsFor
    <3> DEFINE how == IF Head(brUp).ok THEN "ok" ELSE "failed"
    <3>3. how \in {"ok", "failed", "late"} /\ (how = "ok" => w \in brEnded) /\ SettleCall(w, how)
      BY <2>1, <2>2, <3>1, <3>2
    <3> HIDE DEF how
    <3>4. /\ Len(brCalls') \in {Len(brCalls), Len(brCalls) + 1} /\ AllOfCalls(brDown', Len(brCalls'))
          /\ brRunning' \in {brRunning, {}}
      BY <3>2, <3>3, SettlingFits
    <3> QED BY <2>1, <3>4, <1>t, MoreCallsFit
  <2> QED BY <2>3, <2>4
<1>6. ASSUME NEW i \in Id, CallTimesOut(i) PROVE BridgeFits'
  <2>1. i \in brPending /\ SettleCall(i, "late") /\ UNCHANGED <<brConfig, brEnded, brBase>>
    BY <1>6 DEF CallTimesOut
  <2>2. "late" \in {"ok", "failed", "late"} /\ ("late" = "ok" => i \in brEnded)
    OBVIOUS
  <2>3. /\ Len(brCalls') \in {Len(brCalls), Len(brCalls) + 1} /\ AllOfCalls(brDown', Len(brCalls'))
        /\ brRunning' \in {brRunning, {}}
    BY <2>1, <2>2, SettlingFits
  <2> QED BY <2>1, <2>3, <1>t, MoreCallsFit
<1>7. CASE Capability
  BY <1>7 DEF Capability, bridgeHost, thread, BridgeFits
<1>8. CASE ThreadExits
  <2>1. Exits(brCalls, brPending) /\ UNCHANGED <<brConfig, brEnded, brBase>>
    BY <1>8 DEF ThreadExits
  <2>2. Len(brCalls') = Len(brCalls) /\ brDown' = <<>> /\ brRunning' = {}
    BY <2>1, <1>t, AnExitFits
  <2>3. AllOfCalls(brDown', Len(brCalls'))
    BY <2>2 DEF AllOfCalls
  <2> QED BY <2>1, <2>2, <2>3, <1>t, MoreCallsFit
<1>9. CASE Loads
  <2> DEFINE d == Head(brDown)
  <2>1. /\ brDown # <<>> /\ d.kind = "load" /\ brDown' = Tail(brDown)
        /\ UNCHANGED <<brConfig, brCalls, brRunning>>
        /\ \/ brBase' = d.config /\ brEnded' = brEnded \cup {d.id}
           \/ UNCHANGED <<brBase, brEnded>>
    BY <1>9 DEF Loads, bridgeHost
  <2>2. AllOfCalls(brDown', Len(brCalls)) /\ OfACall(d, Len(brCalls))
    BY <2>1, <1>t, <1>f, FewerFit
  <2> HIDE DEF d
  <2>3. d.config \in 0..MaxConfig /\ d.id \in 1..Len(brCalls)
    BY <2>1, <2>2 DEF OfACall
  <2> QED BY <2>1, <2>2, <2>3 DEF BridgeFits
<1>10. CASE Starts \/ ConfigChanges
  <2> DEFINE d == Head(brDown)
  <2>1. /\ brDown # <<>> /\ brDown' = Tail(brDown)
        /\ UNCHANGED <<brConfig, brCalls, brEnded>>
        /\ \/ d.kind \in CallKind /\ brRunning' = brRunning \cup {d.id} /\ UNCHANGED brBase
           \/ brBase' = d.config /\ UNCHANGED brRunning
    BY <1>10 DEF Starts, ConfigChanges, bridgeHost
  <2>2. AllOfCalls(brDown', Len(brCalls)) /\ OfACall(d, Len(brCalls))
    BY <2>1, <1>t, <1>f, FewerFit
  <2> HIDE DEF d
  <2>3. d.config \in 0..MaxConfig /\ (d.kind \in CallKind => d.id \in 1..Len(brCalls))
    BY <2>2 DEF OfACall, CallKind, Lifecycle
  <2> QED BY <2>1, <2>2, <2>3 DEF BridgeFits
<1>11. CASE AsksHost
  BY <1>11 DEF AsksHost, bridgeHost, BridgeFits
<1>12. ASSUME NEW i \in Id, Ends(i) PROVE BridgeFits'
  BY <1>12 DEF Ends, bridgeHost, BridgeFits
<1>13. CASE UNCHANGED bridgeVars
  BY <1>13 DEF bridgeVars, BridgeFits
<1> QED BY <1>1, <1>2, <1>3, <1>4, <1>5, <1>6, <1>7, <1>8, <1>9, <1>10, <1>11, <1>12, <1>13
        DEF BridgeNext

LEMMA CountsKeep == BridgeInv /\ BridgeCounts /\ [BridgeNext]_bridgeVars => BridgeCounts'
<1> SUFFICES ASSUME BridgeInv, BridgeCounts, [BridgeNext]_bridgeVars PROVE BridgeCounts'
  OBVIOUS
<1>t. brUp \in Seq(ToHost) /\ brDown \in Seq(ToWorker)
  BY DEF BridgeInv
<1>c. /\ brAsked \in 0..MaxAsks /\ brAsked \in Nat /\ brDone \in 0..brAsked
      /\ Numbered(brUp, brDone, brAsked)
  BY BridgeAssumption DEF BridgeCounts
<1>e. Numbered(<<>>, brDone, brAsked)
  BY <1>c, NoneNumbered
<1>1. CASE Result
  <2>1. brUp # <<>> /\ brUp' = Emptied /\ UNCHANGED <<brAsked, brDone>>
    BY <1>1 DEF Result
  <2>2. Numbered(Tail(brUp), brDone, brAsked)
    BY <2>1, <1>t, <1>c, OneCarriedOut
  <2> QED BY <2>1, <2>2, <1>c, <1>e DEF BridgeCounts, Emptied
<1>2. CASE Capability
  <2>1. /\ brUp # <<>> /\ Head(brUp).kind = "cap" /\ brUp' = Tail(brUp) /\ brDone' = brDone + 1
        /\ UNCHANGED brAsked
    BY <1>2 DEF Capability, thread
  <2>2. brDone + 1 \in 0..brAsked /\ Numbered(Tail(brUp), brDone + 1, brAsked)
    BY <2>1, <1>t, <1>c, OneCarriedOut
  <2> QED BY <2>1, <2>2, <1>c DEF BridgeCounts
<1>3. ASSUME NEW i \in Id, CallTimesOut(i) PROVE BridgeCounts'
  <2>1. brUp' = (IF brAlive' THEN brUp ELSE <<>>) /\ UNCHANGED <<brAsked, brDone>>
    BY <1>3 DEF CallTimesOut
  <2> QED BY <2>1, <1>c, <1>e DEF BridgeCounts
<1>4. CASE ThreadExits
  <2>1. brUp' = <<>> /\ UNCHANGED <<brAsked, brDone>>
    BY <1>4 DEF ThreadExits, Exits
  <2> QED BY <2>1, <1>c, <1>e DEF BridgeCounts
<1>5. ASSUME NEW id \in Nat, NEW ok \in BOOLEAN, Reply(id, ok), UNCHANGED <<brAsked, brDone>>
      PROVE  BridgeCounts'
  <2> DEFINE x == [kind |-> "result", id |-> id, ok |-> ok]
  <2>1. x \in ToHost /\ x.kind # "cap" /\ brUp' = Append(brUp, x)
    BY <1>5 DEF ToHost, Reply
  <2> HIDE DEF x
  <2>2. Numbered(brUp', brDone, brAsked)
    BY <2>1, <1>t, <1>c, OneMoreNumbered
  <2> QED BY <2>2, <1>c, <1>5 DEF BridgeCounts
<1>6. CASE Loads
  <2>1. brDown # <<>> /\ UNCHANGED <<brAsked, brDone>>
        /\ (Reply(Head(brDown).id, TRUE) \/ Reply(Head(brDown).id, FALSE))
    BY <1>6 DEF Loads
  <2>2. Head(brDown) \in ToWorker
    BY <2>1, <1>t, TheFirstIsTaken
  <2>3. Head(brDown).id \in Nat
    BY <2>2 DEF ToWorker
  <2> QED BY <2>1, <2>3, <1>5
<1>7. ASSUME NEW i \in Id, Ends(i) PROVE BridgeCounts'
  <2>1. UNCHANGED <<brAsked, brDone>> /\ (Reply(i, TRUE) \/ Reply(i, FALSE))
    BY <1>7 DEF Ends
  <2>2. i \in Nat
    BY BridgeAssumption DEF Id
  <2> QED BY <2>1, <2>2, <1>5
<1>8. CASE AsksHost
  <2> DEFINE x == [kind |-> "cap", id |-> 0, ok |-> TRUE]
  <2>1. brUp' = Append(brUp, x) /\ brAsked < MaxAsks /\ brAsked' = brAsked + 1 /\ UNCHANGED brDone
    BY <1>8 DEF AsksHost
  <2>2. x \in ToHost
    BY DEF ToHost
  <2> HIDE DEF x
  <2>3. Numbered(brUp', brDone, brAsked')
    BY <2>1, <2>2, <1>t, <1>c, OneMoreNumbered
  <2>4. brAsked' \in 0..MaxAsks /\ brDone' \in 0..brAsked'
    BY <2>1, <1>c, BridgeAssumption
  <2> QED BY <2>1, <2>3, <2>4 DEF BridgeCounts
<1>9. CASE Enable \/ Disable \/ UpdateConfig \/ Ask("hook") \/ Ask("health") \/ Starts \/ ConfigChanges
           \/ UNCHANGED bridgeVars
  <2>1. UNCHANGED <<brUp, brAsked, brDone>>
    BY <1>9 DEF Enable, Disable, UpdateConfig, Ask, Starts, ConfigChanges, bridgeVars, thread
  <2> QED BY <2>1 DEF BridgeCounts
<1> QED BY <1>1, <1>2, <1>3, <1>4, <1>6, <1>7, <1>8, <1>9 DEF BridgeNext

MissedTyped == brMissed \in BOOLEAN

LEMMA MissedIsBoolean == MissedTyped /\ [BridgeNext]_bridgeVars => MissedTyped'
<1> SUFFICES ASSUME MissedTyped, [BridgeNext]_bridgeVars PROVE brMissed' \in BOOLEAN
  BY DEF MissedTyped
<1>1. CASE UpdateConfig
  BY <1>1 DEF UpdateConfig
<1>2. CASE ~UpdateConfig
  <2>1. UNCHANGED brMissed
    BY <1>2 DEF BridgeNext, Enable, Disable, Ask, Result, Capability, ThreadExits, Loads, Starts,
         ConfigChanges, AsksHost, CallTimesOut, Ends, bridgeVars, bridgeHost
  <2> QED BY <2>1 DEF MissedTyped
<1> QED BY <1>1, <1>2

\* PluginWorkerHost and its worker: a call awaited, running or ended was made, and no
\* capability is carried out that was not asked for.
THEOREM BridgesAreTyped == BridgeSpec => []BridgeTypeOK
<1>1. BridgeInit => MissedTyped
  BY DEF BridgeInit, MissedTyped
<1>2. BridgeInv /\ BridgeFits /\ BridgeCounts /\ MissedTyped => BridgeTypeOK
  <2> SUFFICES ASSUME BridgeInv, BridgeFits, BridgeCounts, MissedTyped
               PROVE  BridgeTypeOK
    OBVIOUS
  <2>1. brCalls \in Seq(CallEntry) /\ DOMAIN brCalls = 1..Len(brCalls) /\ brPending \subseteq 1..Len(brCalls)
    BY DEF BridgeInv, OpenWait
  <2>2. brAlive \in BOOLEAN /\ brPlugin \in {"off", "load", "enabled"} \cup Lifecycle
    BY DEF BridgeInv
  <2>3. /\ brConfig \in 0..MaxConfig /\ brBase \in 0..MaxConfig
        /\ brRunning \subseteq 1..Len(brCalls) /\ brEnded \subseteq 1..Len(brCalls)
        /\ brAsked \in 0..MaxAsks /\ brDone \in 0..brAsked
    BY DEF BridgeFits, BridgeCounts
  <2>4. brCalls \in Seq([kind : CallKind, is : {"open", "ok", "failed", "late"}])
    BY <2>1 DEF CallEntry
  <2>5. brPending \subseteq DOMAIN brCalls /\ brRunning \subseteq DOMAIN brCalls /\ brEnded \subseteq DOMAIN brCalls
    BY <2>1, <2>3
  <2>6. brMissed \in BOOLEAN
    BY DEF MissedTyped
  <2> QED BY <2>2, <2>3, <2>4, <2>5, <2>6, Zenon DEF BridgeTypeOK
<1> QED BY <1>1, <1>2, BridgeStarts, BridgeKeeps, FitsAtStart, FitsKeep, CountsKeep, MissedIsBoolean,
        PTL DEF BridgeSpec

-----------------------------------------------------------------------------
(* Translations.                                                           *)

GroupState == [active : BOOLEAN, announced : BOOLEAN, people : [Person -> Participant]]

TrAt == {"idle", "announcing", "handling", "asking", "detecting", "translating", "replying", "saving"}

TrRecord == [at : TrAt, state : GroupState, sender : Person \cup {NoLang}, cmd : Commands \cup {"none"},
             source : Lang \cup {NoLang}, own : Lang \cup {NoLang}, targets : SUBSET Lang,
             heard : [Person -> Lang \cup {NoLang}]]

\* A message past its detection asks for what it must.
Reaches(c) ==
  c.at \in {"translating", "replying", "saving"} =>
    /\ c.source \notin c.targets
    /\ Readers(c) \ {c.source, c.own} \subseteq c.targets
    /\ c.targets = {} => Readers(c) \subseteq {c.source}

\* Before its detection the handler's copy of the group says what everybody reads, and
\* from the announcement on, that the help was announced.
TrHears(c) ==
  /\ c.at \in {"announcing", "handling", "asking", "detecting"} => c.heard = Reads(c.state)
  /\ c.at \notin {"idle", "announcing"} => c.state.announced

\* A command that is not for everyone waits for the admins, a text has a sender.
TrWaits(c) ==
  /\ c.at = "asking" => c.cmd \in Commands \ {"help", "status"}
  /\ c.at = "detecting" => c.sender \in Person

TrGood(c) == c \in TrRecord /\ Reaches(c) /\ TrWaits(c) /\ TrHears(c)

TrInv ==
  /\ trDoc \in GroupState /\ trJob \in [TrJob -> TrRecord]
  /\ trFailures \in Nat /\ trOpen \in BOOLEAN /\ trMessages \in 0..MaxMessages
  /\ \A j \in TrJob : Reaches(trJob[j]) /\ TrWaits(trJob[j]) /\ TrHears(trJob[j])
  /\ AnnouncedStays

LEMMA ReadsTypes == ASSUME NEW s \in GroupState PROVE Reads(s) \in [Person -> Lang \cup {NoLang}]
BY DEF Reads, GroupState, Participant

LEMMA NewIsGood == NewGroup \in GroupState /\ TrGood(TrIdle)
<1>1. NewGroup \in GroupState
  BY DEF NewGroup, NewParticipant, GroupState, Participant
<1>2. Reads(NewGroup) \in [Person -> Lang \cup {NoLang}]
  BY <1>1, ReadsTypes
<1>3. TrIdle \in TrRecord
  BY <1>1, <1>2 DEF TrIdle, TrRecord, TrAt
<1> QED BY <1>1, <1>3 DEF TrIdle, TrGood, Reaches, TrWaits, TrHears

LEMMA TrStarts == TrInit => TrInv
<1> SUFFICES ASSUME TrInit PROVE TrInv
  OBVIOUS
<1>1. trDoc \in GroupState /\ TrGood(TrIdle)
  BY NewIsGood DEF TrInit, StoredGroup, GroupState
<1>2. trJob \in [TrJob -> TrRecord] /\ \A j \in TrJob : trJob[j] = TrIdle
  BY <1>1 DEF TrInit, TrGood
<1>3. trFailures \in Nat /\ trMessages \in 0..MaxMessages
  BY TrAssumption DEF TrInit
<1>4. trOpen \in BOOLEAN
  BY DEF TrInit
<1>5. AnnouncedStays
  BY DEF TrInit, StoredGroup, AnnouncedStays
<1> QED BY <1>1, <1>2, <1>3, <1>4, <1>5 DEF TrInv, TrGood

\* What is believed to be the source, and whom the text is translated for.
LEMMA TargetsReach ==
  ASSUME NEW known, NEW source, NEW own
  PROVE  /\ source \notin Targets(known, source, own) /\ Targets(known, source, own) \subseteq known
         /\ known \ {source, own} \subseteq Targets(known, source, own)
         /\ Targets(known, source, own) = {} => known \subseteq {source}
BY DEF Targets

LEMMA KnownAreLangs == ASSUME NEW s \in GroupState PROVE Known(s) \subseteq Lang
<1>1. \A p \in Person : s.people[p].lang \in Lang \cup {NoLang}
  BY DEF GroupState, Participant
<1> QED BY <1>1 DEF Known

\* What the others read is known still when the sender's language is learnt.
LEMMA ReadersAreKnown ==
  ASSUME NEW old \in GroupState, NEW who \in Person, NEW participant \in Participant, NEW c,
         c.heard = Reads(old), c.sender = who
  PROVE  Readers(c) \subseteq Known([old EXCEPT !.people[who] = participant])
<1> DEFINE s == [old EXCEPT !.people[who] = participant]
<1>1. \A p \in Person : p # who => s.people[p] = old.people[p]
  BY DEF GroupState
<1> HIDE DEF s
<1>2. ASSUME NEW p \in Person \ {who}, c.heard[p] # NoLang PROVE c.heard[p] \in Known(s)
  <2>1. c.heard[p] = s.people[p].lang /\ s.people[p].enabled
    BY <1>1, <1>2 DEF Reads
  <2> QED BY <2>1, <1>2 DEF Known
<1>3. Readers(c) \subseteq Known(s)
  BY <1>2 DEF Readers
<1> QED BY <1>3 DEF s

\* A command changes the group, and never that the help was announced.
LEMMA ChangedIsAnnounced ==
  ASSUME NEW s \in GroupState, s.announced, NEW cmd \in Commands \ {"help", "status"},
         NEW p \in Person, NEW lang \in Lang
  PROVE  Changed(s, cmd, p, lang).announced
BY DEF Changed, GroupState, Commands

LEMMA LearnedTypes ==
  ASSUME NEW p \in Participant, NEW detected \in Lang
  PROVE  Learned(p, detected) \in Participant
<1>1. [p EXCEPT !.pending = NoLang] \in Participant
  BY DEF Participant
<1>2. [p EXCEPT !.lang = detected, !.pending = NoLang] \in Participant
  BY DEF Participant
<1>3. [p EXCEPT !.pending = detected, !.lang = IF p.lang = NoLang THEN detected ELSE @] \in Participant
  BY DEF Participant
<1> QED BY <1>1, <1>2, <1>3 DEF Learned

LEMMA ChangedTypes ==
  ASSUME NEW s \in GroupState, NEW cmd \in Commands \ {"help", "status"}, NEW p \in Person,
         NEW lang \in Lang
  PROVE  Changed(s, cmd, p, lang) \in GroupState
<1>1. CASE cmd \in {"on", "off"}
  BY <1>1 DEF Changed, GroupState
<1>2. CASE cmd = "setlang"
  <2>1. Changed(s, cmd, p, lang) =
          [s EXCEPT !.people[p] = [@ EXCEPT !.lang = lang, !.pinned = TRUE, !.pending = NoLang]]
    BY <1>2 DEF Changed
  <2>2. [s.people[p] EXCEPT !.lang = lang, !.pinned = TRUE, !.pending = NoLang] \in Participant
    BY DEF GroupState, Participant
  <2> QED BY <2>1, <2>2 DEF GroupState
<1>3. CASE cmd = "auto"
  <2>1. Changed(s, cmd, p, lang) =
          [s EXCEPT !.people[p] = [@ EXCEPT !.pinned = FALSE, !.pending = NoLang]]
    BY <1>3 DEF Changed
  <2>2. [s.people[p] EXCEPT !.pinned = FALSE, !.pending = NoLang] \in Participant
    BY DEF GroupState, Participant
  <2> QED BY <2>1, <2>2 DEF GroupState
<1>4. CASE cmd = "ignore"
  <2>1. Changed(s, cmd, p, lang) = [s EXCEPT !.people[p].enabled = FALSE]
    BY <1>4 DEF Changed
  <2>2. [s.people[p] EXCEPT !.enabled = FALSE] \in Participant
    BY DEF GroupState, Participant
  <2> QED BY <2>1, <2>2 DEF GroupState
<1>5. CASE cmd = "unignore"
  <2>1. Changed(s, cmd, p, lang) = [s EXCEPT !.people[p].enabled = TRUE]
    BY <1>5 DEF Changed
  <2>2. [s.people[p] EXCEPT !.enabled = TRUE] \in Participant
    BY DEF GroupState, Participant
  <2> QED BY <2>1, <2>2 DEF GroupState
<1> QED BY <1>1, <1>2, <1>3, <1>4, <1>5 DEF Commands

LEMMA TrKeeps == TrInv /\ [TrNext]_trVars => TrInv'
<1> SUFFICES ASSUME TrInv, [TrNext]_trVars PROVE TrInv'
  OBVIOUS
<1> USE TrAssumption
<1>t. /\ trDoc \in GroupState /\ trJob \in [TrJob -> TrRecord] /\ \A j \in TrJob : TrGood(trJob[j])
      /\ trFailures \in Nat /\ trOpen \in BOOLEAN /\ trMessages \in 0..MaxMessages
      /\ AnnouncedStays
  BY DEF TrInv, TrGood
\* A step of the handler of message j.
<1>j. ASSUME NEW j \in TrJob, NEW e, TrGood(e), Goes(j, e), trDoc' \in GroupState, AnnouncedStays',
             trFailures' \in Nat, trOpen' \in BOOLEAN, trMessages' \in 0..MaxMessages
      PROVE  TrInv'
  <2>1. e \in TrRecord /\ Reaches(e) /\ TrWaits(e) /\ TrHears(e) /\ trJob' = [trJob EXCEPT ![j] = e]
    BY <1>j DEF TrGood, Goes
  <2>2. trJob' \in [TrJob -> TrRecord]
    BY <2>1, <1>t
  <2>3. \A k \in TrJob : trJob'[k] = IF k = j THEN e ELSE trJob[k]
    BY <2>1, <1>t
  <2>4. \A k \in TrJob : Reaches(trJob'[k]) /\ TrWaits(trJob'[k]) /\ TrHears(trJob'[k])
    BY <2>1, <2>3, <1>t DEF TrGood
  <2> QED BY <2>2, <2>4, <1>j DEF TrInv
<1>d. ASSUME UNCHANGED trDoc PROVE trDoc' \in GroupState /\ AnnouncedStays'
  BY <1>d, <1>t DEF AnnouncedStays
<1>i. TrGood(TrIdle)
  BY NewIsGood
<1>1. ASSUME NEW j \in TrJob, NEW p \in Person, Text(j, p) PROVE TrInv'
  <2> DEFINE e == [trJob[j] EXCEPT !.at = "detecting", !.sender = p]
  <2>0. trJob[j] \in TrRecord
    BY <1>t DEF TrGood
  <2>2. e \in TrRecord /\ e.at = "detecting" /\ e.sender = p
    BY <2>0 DEF TrRecord, TrAt
  <2>3. e.heard = trJob[j].heard /\ e.state = trJob[j].state
    BY <2>0 DEF TrRecord
  <2>4. trJob[j].heard = Reads(trJob[j].state) /\ trJob[j].state.announced
    BY <1>1, <1>t DEF Text, TrGood, TrHears
  <2> HIDE DEF e
  <2>1. TrGood(e)
    BY <2>2, <2>3, <2>4 DEF TrGood, Reaches, TrWaits, TrHears
  <2> USE DEF e
  <2> QED BY <2>1, <1>1, <1>d, <1>j, <1>t DEF Text
<1>2. ASSUME NEW j \in TrJob, NEW c \in Commands, Command(j, c) PROVE TrInv'
  <2> DEFINE e == [trJob[j] EXCEPT !.at = "asking", !.cmd = c]
  <2>0. trJob[j] \in TrRecord
    BY <1>t DEF TrGood
  <2>2. e \in TrRecord /\ e.at = "asking" /\ e.cmd = c
    BY <2>0 DEF TrRecord, TrAt
  <2>3. e.heard = trJob[j].heard /\ e.state = trJob[j].state
    BY <2>0 DEF TrRecord
  <2> HIDE DEF e
  <2>4. trJob[j].heard = Reads(trJob[j].state) /\ trJob[j].state.announced
    BY <1>2, <1>t DEF Command, TrGood, TrHears
  <2>1. c \notin {"help", "status"} => TrGood(e)
    BY <2>2, <2>3, <2>4 DEF TrGood, Reaches, TrWaits, TrHears
  <2> USE DEF e
  <2> QED BY <2>1, <1>2, <1>d, <1>i, <1>j, <1>t DEF Command
<1>3. ASSUME NEW j \in TrJob, NEW l \in Lang, Detected(j, l) PROVE TrInv'
  <2> DEFINE who == trJob[j].sender
             s == [trJob[j].state EXCEPT !.people[who] = Learned(@, l)]
             own == s.people[who].lang
             source == IF l \in Known(s) \/ own = NoLang THEN l ELSE own
             targets == Targets(Known(s), source, own)
             at == IF targets = {} \/ trOpen THEN "saving" ELSE "translating"
             e == [trJob[j] EXCEPT !.state = s, !.source = source, !.own = own, !.targets = targets,
                                   !.at = at]
  <2>1. trJob[j] \in TrRecord /\ trJob[j].at = "detecting" /\ who \in Person
    BY <1>3, <1>t DEF Detected, TrGood, TrWaits
  <2>2. trJob[j].state \in GroupState /\ trJob[j].state.people[who] \in Participant
    BY <2>1 DEF TrRecord, GroupState
  <2>3. Learned(trJob[j].state.people[who], l) \in Participant
    BY <2>2, LearnedTypes
  <2>4. s \in GroupState
    BY <2>1, <2>2, <2>3 DEF GroupState
  <2>5. own \in Lang \cup {NoLang}
    BY <2>1, <2>4 DEF GroupState, Participant
  <2>a. s.announced
    BY <2>1, <1>t DEF TrGood, TrHears, TrRecord, GroupState
  <2>b. trJob[j].heard = Reads(trJob[j].state)
    BY <2>1, <1>t DEF TrGood, TrHears
  <2>c. Readers(trJob[j]) \subseteq Known(s)
    BY <2>1, <2>2, <2>3, <2>b, ReadersAreKnown
  <2> HIDE DEF s, own
  <2>6. source \in Lang
    BY <2>5
  <2> HIDE DEF source
  <2>7. /\ source \notin targets /\ targets \subseteq Known(s)
        /\ Known(s) \ {source, own} \subseteq targets
        /\ targets = {} => Known(s) \subseteq {source}
    BY TargetsReach
  <2>8. targets \subseteq Lang
    BY <2>4, <2>7, KnownAreLangs
  <2> HIDE DEF targets
  <2>9. at \in {"saving", "translating"}
    OBVIOUS
  <2> HIDE DEF at
  <2>10. /\ e \in TrRecord /\ e.at = at /\ e.state = s /\ e.source = source /\ e.own = own
         /\ e.targets = targets /\ e.heard = trJob[j].heard /\ e.sender = trJob[j].sender
    BY <2>1, <2>4, <2>5, <2>6, <2>8, <2>9 DEF TrRecord, TrAt
  <2> HIDE DEF e
  <2>d. Readers(e) \subseteq Known(s)
    BY <2>c, <2>10 DEF Readers
  <2>e. Reaches(e)
    BY <2>7, <2>10, <2>d DEF Reaches
  <2>11. TrGood(e)
    BY <2>9, <2>10, <2>a, <2>e DEF TrGood, TrWaits, TrHears
  <2>12. Goes(j, e)
    BY <1>3 DEF Detected, e, at, targets, source, own, s
  <2>13. UNCHANGED <<trDoc, trOpen, trMessages>> /\ trFailures' = 0
    BY <1>3 DEF Detected
  <2> QED BY <2>11, <2>12, <2>13, <1>d, <1>j, <1>t
<1>4. ASSUME NEW j \in TrJob, Receive(j) PROVE TrInv'
  <2> DEFINE e == [TrIdle EXCEPT !.state = trDoc, !.heard = Reads(trDoc),
                                 !.at = IF trDoc.announced THEN "handling" ELSE "announcing"]
  <2>3. Reads(trDoc) \in [Person -> Lang \cup {NoLang}]
    BY <1>t, ReadsTypes
  <2>4. /\ e \in TrRecord /\ e.heard = Reads(e.state) /\ e.state = trDoc
        /\ e.at = IF trDoc.announced THEN "handling" ELSE "announcing"
    BY <1>t, <1>i, <2>3 DEF TrGood, TrRecord, TrAt
  <2> HIDE DEF e
  <2>1. TrGood(e)
    BY <2>4 DEF TrGood, Reaches, TrWaits, TrHears
  <2>2. trMessages' \in 0..MaxMessages
    BY <1>4, <1>t DEF Receive
  <2> USE DEF e
  <2> QED BY <2>1, <2>2, <1>4, <1>d, <1>j, <1>t DEF Receive
<1>5. ASSUME NEW j \in TrJob, Announced(j) PROVE TrInv'
  <2> DEFINE s == [trJob[j].state EXCEPT !.announced = TRUE]
             e == [trJob[j] EXCEPT !.state = s, !.at = "handling"]
  <2>0. trJob[j].at = "announcing" /\ trJob[j] \in TrRecord
    BY <1>5, <1>t DEF Announced, TrGood
  <2>1. s \in GroupState /\ s.announced /\ s.people = trJob[j].state.people
    BY <2>0 DEF TrRecord, GroupState
  <2> HIDE DEF s
  <2>3. e \in TrRecord /\ e.at = "handling" /\ e.state = s /\ e.heard = trJob[j].heard
    BY <2>0, <2>1 DEF TrRecord, TrAt
  <2>4. trJob[j].heard = Reads(trJob[j].state)
    BY <2>0, <1>t DEF TrGood, TrHears
  <2>5. Reads(s) = Reads(trJob[j].state)
    BY <2>1 DEF Reads
  <2> HIDE DEF e
  <2>2. TrGood(e)
    BY <2>1, <2>3, <2>4, <2>5 DEF TrGood, Reaches, TrWaits, TrHears
  <2>6. trDoc' = s
    BY <1>5 DEF Announced, s
  <2>7. AnnouncedStays'
    BY <2>1, <2>6 DEF AnnouncedStays
  <2>8. Goes(j, e) /\ UNCHANGED <<trFailures, trOpen, trMessages>>
    BY <1>5 DEF Announced, s, e
  <2> QED BY <2>1, <2>2, <2>6, <2>7, <2>8, <1>j, <1>t
<1>6. ASSUME NEW j \in TrJob, SendFails(j) \/ CommandRefused(j) \/ Skipped(j) PROVE TrInv'
  BY <1>6, <1>d, <1>i, <1>j, <1>t DEF SendFails, CommandRefused, Skipped
<1>7. ASSUME NEW j \in TrJob, Confirmed(j) PROVE TrInv'
  <2>1. /\ trJob[j].state \in GroupState /\ trJob[j].cmd \in Commands \ {"help", "status"}
        /\ trJob[j].state.announced
    BY <1>7, <1>t DEF Confirmed, TrGood, TrRecord, TrWaits, TrHears
  <2>2. trDoc' \in GroupState /\ trDoc'.announced
    BY <1>7, <2>1, ChangedTypes, ChangedIsAnnounced DEF Confirmed
  <2>3. AnnouncedStays'
    BY <2>2 DEF AnnouncedStays
  <2> QED BY <2>2, <2>3, <1>7, <1>i, <1>j, <1>t DEF Confirmed
<1>8. ASSUME NEW j \in TrJob, DetectFails(j) PROVE TrInv'
  <2>1. trFailures' \in Nat /\ trOpen' \in BOOLEAN
    BY <1>8, <1>t DEF DetectFails
  <2> QED BY <2>1, <1>8, <1>d, <1>i, <1>j, <1>t DEF DetectFails
<1>9. ASSUME NEW j \in TrJob, Translated(j) PROVE TrInv'
  <2>1. PICK bad \in SUBSET trJob[j].targets :
          /\ trFailures' \in IF bad = trJob[j].targets THEN {trFailures + Cardinality(bad)}
                                                        ELSE 0..Cardinality(bad)
          /\ trOpen' \in {trOpen \/ trFailures' >= Threshold,
                          trOpen \/ trFailures + Cardinality(bad) >= Threshold}
          /\ Goes(j, [trJob[j] EXCEPT !.at = IF bad = trJob[j].targets THEN "saving" ELSE "replying"])
    BY <1>9 DEF Translated
  <2>2. Cardinality(bad) \in Nat
    <3>1. bad \subseteq Lang
      BY <1>t DEF TrGood, TrRecord
    <3> QED BY <3>1, FS_Subset, FS_CardinalityType
  <2>3. trFailures' \in Nat
    BY <2>1, <2>2, <1>t
  <2>4. trOpen' \in BOOLEAN
    BY <2>1
  <2> DEFINE e == [trJob[j] EXCEPT !.at = IF bad = trJob[j].targets THEN "saving" ELSE "replying"]
  <2>5. trJob[j].at = "translating"
    BY <1>9 DEF Translated
  <2>8. /\ e \in TrRecord /\ e.state = trJob[j].state /\ e.heard = trJob[j].heard
        /\ e.sender = trJob[j].sender /\ e.targets = trJob[j].targets
        /\ e.source = trJob[j].source /\ e.own = trJob[j].own
        /\ e.at \in {"saving", "replying"}
    BY <1>t DEF TrGood, TrRecord, TrAt
  <2>9. Reaches(trJob[j]) /\ trJob[j].state.announced
    BY <2>5, <1>t DEF TrGood, TrHears
  <2> HIDE DEF e
  <2>6. TrGood(e)
    BY <2>5, <2>8, <2>9 DEF TrGood, Reaches, Readers, TrWaits, TrHears
  <2> USE DEF e
  <2>7. UNCHANGED <<trDoc, trMessages>>
    BY <1>9 DEF Translated
  <2> QED BY <2>1, <2>3, <2>4, <2>6, <2>7, <1>d, <1>j, <1>t
<1>10. ASSUME NEW j \in TrJob, Saved(j) PROVE TrInv'
  <2>1. trDoc' \in GroupState /\ trDoc'.announced
    BY <1>10, <1>t DEF Saved, TrGood, TrRecord, TrHears
  <2>2. AnnouncedStays'
    BY <2>1 DEF AnnouncedStays
  <2> QED BY <2>1, <2>2, <1>10, <1>i, <1>j, <1>t DEF Saved
<1>11. CASE CooledDown
  BY <1>11 DEF CooledDown, TrInv, AnnouncedStays
<1>12. CASE UNCHANGED trVars
  BY <1>12 DEF trVars, TrInv, AnnouncedStays
<1> QED BY <1>1, <1>2, <1>3, <1>4, <1>5, <1>6, <1>7, <1>8, <1>9, <1>10, <1>11, <1>12
        DEF TrNext

LEMMA TrInvGives == TrInv => TrTypeOK /\ ReadersAsked /\ AnnouncedStays
<1> SUFFICES ASSUME TrInv PROVE TrTypeOK /\ ReadersAsked /\ AnnouncedStays
  OBVIOUS
<1>1. \A s \in {trDoc} \cup {trJob[j].state : j \in TrJob} : s \in GroupState
  BY DEF TrInv, TrRecord
<1>2. \A s \in {trDoc} \cup {trJob[j].state : j \in TrJob} :
        /\ s.active \in BOOLEAN /\ s.announced \in BOOLEAN
        /\ s.people \in [Person -> Participant]
  BY <1>1 DEF GroupState
<1>3. \A j \in TrJob :
        /\ trJob[j].at \in TrAt
        /\ trJob[j].sender \in Person \cup {NoLang} /\ trJob[j].cmd \in Commands \cup {"none"}
        /\ trJob[j].source \in Lang \cup {NoLang} /\ trJob[j].own \in Lang \cup {NoLang}
        /\ trJob[j].heard \in [Person -> Lang \cup {NoLang}] /\ trJob[j].targets \subseteq Lang
  BY DEF TrInv, TrRecord
<1>4. TrTypeOK
  BY <1>2, <1>3 DEF TrInv, TrTypeOK, Participant, TrAt
<1> QED BY <1>4 DEF TrInv, ReadersAsked, Reaches

\* Translation is well typed; every text handled asks for a translation into each
\* language that others read, but its own and (when a third is read) its sender's; and
\* the announcement of the help is never undone: for any group, languages and messages
\* that save over each other.
THEOREM TranslationsReach == TrSpec => [](TrTypeOK /\ ReadersAsked /\ AnnouncedStays)
BY TrStarts, TrKeeps, TrInvGives, PTL DEF TrSpec
=============================================================================
