------------------------- MODULE ObservabilityProofs -------------------------
(* Theorems about Observability: what an observer reports of the domains,    *)
(* for any number of domains, observers and threads, and any configurations. *)
EXTENDS RegistryProofs, SumProofs

\* What is registered of the domains.
ConfigInv ==
  /\ default["throttle"] \in ThrottleConfigs
  /\ \A d \in Registered : ConfigOf(d) \in ThrottleConfigs
  /\ IsFiniteSet(Registered)

CountersInv ==
  /\ counters \in [Domains -> Counters]
  /\ \A d \in Registered : counters[d].level <= ConfigOf(d).max_backoff_level
  /\ \A d \in Domains \ Registered : counters[d] = Fresh

\* The loads an observer in call may still have to do of the domain it is at.
Rests ==
  [none |-> {<<>>}, max |-> {<<>>}, weighted |-> {<<>>, <<"delay">>},
   snapshot |-> {<<>>, <<"totals">>, <<"delay", "totals">>}]
CallInv(o) ==
  reader[o].call \in DOMAIN Rests /\ reader[o].todo \in Rests[reader[o].call]

\* The levels a domain had in a call: from its beginning to the moment the call
\* has read the domain.
YetToRead(o, d) == d \in reader[o].left \/ (d = reader[o].at /\ reader[o].todo # <<>>)
SeenInv(o) ==
  reader[o].call # "none" => \A d \in Registered :
    /\ d \in DOMAIN seen[o]
    /\ seen[o][d].levels \subseteq 0 .. ConfigOf(d).max_backoff_level
    /\ YetToRead(o, d) => counters[d].level \in seen[o][d].levels
    /\ seen[o][d].levels # {}
    /\ \A f \in Totals : seen[o][d].start[f] \in 0 .. counters[d][f]

\* What an observer has got of domain d so far.
Readings == [level: Nat, delay: Nat, rateLimits: Nat, successes: Nat, skips: Nat]
Pending(o, d) == IF d = reader[o].at THEN reader[o].todo ELSE <<>>
GotInv(o, d) ==
  LET got == reader[o].got[d]
  IN /\ got \in Readings
     /\ Pending(o, d) \in {<<>>, <<"totals">>} => got.delay \in DelaysSeen(o, d)
     /\ reader[o].call = "snapshot" => got.level \in seen[o][d].levels
     /\ reader[o].call = "snapshot" /\ Pending(o, d) = <<>> =>
          \A f \in Totals : got[f] \in seen[o][d].start[f] .. counters[d][f]

ObserverInv(o) ==
  /\ CallInv(o) /\ SeenInv(o)
  /\ reader[o].call # "none" => \A d \in DOMAIN reader[o].got : GotInv(o, d)

ObservabilityInv ==
  /\ RegistryInv /\ ReadersInv /\ ConfigInv /\ CountersInv
  /\ DOMAIN seen = Observers
  /\ \A o \in Observers : ObserverInv(o)

-----------------------------------------------------------------------------
(* The configurations that are registered.                                   *)

\* A step of a thread registers one throttle state at most, with today's default.
LEMMA RegistersOne ==
  ASSUME RegistryInv, NEW t \in Threads, Create(t)
  PROVE  \/ entries'["throttle"] = entries["throttle"]
         \/ /\ InsertThrottle(t) /\ default' = default
            /\ \E d \in Domains :
                 /\ entries["throttle"][d] = NoEntry
                 /\ entries'["throttle"] =
                      [entries["throttle"] EXCEPT ![d] = New("throttle", d)]
<1>1. CASE InsertThrottle(t)
  <2>1. Insert(t, "throttle") /\ pc[t] = "insert_throttle"
    BY <1>1 DEF InsertThrottle
  <2>2. Domain(t) \in Domains
    <3>1. Control(t) /\ making[t] \in Vectors
      BY DEF RegistryInv, ThreadInv, Types
    <3>2. nth[t] \in DOMAIN ProgramOf[t] /\ Len(making[t].cumulative) \in Nat
      BY <2>1, <3>1, LenProperties DEF Control, Vectors
    <3>3. LooksUp(t) \/ (Given(t).endpoints # None /\ MoreEndpoints(t))
      BY <2>1, <3>1 DEF Control, AtEndpoint, NeedsThrottle
    <3> QED
      BY <3>2, <3>3, DomainKnown
  <2> DEFINE d == Domain(t)
             new == New("throttle", d)
  <2>3. entries' = IF entries["throttle"][d] # NoEntry THEN entries
                   ELSE [entries EXCEPT !["throttle"][d] = new]
    BY <2>1 DEF Insert
  <2>4. default' = default /\ entries \in [Kinds -> [Domains -> Entry]]
    BY <2>1 DEF Insert, RegistryInv, Types
  <2> HIDE DEF d, new
  <2>5. CASE entries["throttle"][d] # NoEntry
    BY <2>3, <2>5
  <2>6. CASE entries["throttle"][d] = NoEntry
    <3>1. entries'["throttle"] = [entries["throttle"] EXCEPT ![d] = new]
      BY <2>3, <2>4, <2>6 DEF Kinds
    <3> QED
      BY <1>1, <2>2, <2>4, <2>6, <3>1 DEF d, new
  <2> QED
    BY <2>5, <2>6
<1>2. CASE InsertClient(t)
  <2>1. entries \in [Kinds -> [Domains -> Entry]]
    BY DEF RegistryInv, Types
  <2> QED
    BY <1>2, <2>1 DEF InsertClient, Insert, Kinds
<1>3. CASE ~InsertThrottle(t) /\ ~InsertClient(t)
  BY <1>3 DEF Create, SetThrottleConfig, SetClientConfig, SetDefault,
     LookupClient, LookupThrottle, LookupNamed, Lookup, Reuse, ClientFails,
     AssertionFails, Panic, Finish, Wrap
<1> QED
  BY <1>1, <1>2, <1>3

\* The default of throttle states is the configuration of some builder.
LEMMA DefaultIsThrottle ==
  ASSUME RegistryInv, default["throttle"] \in ThrottleConfigs,
         NEW t \in Threads, Create(t)
  PROVE  default'["throttle"] \in ThrottleConfigs
<1>1. CASE SetThrottleConfig(t)
  <2>1. SetDefault(t, "throttle") /\ pc[t] = "throttle_config"
    BY <1>1 DEF SetThrottleConfig
  <2>2. Control(t)
    BY DEF RegistryInv, ThreadInv
  <2>3. nth[t] \in DOMAIN ProgramOf[t] /\ ~LooksUp(t)
    BY <2>1, <2>2 DEF Control
  <2>4. Given(t) \in Builders
    BY <2>3, StepTypes DEF LooksUp, Given
  <2>5. Given(t)["throttle"] \in ThrottleConfigs \cup {None}
    BY <2>4 DEF Builders
  <2>6. DOMAIN default = Kinds
    BY DEF RegistryInv, Types
  <2> DEFINE new == Given(t)["throttle"]
  <2>7. default' = IF new = None THEN default ELSE [default EXCEPT !["throttle"] = new]
    BY <2>1 DEF SetDefault
  <2> HIDE DEF new
  <2> QED
    BY <2>5, <2>6, <2>7 DEF Kinds, new
<1>2. CASE SetClientConfig(t)
  <2>1. DOMAIN default = Kinds
    BY DEF RegistryInv, Types
  <2> QED
    BY <1>2, <2>1 DEF SetClientConfig, SetDefault, Kinds
<1>3. CASE ~SetThrottleConfig(t) /\ ~SetClientConfig(t)
  BY <1>3 DEF Create, LookupClient, LookupThrottle, LookupNamed, Lookup, Reuse,
     InsertClient, InsertThrottle, Insert, ClientFails, AssertionFails, Panic, Finish, Wrap
<1> QED
  BY <1>1, <1>2, <1>3

\* A domain keeps the configuration it was registered with.
LEMMA ConfigKeeps ==
  ASSUME RegistryInv, ConfigInv, [RegistryNext]_registryVars
  PROVE  /\ ConfigInv'
         /\ \A d \in Registered : d \in Registered' /\ ConfigOf(d)' = ConfigOf(d)
<1>1. ASSUME NEW t \in Threads, Create(t), entries'["throttle"] # entries["throttle"]
      PROVE  /\ ConfigInv'
             /\ \A d \in Registered : d \in Registered' /\ ConfigOf(d)' = ConfigOf(d)
  <2>1. PICK d \in Domains :
          /\ entries["throttle"][d] = NoEntry
          /\ entries'["throttle"] =
               [entries["throttle"] EXCEPT ![d] = New("throttle", d)]
    BY <1>1, RegistersOne
  <2> DEFINE new == New("throttle", d)
  <2>2. DOMAIN entries["throttle"] = Domains
    BY DEF RegistryInv, Types, Kinds
  <2>3. default'["throttle"] \in ThrottleConfigs /\ default["throttle"] \in ThrottleConfigs
    BY <1>1, DefaultIsThrottle DEF ConfigInv
  <2>4. new.config \in ThrottleConfigs /\ new # NoEntry
    BY <2>1, <2>3 DEF New, NoEntry
  <2> HIDE DEF new
  <2>5. entries'["throttle"] = [entries["throttle"] EXCEPT ![d] = new]
    BY <2>1 DEF new
  <2>6. Registered' = Registered \cup {d}
    BY <2>1, <2>2, <2>4, <2>5 DEF Registered
  <2>7. IsFiniteSet(Registered')
    BY <2>6, FS_AddElement DEF ConfigInv
  <2>8. \A e \in Registered : ConfigOf(e)' = ConfigOf(e)
    BY <2>1, <2>2, <2>5 DEF Registered, ConfigOf
  <2>9. ConfigOf(d)' \in ThrottleConfigs
    BY <2>2, <2>4, <2>5 DEF ConfigOf
  <2> QED
    BY <2>3, <2>6, <2>7, <2>8, <2>9 DEF ConfigInv
<1>2. CASE entries'["throttle"] = entries["throttle"]
  <2>1. default'["throttle"] \in ThrottleConfigs
    BY DefaultIsThrottle DEF ConfigInv, RegistryNext, AllBuilt, registryVars
  <2>2. Registered' = Registered /\ \A d : ConfigOf(d)' = ConfigOf(d)
    BY <1>2 DEF Registered, ConfigOf
  <2> QED
    BY <2>1, <2>2 DEF ConfigInv
<1> QED
  BY <1>1, <1>2 DEF RegistryNext, AllBuilt, registryVars

LEMMA DelayIsNat ==
  ASSUME NEW c \in ThrottleConfigs, NEW level \in Nat
  PROVE  DelayOf(c, level) \in Nat
<1> DEFINE i == IF level <= c.max_backoff_level THEN level ELSE c.max_backoff_level
<1>1. i \in Nat /\ c.backoff_table \in Seq(Nat)
  BY DEF ThrottleConfigs
<1>2. DelayOf(c, level) = IF i < Len(c.backoff_table) THEN c.backoff_table[i + 1] ELSE 2000
  BY DEF DelayOf
<1> HIDE DEF i
<1>3. CASE i < Len(c.backoff_table)
  <2>1. i + 1 \in 1 .. Len(c.backoff_table)
    BY <1>1, <1>3, LenProperties
  <2> QED
    BY <1>1, <1>2, <1>3, <2>1, ElementOfSeq
<1>4. CASE ~ (i < Len(c.backoff_table))
  BY <1>2, <1>4
<1> QED
  BY <1>3, <1>4

\* What the loads of the three calls leave to be loaded.
LEMMA LoadOrder ==
  /\ Loads.max = <<"delay">> /\ Loads.weighted = <<"successes", "delay">>
  /\ Loads.snapshot = <<"level", "delay", "totals">>
  /\ Head(<<"delay">>) = "delay" /\ Tail(<<"delay">>) = <<>>
  /\ Head(<<"successes", "delay">>) = "successes" 
  /\ Tail(<<"successes", "delay">>) = <<"delay">>
  /\ Head(<<"level", "delay", "totals">>) = "level"
  /\ Tail(<<"level", "delay", "totals">>) = <<"delay", "totals">>
  /\ Head(<<"delay", "totals">>) = "delay" /\ Tail(<<"delay", "totals">>) = <<"totals">>
  /\ Head(<<"totals">>) = "totals" /\ Tail(<<"totals">>) = <<>>
  /\ <<"delay">> # <<>> /\ <<"totals">> # <<>> /\ <<"delay", "totals">> # <<>>
  /\ <<"delay">> # <<"totals">> /\ <<"delay", "totals">> # <<"totals">>
BY DEF Loads

-----------------------------------------------------------------------------
(* The counters, and what the observers have seen of them.                   *)

\* Delays of a level the table has are natural numbers.
LEMMA DelaysSeenTypes ==
  ASSUME NEW o \in Observers, ConfigInv, SeenInv(o), reader[o].call # "none",
         NEW d \in Registered
  PROVE  DelaysSeen(o, d) \subseteq Nat /\ DelaysSeen(o, d) # {}
<1>1. ConfigOf(d) \in ThrottleConfigs
  BY DEF ConfigInv
<1>2. seen[o][d].levels \subseteq 0 .. ConfigOf(d).max_backoff_level
  BY DEF SeenInv
<1>3. ConfigOf(d).max_backoff_level \in Nat /\ seen[o][d].levels # {}
  BY <1>1 DEF ThrottleConfigs, SeenInv
<1>4. \A level \in seen[o][d].levels : DelayOf(ConfigOf(d), level) \in Nat
  BY <1>1, <1>2, <1>3, DelayIsNat
<1> QED
  BY <1>3, <1>4 DEF DelaysSeen

\* A step that leaves counters and observers alone, while a domain that observers
\* see keeps its configuration.
LEMMA ObserverUntouched ==
  ASSUME UNCHANGED <<counters, reader, seen>>, NEW o \in Observers, ObserverInv(o),
         reader[o].call # "none" => Registered' = Registered,
         \A d \in Registered : ConfigOf(d)' = ConfigOf(d), ReaderInv(o)
  PROVE  ObserverInv(o)'
<1>1. CallInv(o)'
  BY DEF ObserverInv, CallInv
<1>2. SeenInv(o)'
  BY DEF ObserverInv, SeenInv, YetToRead
<1>3. ASSUME reader[o].call # "none", NEW d \in DOMAIN reader[o].got
      PROVE  GotInv(o, d)'
  <2>1. d \in Registered /\ GotInv(o, d)
    BY <1>3 DEF ReaderInv, ObserverInv
  <2>2. DelaysSeen(o, d)' = DelaysSeen(o, d)
    BY <2>1 DEF DelaysSeen
  <2>3. Pending(o, d)' = Pending(o, d)
    BY DEF Pending
  <2> QED
    BY <2>1, <2>2, <2>3 DEF GotInv
<1> QED
  BY <1>1, <1>2, <1>3 DEF ObserverInv

\* A thread that registers a domain makes it fresh, and waits for the observers.
LEMMA CreateKeeps ==
  ASSUME ObservabilityInv, NEW t \in Threads, CreateLocked(t)
  PROVE  CountersInv' /\ \A o \in Observers : ObserverInv(o)'
<1>1. Create(t) /\ UNCHANGED <<counters, reader, seen>>
  BY DEF CreateLocked
<1>2. /\ RegistryInv /\ ConfigInv /\ CountersInv /\ ReadersInv
      /\ \A o \in Observers : ReaderInv(o) /\ ObserverInv(o)
  BY DEF ObservabilityInv, ReadersInv
<1>3. /\ \A d \in Registered : d \in Registered' /\ ConfigOf(d)' = ConfigOf(d)
      /\ ConfigInv'
  BY <1>1, <1>2, ConfigKeeps DEF RegistryNext
<1>4. \A d \in Registered' : ConfigOf(d)'.max_backoff_level \in Nat
  BY <1>3 DEF ConfigInv, ThrottleConfigs
<1>5. CountersInv'
  BY <1>1, <1>2, <1>3, <1>4 DEF CountersInv, Registered, Fresh
<1>6. ASSUME NEW o \in Observers, reader[o].call # "none"
      PROVE  Registered' = Registered
  <2>1. ~ InsertThrottle(t)
    BY <1>6 DEF CreateLocked, Writes, InsertThrottle, NotReading
  <2>2. entries'["throttle"] = entries["throttle"]
    BY <1>1, <1>2, <2>1, RegistersOne
  <2> QED
    BY <2>2 DEF Registered
<1> QED
  BY <1>1, <1>2, <1>3, <1>5, <1>6, ObserverUntouched

\* A domain's counters change: no total goes down, no level passes max_backoff_level.
LEMMA ChangeKeeps ==
  ASSUME ObservabilityInv, NEW d \in Registered, NEW new \in Counters, Change(d, new),
         new.level <= ConfigOf(d).max_backoff_level,
         \A f \in Totals : counters[d][f] <= new[f]
  PROVE  CountersInv' /\ \A o \in Observers : ObserverInv(o)'
<1>1. UNCHANGED <<registryVars, reader>> /\ counters' = [counters EXCEPT ![d] = new]
  BY DEF Change
<1>2. Registered' = Registered /\ \A e : ConfigOf(e)' = ConfigOf(e)
  BY <1>1 DEF registryVars, Registered, ConfigOf
<1>3. d \in Domains /\ CountersInv /\ ReadersInv /\ ConfigInv
  BY DEF Registered, ObservabilityInv
<1>4. /\ counters' \in [Domains -> Counters] /\ counters'[d] = new
      /\ \A e \in Domains \ {d} : counters'[e] = counters[e]
  BY <1>1, <1>3 DEF CountersInv
<1>5. CountersInv'
  <2>1. \A e \in Registered : counters'[e].level <= ConfigOf(e).max_backoff_level
    <3>1. \A e \in Registered : e \in Domains
      BY DEF Registered
    <3> QED
      BY <1>3, <1>4, <3>1 DEF CountersInv
  <2>2. \A e \in Domains \ Registered : counters'[e] = Fresh
    BY <1>3, <1>4 DEF CountersInv
  <2> QED
    BY <1>2, <1>4, <2>1, <2>2 DEF CountersInv
<1>6. \A e \in Domains, f \in Totals : /\ counters[e][f] \in Nat /\ counters'[e][f] \in Nat
                                       /\ counters[e][f] <= counters'[e][f]
  BY <1>3, <1>4 DEF CountersInv, Counters, Totals
<1>7. ASSUME NEW o \in Observers PROVE ObserverInv(o)'
  <2>1. ObserverInv(o) /\ ReaderInv(o) /\ reader'[o] = reader[o]
    BY <1>1, <1>3 DEF ObservabilityInv, ReadersInv
  <2>2. CallInv(o)'
    BY <2>1 DEF ObserverInv, CallInv
  <2>3. DOMAIN seen'[o] = DOMAIN seen[o]
    BY DEF Change
  <2>4. ASSUME reader[o].call # "none", NEW e \in Registered
        PROVE  /\ e \in DOMAIN seen[o]
               /\ seen[o][e].levels \subseteq seen'[o][e].levels
               /\ e # d => seen'[o][e] = seen[o][e]
               /\ seen'[o][e].levels \subseteq seen[o][e].levels \cup {new.level}
               /\ e = d /\ (d \in reader[o].left \/ d = reader[o].at) =>
                    new.level \in seen'[o][e].levels
               /\ \A f \in Totals : seen'[o][e].start[f] = seen[o][e].start[f]
    <3>1. e \in DOMAIN seen[o]
      BY <2>1, <2>4 DEF ObserverInv, SeenInv
    <3> DEFINE noticed == e = d /\ (d \in reader[o].left \/ d = reader[o].at)
    <3>2. seen'[o][e] = IF noticed THEN [seen[o][e] EXCEPT !.levels = @ \cup {new.level}]
                        ELSE seen[o][e]
      BY <3>1 DEF Change
    <3> QED
      BY <3>1, <3>2
  <2>5. ASSUME reader[o].call # "none", NEW e \in Registered
        PROVE  /\ e \in DOMAIN seen'[o]
               /\ seen'[o][e].levels \subseteq 0 .. ConfigOf(e).max_backoff_level
               /\ YetToRead(o, e) => counters'[e].level \in seen'[o][e].levels
               /\ seen'[o][e].levels # {}
               /\ \A f \in Totals : seen'[o][e].start[f] \in 0 .. counters'[e][f]
    <3>1. /\ seen[o][e].levels \subseteq 0 .. ConfigOf(e).max_backoff_level
          /\ YetToRead(o, e) => counters[e].level \in seen[o][e].levels
          /\ seen[o][e].levels # {}
          /\ \A f \in Totals : seen[o][e].start[f] \in 0 .. counters[e][f]
      BY <2>1, <2>5 DEF ObserverInv, SeenInv
    <3>2. e \in Domains
      BY DEF Registered
    <3>3. ConfigOf(e).max_backoff_level \in Nat /\ new.level \in Nat
      BY <1>3 DEF ConfigInv, ThrottleConfigs, Counters
    <3>4. \A f \in Totals : seen'[o][e].start[f] \in 0 .. counters'[e][f]
      <4> SUFFICES ASSUME NEW f \in Totals
                   PROVE  seen'[o][e].start[f] \in 0 .. counters'[e][f]
        OBVIOUS
      <4>1. /\ seen'[o][e].start[f] = seen[o][e].start[f]
            /\ seen[o][e].start[f] \in 0 .. counters[e][f]
        BY <2>4, <2>5, <3>1
      <4>2. counters[e][f] \in Nat /\ counters'[e][f] \in Nat /\ counters[e][f] <= counters'[e][f]
        BY <1>6, <3>2
      <4> QED
        BY <4>1, <4>2
    <3>5. seen'[o][e].levels \subseteq 0 .. ConfigOf(e).max_backoff_level
      <4>1. e = d => new.level \in 0 .. ConfigOf(e).max_backoff_level
        BY <3>3
      <4> QED
        BY <2>4, <2>5, <3>1, <4>1
    <3>6. /\ YetToRead(o, e) => counters'[e].level \in seen'[o][e].levels
          /\ seen'[o][e].levels # {}
      BY <1>4, <2>4, <2>5, <3>1, <3>2 DEF YetToRead
    <3> QED
      BY <2>3, <2>4, <2>5, <3>4, <3>5, <3>6
  <2>6. SeenInv(o)'
    BY <1>2, <2>1, <2>5 DEF SeenInv, YetToRead
  <2>7. ASSUME reader[o].call # "none", NEW e \in DOMAIN reader[o].got
        PROVE  GotInv(o, e)'
    <3>1. e \in Registered /\ e \in Domains /\ GotInv(o, e)
      BY <2>1, <2>7 DEF ReaderInv, ObserverInv, Registered
    <3>2. DelaysSeen(o, e) \subseteq DelaysSeen(o, e)'
      BY <1>2, <2>4, <2>7, <3>1 DEF DelaysSeen
    <3>3. Pending(o, e)' = Pending(o, e)
      BY <2>1 DEF Pending
    <3> DEFINE got == reader[o].got[e]
    <3>4. ASSUME NEW f \in Totals, got[f] \in seen[o][e].start[f] .. counters[e][f]
          PROVE  got[f] \in seen'[o][e].start[f] .. counters'[e][f]
      <4>1. /\ seen'[o][e].start[f] = seen[o][e].start[f]
            /\ seen[o][e].start[f] \in 0 .. counters[e][f]
        BY <2>1, <2>4, <2>7, <3>1 DEF ObserverInv, SeenInv
      <4>2. counters[e][f] \in Nat /\ counters'[e][f] \in Nat /\ counters[e][f] <= counters'[e][f]
        BY <1>6, <3>1
      <4> QED
        BY <3>4, <4>1, <4>2
    <3>5. reader[o].call = "snapshot" => got.level \in seen'[o][e].levels
      BY <2>4, <2>7, <3>1 DEF GotInv
    <3> QED
      BY <2>1, <3>1, <3>2, <3>3, <3>4, <3>5 DEF GotInv
  <2> QED
    BY <2>1, <2>2, <2>6, <2>7 DEF ObserverInv
<1> QED
  BY <1>5, <1>7

\* What a transport does to a domain is such a change.
LEMMA UseKeeps ==
  ASSUME ObservabilityInv, NEW d \in Domains, Use(d) \/ Lower(d)
  PROVE  CountersInv' /\ \A o \in Observers : ObserverInv(o)'
<1> DEFINE c == counters[d]
           top == ConfigOf(d).max_backoff_level
           up == IF c.level < top THEN c.level + 1 ELSE c.level
<1>1. c \in Counters /\ DOMAIN c = {"level", "rateLimits", "successes", "skips"}
  BY DEF ObservabilityInv, CountersInv, Counters
<1>2. d \in Registered => top \in Nat /\ c.level <= top
  BY DEF ObservabilityInv, ConfigInv, CountersInv, ThrottleConfigs
<1>3. CASE Lower(d)
  <2>1. PICK n \in 0 .. c.level - 1 : Change(d, [c EXCEPT !.level = n])
    BY <1>3 DEF Lower
  <2> DEFINE new == [c EXCEPT !.level = n]
  <2>2. d \in Registered
    <3>1. c.level # 0
      BY <1>1, <2>1 DEF Counters
    <3> QED
      BY <3>1 DEF ObservabilityInv, CountersInv, Fresh
  <2> HIDE DEF top
  <2>3. /\ new \in Counters /\ new.level <= top
        /\ \A f \in Totals : c[f] <= new[f]
    BY <1>1, <1>2, <2>1, <2>2 DEF Counters, Totals
  <2> QED
    BY <2>1, <2>2, <2>3, ChangeKeeps DEF top
<1>4. CASE Use(d)
  <2>1. d \in Registered
    BY <1>4 DEF Use
  <2>2. \/ Change(d, [c EXCEPT !.level = up, !.rateLimits = @ + 1])
        \/ Change(d, [c EXCEPT !.successes = @ + 1])
        \/ Change(d, [c EXCEPT !.skips = @ + 1])
    BY <1>4 DEF Use
  <2>3. up \in Nat /\ up <= top
    BY <1>1, <1>2, <2>1 DEF Counters
  <2> HIDE DEF top, up
  <2>4. ASSUME NEW new, \/ new = [c EXCEPT !.level = up, !.rateLimits = @ + 1]
                        \/ new = [c EXCEPT !.successes = @ + 1]
                        \/ new = [c EXCEPT !.skips = @ + 1]
        PROVE  /\ new \in Counters /\ new.level <= top
               /\ \A f \in Totals : c[f] <= new[f]
    <3>1. /\ DOMAIN new = {"level", "rateLimits", "successes", "skips"}
          /\ new.level \in {c.level, up}
          /\ \A f \in Totals : new[f] \in {c[f], c[f] + 1}
      BY <1>1, <2>4 DEF Totals
    <3>2. /\ c.level \in Nat /\ \A f \in Totals : c[f] \in Nat
          /\ new = [level |-> new.level, rateLimits |-> new.rateLimits,
                    successes |-> new.successes, skips |-> new.skips]
      BY <1>1, <2>4 DEF Counters, Totals
    <3>3. new.level \in Nat /\ new.level <= top
      BY <1>2, <2>1, <2>3, <3>1, <3>2
    <3>4. \A f \in Totals : new[f] \in Nat /\ c[f] <= new[f]
      BY <3>1, <3>2
    <3> QED
      BY <3>2, <3>3, <3>4 DEF Counters, Totals
  <2> QED
    BY <2>1, <2>2, <2>4, ChangeKeeps DEF top
<1> QED
  BY <1>3, <1>4

-----------------------------------------------------------------------------
(* The observers go on.                                                      *)

\* A step of one observer, which leaves the domains and the others alone.
LEMMA OtherObservers ==
  ASSUME ObservabilityInv, UNCHANGED <<registryVars, counters>>,
         NEW p \in Observers, reader'[p] = reader[p], seen'[p] = seen[p]
  PROVE  ObserverInv(p)'
<1>1. Registered' = Registered /\ \A d : ConfigOf(d)' = ConfigOf(d)
  BY DEF registryVars, Registered, ConfigOf
<1>2. ObserverInv(p)
  BY DEF ObservabilityInv
<1>3. CallInv(p)' /\ SeenInv(p)'
  BY <1>1, <1>2 DEF ObserverInv, CallInv, SeenInv, YetToRead
<1>4. ASSUME reader[p].call # "none", NEW d \in DOMAIN reader[p].got
      PROVE  GotInv(p, d)'
  <2>1. GotInv(p, d)
    BY <1>2, <1>4 DEF ObserverInv
  <2>2. DelaysSeen(p, d)' = DelaysSeen(p, d) /\ Pending(p, d)' = Pending(p, d)
    BY <1>1 DEF DelaysSeen, Pending
  <2> QED
    BY <2>1, <2>2 DEF GotInv
<1> QED
  BY <1>3, <1>4 DEF ObserverInv

LEMMA NotReadingKeeps ==
  ASSUME NEW o, reader[o] = NotReading PROVE ObserverInv(o)
BY DEF NotReading, ObserverInv, CallInv, SeenInv, Rests

LEMMA BeginKeeps ==
  ASSUME ObservabilityInv, NEW o \in Observers, NEW call \in DOMAIN Loads, Begin(o, call)
  PROVE  DOMAIN seen' = Observers /\ \A p \in Observers : ObserverInv(p)'
<1>1. UNCHANGED <<registryVars, counters>> /\ reader[o] = NotReading
  BY DEF Begin
<1>2. Registered' = Registered /\ \A d : ConfigOf(d)' = ConfigOf(d)
  BY <1>1 DEF registryVars, Registered, ConfigOf
<1>3. /\ DOMAIN reader = Observers /\ DOMAIN seen = Observers
      /\ CountersInv /\ ConfigInv
  BY DEF ObservabilityInv, ReadersInv
<1>4. /\ \A p \in Observers \ {o} : reader'[p] = reader[p] /\ seen'[p] = seen[p]
      /\ reader'[o] = [NotReading EXCEPT !.call = call, !.left = Registered]
      /\ seen'[o] =
           [d \in Registered |-> [start |-> [f \in Totals |-> counters[d][f]],
                                  levels |-> {counters[d].level}]]
      /\ DOMAIN seen' = Observers
  BY <1>3 DEF Begin
<1>5. /\ reader'[o].call = call /\ reader'[o].todo = <<>> /\ DOMAIN reader'[o].got = {}
  BY <1>4 DEF NotReading
<1>6. CallInv(o)'
  BY <1>5 DEF CallInv, Rests, Loads
<1>7. SeenInv(o)'
  <2>1. ASSUME NEW d \in Registered
        PROVE  /\ d \in DOMAIN seen'[o]
               /\ seen'[o][d].levels = {counters[d].level}
               /\ counters[d].level \in 0 .. ConfigOf(d).max_backoff_level
               /\ \A f \in Totals : seen'[o][d].start[f] \in 0 .. counters[d][f]
    <3>1. ConfigOf(d).max_backoff_level \in Nat /\ counters[d].level \in Nat
      BY <1>3 DEF ConfigInv, ThrottleConfigs, CountersInv, Counters, Registered
    <3>2. counters[d].level <= ConfigOf(d).max_backoff_level
      BY <1>3 DEF CountersInv, Registered
    <3>3. \A f \in Totals : counters[d][f] \in Nat
      BY <1>3 DEF CountersInv, Counters, Totals, Registered
    <3>4. seen'[o][d] = [start |-> [f \in Totals |-> counters[d][f]],
                         levels |-> {counters[d].level}]
      BY <1>4
    <3> QED
      BY <1>4, <3>1, <3>2, <3>3, <3>4
  <2> QED
    BY <1>1, <1>2, <2>1 DEF SeenInv
<1> QED
  BY <1>1, <1>4, <1>5, <1>6, <1>7, OtherObservers DEF ObserverInv

LEMMA EndKeeps ==
  ASSUME ObservabilityInv, NEW o \in Observers, End(o)
  PROVE  DOMAIN seen' = Observers /\ \A p \in Observers : ObserverInv(p)'
<1>1. UNCHANGED <<registryVars, counters>>
  BY DEF End
<1>2. DOMAIN reader = Observers /\ DOMAIN seen = Observers
  BY DEF ObservabilityInv, ReadersInv
<1>3. /\ \A p \in Observers \ {o} : reader'[p] = reader[p] /\ seen'[p] = seen[p]
      /\ reader'[o] = NotReading /\ DOMAIN seen' = Observers
  BY <1>2 DEF End
<1>4. ObserverInv(o)'
  BY <1>3 DEF NotReading, ObserverInv, CallInv, SeenInv, Rests
<1> QED
  BY <1>1, <1>3, <1>4, OtherObservers

\* Where an observer is in its loads of a domain.
LEMMA LoadCases ==
  ASSUME NEW o, CallInv(o), reader[o].call # "none", NEW todo,
         todo = IF reader[o].todo = <<>> THEN Loads[reader[o].call] ELSE reader[o].todo
  PROVE  /\ Tail(todo) \in Rests[reader[o].call]
         /\ \/ /\ Head(todo) = "delay" /\ Tail(todo) \in {<<>>, <<"totals">>}
               /\ reader[o].call = "snapshot" =>
                    Tail(todo) = <<"totals">> /\ reader[o].todo # <<>>
            \/ /\ Head(todo) = "successes" /\ Tail(todo) = <<"delay">>
               /\ reader[o].call = "weighted"
            \/ /\ Head(todo) = "level" /\ Tail(todo) = <<"delay", "totals">>
            \/ /\ Head(todo) = "totals" /\ Tail(todo) = <<>>
               /\ reader[o].call = "snapshot" /\ reader[o].todo = <<"totals">>
<1> DEFINE call == reader[o].call
           rest == reader[o].todo
<1>1. /\ call \in {"max", "weighted", "snapshot"} /\ rest \in Rests[call]
  BY DEF CallInv, Rests
<1>2. /\ Loads["max"] = <<"delay">> /\ Loads["weighted"] = <<"successes", "delay">>
      /\ Loads["snapshot"] = <<"level", "delay", "totals">>
      /\ Rests["max"] = {<<>>} /\ Rests["weighted"] = {<<>>, <<"delay">>}
      /\ Rests["snapshot"] = {<<>>, <<"totals">>, <<"delay", "totals">>}
  BY DEF Loads, Rests
<1> HIDE DEF call, rest
<1>3. todo = IF rest = <<>> THEN Loads[call] ELSE rest
  BY DEF call, rest
<1>4. CASE call = "max"
  <2>1. todo = <<"delay">>
    BY <1>1, <1>2, <1>3, <1>4
  <2> QED
    BY <1>2, <1>4, <2>1, LoadOrder DEF call
<1>5. CASE call = "weighted"
  <2>1. todo = <<"successes", "delay">> \/ todo = <<"delay">>
    BY <1>1, <1>2, <1>3, <1>5
  <2> QED
    BY <1>2, <1>5, <2>1, LoadOrder DEF call
<1>6. CASE call = "snapshot"
  <2>1. \/ todo = <<"level", "delay", "totals">> /\ rest = <<>>
        \/ todo = <<"delay", "totals">> /\ rest = todo
        \/ todo = <<"totals">> /\ rest = todo
    BY <1>1, <1>2, <1>3, <1>6
  <2> QED
    BY <1>2, <1>6, <2>1, LoadOrder DEF call, rest
<1> QED
  BY <1>1, <1>4, <1>5, <1>6
Loaded(d, got, field) ==
  CASE field = "delay" -> {[got EXCEPT !.delay = w] : w \in Delays(d, counters[d].level)}
    [] field = "totals" ->
         {[f \in DOMAIN got |-> IF f \in Totals THEN counters[d][f] ELSE got[f]]}
    [] OTHER -> {[got EXCEPT ![field] = counters[d][field]]}

\* What one more load makes of what was got of a domain before.
LEMMA LoadedValue ==
  ASSUME ObservabilityInv, NEW o \in Observers, reader[o].call # "none",
         NEW d \in Registered, YetToRead(o, d), NEW todo,
         todo = IF reader[o].todo = <<>> THEN Loads[reader[o].call] ELSE reader[o].todo,
         reader[o].todo # <<>> => d = reader[o].at, NEW got,
         got = IF reader[o].todo = <<>> THEN Unread ELSE reader[o].got[d], NEW v,
         v \in Loaded(d, got, Head(todo))
  PROVE  /\ v \in Readings
         /\ Tail(todo) \in {<<>>, <<"totals">>} => v.delay \in DelaysSeen(o, d)
         /\ reader[o].call = "snapshot" => v.level \in seen[o][d].levels
         /\ reader[o].call = "snapshot" /\ Tail(todo) = <<>> =>
              \A f \in Totals : v[f] \in seen[o][d].start[f] .. counters[d][f]
<1> DEFINE call == reader[o].call
           rest == reader[o].todo
           c == counters[d]
<1>1. /\ ReaderInv(o) /\ ObserverInv(o) /\ ConfigInv /\ CountersInv
  BY DEF ObservabilityInv, ReadersInv
<1>2. c \in Counters /\ c.level \in Nat
  BY <1>1 DEF CountersInv, Registered, Counters
<1>3. rest # <<>> => GotInv(o, d)
  BY <1>1 DEF ReaderInv, ObserverInv
<1>4. got \in Readings
  BY <1>3 DEF GotInv, Unread, Readings
<1>5. /\ c.level \in seen[o][d].levels
      /\ \A f \in Totals : seen[o][d].start[f] \in 0 .. c[f]
  BY <1>1 DEF ObserverInv, SeenInv
<1>6. Delays(d, c.level) \subseteq DelaysSeen(o, d)
  BY <1>5 DEF Delays, DelaysSeen
<1>7. DelaysSeen(o, d) \subseteq Nat
  BY <1>1, DelaysSeenTypes DEF ObserverInv
<1>8. rest # <<>> => Pending(o, d) = rest
  BY DEF Pending
<1>9. /\ rest # <<>> /\ call = "snapshot" => got.level \in seen[o][d].levels
      /\ rest = <<"totals">> => got.delay \in DelaysSeen(o, d)
  BY <1>3, <1>8, LoadOrder DEF GotInv
<1>10. CallInv(o)
  BY <1>1 DEF ObserverInv
<1>11. CASE /\ Head(todo) = "delay" /\ Tail(todo) \in {<<>>, <<"totals">>}
            /\ call = "snapshot" => Tail(todo) = <<"totals">> /\ rest # <<>>
  <2>1. PICK w \in Delays(d, c.level) : v = [got EXCEPT !.delay = w]
    BY <1>11 DEF Loaded
  <2>2. v \in Readings /\ v.delay = w /\ v.level = got.level /\ w \in DelaysSeen(o, d)
    BY <1>4, <1>6, <1>7, <2>1 DEF Readings
  <2> QED
    BY <1>9, <1>11, <2>2, LoadOrder
<1>12. CASE /\ Head(todo) = "successes" /\ Tail(todo) = <<"delay">>
            /\ call = "weighted"
  <2>1. v = [got EXCEPT !.successes = c.successes]
    BY <1>12 DEF Loaded
  <2>2. v \in Readings
    BY <1>2, <1>4, <2>1 DEF Readings, Counters
  <2> QED
    BY <1>12, <2>2, LoadOrder
<1>13. CASE /\ Head(todo) = "level" /\ Tail(todo) = <<"delay", "totals">>
  <2>1. v = [got EXCEPT !.level = c.level]
    BY <1>13 DEF Loaded
  <2>2. v \in Readings /\ v.level = c.level
    BY <1>2, <1>4, <2>1 DEF Readings
  <2> QED
    BY <1>5, <1>13, <2>2, LoadOrder
<1>14. CASE /\ Head(todo) = "totals" /\ Tail(todo) = <<>>
            /\ call = "snapshot" /\ rest = <<"totals">>
  <2>1. v = [f \in DOMAIN got |-> IF f \in Totals THEN c[f] ELSE got[f]]
    BY <1>14 DEF Loaded
  <2>2. DOMAIN got = {"level", "delay", "rateLimits", "successes", "skips"}
    BY <1>4 DEF Readings
  <2>3. /\ v.level = got.level /\ v.delay = got.delay
        /\ v.rateLimits = c.rateLimits /\ v.successes = c.successes /\ v.skips = c.skips
        /\ v = [level |-> v.level, delay |-> v.delay, rateLimits |-> v.rateLimits,
                successes |-> v.successes, skips |-> v.skips]
    BY <2>1, <2>2 DEF Totals
  <2>4. v \in Readings
    BY <1>2, <1>4, <2>3 DEF Readings, Counters
  <2>5. \A f \in Totals : v[f] = c[f] /\ c[f] \in Nat
    BY <1>2, <2>3 DEF Totals, Counters
  <2>6. ASSUME NEW f \in Totals PROVE v[f] \in seen[o][d].start[f] .. c[f]
    BY <1>5, <2>5, <2>6
  <2> QED
    BY <1>9, <1>14, <2>3, <2>4, <2>6, LoadOrder
<1>15. \/ /\ Head(todo) = "delay" /\ Tail(todo) \in {<<>>, <<"totals">>}
          /\ call = "snapshot" => Tail(todo) = <<"totals">> /\ rest # <<>>
       \/ Head(todo) = "successes" /\ Tail(todo) = <<"delay">> /\ call = "weighted"
       \/ Head(todo) = "level" /\ Tail(todo) = <<"delay", "totals">>
       \/ /\ Head(todo) = "totals" /\ Tail(todo) = <<>>
          /\ call = "snapshot" /\ rest = <<"totals">>
  BY <1>10, LoadCases
<1> QED
  BY <1>11, <1>12, <1>13, <1>14, <1>15

LEMMA LoadKeeps ==
  ASSUME ObservabilityInv, NEW o \in Observers, NEW d \in Domains, Load(o, d)
  PROVE  DOMAIN seen' = Observers /\ \A p \in Observers : ObserverInv(p)'
<1> DEFINE r == reader[o]
           todo == IF r.todo = <<>> THEN Loads[r.call] ELSE r.todo
           c == counters[d]
           got == IF r.todo = <<>> THEN Unread ELSE r.got[d]
           values == Loaded(d, got, Head(todo))
<1>1. /\ UNCHANGED <<registryVars, counters, seen>>
      /\ IF r.todo = <<>> THEN d \in r.left ELSE d = r.at
  BY DEF Load
<1>2. PICK v \in values : reader' = [reader EXCEPT
        ![o].left = @ \ {d}, ![o].todo = Tail(todo),
        ![o].at = IF Tail(todo) = <<>> THEN None ELSE d, ![o].got = With(@, d, v)]
  BY DEF Load, Loaded
<1>3. /\ ReaderInv(o) /\ ObserverInv(o) /\ DOMAIN reader = Observers
      /\ DOMAIN seen = Observers
  BY DEF ObservabilityInv, ReadersInv
<1>4. r.call # "none"
  BY <1>1, <1>3 DEF ReaderInv, NotReading
<1>5. d \in Registered /\ YetToRead(o, d)
  BY <1>1, <1>3, <1>4 DEF ReaderInv, YetToRead
<1>6. /\ v \in Readings
      /\ Tail(todo) \in {<<>>, <<"totals">>} => v.delay \in DelaysSeen(o, d)
      /\ r.call = "snapshot" => v.level \in seen[o][d].levels
      /\ r.call = "snapshot" /\ Tail(todo) = <<>> =>
           \A f \in Totals : v[f] \in seen[o][d].start[f] .. c[f]
  <2> HIDE DEF got, todo
  <2>1. /\ todo = IF r.todo = <<>> THEN Loads[r.call] ELSE r.todo
        /\ got = IF r.todo = <<>> THEN Unread ELSE r.got[d]
    BY DEF got, todo
  <2>2. r.todo # <<>> => d = r.at
    BY <1>1
  <2>3. v \in Loaded(d, got, Head(todo))
    BY <1>2
  <2> HIDE DEF values
  <2> QED
    BY <1>4, <1>5, <2>1, <2>2, <2>3, LoadedValue
<1>7. Tail(todo) \in Rests[r.call]
  BY <1>3, <1>4, LoadCases DEF ObserverInv
<1> HIDE DEF todo, values
<1>8. /\ \A p \in Observers \ {o} : reader'[p] = reader[p]
      /\ reader'[o].call = r.call /\ reader'[o].left = r.left \ {d}
      /\ reader'[o].todo = Tail(todo)
      /\ reader'[o].at = IF Tail(todo) = <<>> THEN None ELSE d
      /\ reader'[o].got = With(r.got, d, v)
  BY <1>2, <1>3 DEF ReaderInv, ReaderFields
<1>9. Registered' = Registered /\ \A e : ConfigOf(e)' = ConfigOf(e)
  BY <1>1 DEF registryVars, Registered, ConfigOf
<1>10. CallInv(o)'
  BY <1>3, <1>7, <1>8 DEF ObserverInv, CallInv
<1>11. SeenInv(o)'
  <2>1. ASSUME NEW e \in Registered, YetToRead(o, e)' PROVE YetToRead(o, e)
    BY <1>5, <1>8, <2>1 DEF YetToRead
  <2> QED
    BY <1>1, <1>3, <1>4, <1>9, <2>1 DEF ObserverInv, SeenInv
<1>12. \A e : DelaysSeen(o, e)' = DelaysSeen(o, e)
  BY <1>1, <1>9 DEF DelaysSeen
<1>13. ASSUME NEW e \in DOMAIN reader'[o].got PROVE GotInv(o, e)'
  <2>1. DOMAIN reader'[o].got = DOMAIN r.got \cup {d}
    BY <1>8 DEF With
  <2>2. CASE e = d
    <3>1. reader'[o].got[e] = v
      BY <1>8, <2>2 DEF With
    <3>2. Pending(o, e)' = Tail(todo)
      BY <1>8, <2>2 DEF Pending
    <3> QED
      BY <1>1, <1>6, <1>8, <1>12, <2>2, <3>1, <3>2 DEF GotInv, Readings
  <2>3. CASE e # d
    <3>1. e \in DOMAIN r.got /\ reader'[o].got[e] = r.got[e]
      BY <1>8, <1>13, <2>1, <2>3 DEF With
    <3>2. Pending(o, e)' = <<>>
      BY <1>8, <2>3 DEF Pending
    <3>3. Pending(o, e) = <<>>
      BY <1>1, <2>3 DEF Pending
    <3>4. GotInv(o, e)
      BY <1>3, <1>4, <3>1 DEF ObserverInv
    <3> QED
      BY <1>1, <1>8, <1>12, <3>1, <3>2, <3>3, <3>4 DEF GotInv
  <2> QED
    BY <2>2, <2>3
<1>14. ObserverInv(o)'
  BY <1>10, <1>11, <1>13 DEF ObserverInv
<1> QED
  BY <1>1, <1>3, <1>8, <1>14, OtherObservers

-----------------------------------------------------------------------------
(* The invariant.                                                            *)

LEMMA ObservabilityInvInit == ObservabilityInit => ObservabilityInv
<1> SUFFICES ASSUME ObservabilityInit PROVE ObservabilityInv
  OBVIOUS
<1>1. RegistryInv /\ ReadersInv
  BY RegistryInvInit, ReadersInvInit DEF ObservabilityInit
<1>2. Registered = {}
  BY DEF ObservabilityInit, Init, Registered, Kinds
<1>3. ConfigInv
  <2>1. default["throttle"] = DefaultThrottleConfig
    BY DEF ObservabilityInit, Init, FirstDefault
  <2>2. DefaultThrottleConfig \in ThrottleConfigs
    BY DEF DefaultThrottleConfig, ThrottleConfigs
  <2> QED
    BY <1>2, <2>1, <2>2, FS_EmptySet DEF ConfigInv
<1>4. CountersInv
  BY <1>2 DEF ObservabilityInit, CountersInv, Counters, Fresh
<1>5. DOMAIN seen = Observers /\ \A o \in Observers : reader[o] = NotReading
  BY DEF ObservabilityInit
<1> QED
  BY <1>1, <1>3, <1>4, <1>5, NotReadingKeeps DEF ObservabilityInv

LEMMA ObservabilityInvStep == ObservabilityInv /\ [Next]_vars => ObservabilityInv'
<1> SUFFICES ASSUME ObservabilityInv, [Next]_vars PROVE ObservabilityInv'
  OBVIOUS
<1>1. RegistryInv' /\ ReadersInv'
  BY RegistryInvStep, ObserversOnlyRead, ReadersInvStep DEF ObservabilityInv
<1>2. ConfigInv'
  BY ConfigKeeps, ObserversOnlyRead DEF ObservabilityInv
<1>3. ASSUME NEW t \in Threads, CreateLocked(t)
      PROVE  CountersInv' /\ DOMAIN seen' = Observers /\ \A o \in Observers : ObserverInv(o)'
  BY <1>3, CreateKeeps DEF CreateLocked, ObservabilityInv
<1>4. ASSUME NEW d \in Domains, Use(d) \/ Lower(d)
      PROVE  CountersInv' /\ DOMAIN seen' = Observers /\ \A o \in Observers : ObserverInv(o)'
  BY <1>4, UseKeeps DEF Use, Lower, Change
<1>5. ASSUME NEW o \in Observers, Observe(o)
      PROVE  CountersInv' /\ DOMAIN seen' = Observers /\ \A p \in Observers : ObserverInv(p)'
  <2>1. UNCHANGED <<registryVars, counters>>
    BY <1>5 DEF Observe, Begin, Load, End
  <2>2. CountersInv'
    BY <2>1 DEF ObservabilityInv, CountersInv, registryVars, Registered, ConfigOf
  <2> QED
    BY <1>5, <2>2, BeginKeeps, LoadKeeps, EndKeeps DEF Observe
<1>6. CASE UNCHANGED <<registryVars, counters, reader, seen>>
  <2>1. Registered' = Registered /\ \A d : ConfigOf(d)' = ConfigOf(d)
    BY <1>6 DEF registryVars, Registered, ConfigOf
  <2>2. CountersInv' /\ DOMAIN seen' = Observers
    BY <1>6, <2>1 DEF ObservabilityInv, CountersInv
  <2> QED
    BY <1>1, <1>2, <1>6, <2>2, OtherObservers DEF ObservabilityInv
<1> QED
  BY <1>1, <1>2, <1>3, <1>4, <1>5, <1>6 DEF Next, vars, AllBuilt, ObservabilityInv

\* The level of a domain stays at most max_backoff_level of the configuration it was
\* registered with, whose backoff table may be shorter; a domain nobody has registered
\* has no traffic.
THEOREM ObservabilityTypes == Spec => []TypeOK
<1>1. ObservabilityInv => TypeOK
  <2> SUFFICES ASSUME ObservabilityInv PROVE TypeOK
    OBVIOUS
  <2>1. Types /\ \A t \in Threads : Control(t)
    BY DEF ObservabilityInv, RegistryInv, ThreadInv
  <2>2. default \in [Kinds -> ThrottleConfigs \cup HttpClientConfigs]
    BY <2>1 DEF Types, Configs
  <2>3. ASSUME NEW k \in Kinds, NEW d \in Domains, entries[k][d] # NoEntry
        PROVE  entries[k][d].number = 1
    BY <2>1, <2>3 DEF Types, Entry
  <2>4. ASSUME NEW t \in Threads PROVE nth[t] \in 1 .. Len(ProgramOf[t]) + 1
    <3>1. Len(ProgramOf[t]) \in Nat /\ DOMAIN ProgramOf[t] = 1 .. Len(ProgramOf[t])
      BY ProgramLength
    <3>2. nth[t] = Len(ProgramOf[t]) + 1 \/ nth[t] \in 1 .. Len(ProgramOf[t])
      BY <2>1, <3>1 DEF Control
    <3> QED
      BY <3>1, <3>2
  <2>5. \A o \in Observers : reader[o].call \in DOMAIN Loads \cup {"none"}
    BY DEF ObservabilityInv, ObserverInv, CallInv, Rests, Loads
  <2> QED
    BY <2>2, <2>3, <2>4, <2>5 DEF TypeOK, RegistryTypeOK, ObservabilityInv, CountersInv
<1> QED
  BY <1>1, ObservabilityInvInit, ObservabilityInvStep, PTL DEF Spec

-----------------------------------------------------------------------------
(* What the calls report.                                                    *)

\* When a call is complete it has read every registered domain.
LEMMA CompleteCall ==
  ASSUME ObservabilityInv, NEW o \in Observers, Complete(o)
  PROVE  /\ DOMAIN reader[o].got = Registered /\ IsFiniteSet(Registered)
         /\ \A d \in Registered :
              /\ reader[o].got[d] \in Readings
              /\ reader[o].got[d].delay \in DelaysSeen(o, d)
              /\ DelaysSeen(o, d) \subseteq Nat
<1>1. ReaderInv(o) /\ ObserverInv(o) /\ ConfigInv
  BY DEF ObservabilityInv, ReadersInv
<1>2. reader[o].call # "none" /\ reader[o].left = {} /\ reader[o].todo = <<>>
  BY DEF Complete
<1>3. DOMAIN reader[o].got = Registered
  BY <1>1, <1>2 DEF ReaderInv
<1>4. ASSUME NEW d \in Registered
      PROVE  /\ reader[o].got[d] \in Readings
             /\ reader[o].got[d].delay \in DelaysSeen(o, d)
             /\ DelaysSeen(o, d) \subseteq Nat
  <2>1. GotInv(o, d) /\ Pending(o, d) = <<>>
    BY <1>1, <1>2, <1>3 DEF ObserverInv, Pending
  <2>2. DelaysSeen(o, d) \subseteq Nat
    BY <1>1, <1>2, DelaysSeenTypes DEF ObserverInv
  <2> QED
    BY <2>1, <2>2 DEF GotInv
<1> QED
  BY <1>1, <1>3, <1>4 DEF ConfigInv

\* What a snapshot has of a domain.
LEMMA CompleteSnapshot ==
  ASSUME ObservabilityInv, NEW o \in Observers, Complete(o), reader[o].call = "snapshot",
         NEW d \in Registered
  PROVE  /\ reader[o].got[d].level \in seen[o][d].levels
         /\ \A f \in Totals :
              /\ reader[o].got[d][f] \in seen[o][d].start[f] .. counters[d][f]
              /\ seen[o][d].start[f] \in Nat /\ counters[d][f] \in Nat
<1>1. /\ ObserverInv(o) /\ CountersInv /\ d \in Domains /\ d \in DOMAIN reader[o].got
  BY CompleteCall DEF ObservabilityInv, Registered
<1>2. GotInv(o, d) /\ Pending(o, d) = <<>> /\ SeenInv(o)
  BY <1>1 DEF ObserverInv, Pending, Complete
<1>3. \A f \in Totals : /\ counters[d][f] \in Nat
                        /\ seen[o][d].start[f] \in 0 .. counters[d][f]
  BY <1>1, <1>2 DEF CountersInv, Counters, Totals, SeenInv
<1> QED
  BY <1>2, <1>3 DEF GotInv

\* What a snapshot says of a domain it had during the call, however the loads, the
\* decays between them and the traffic of other threads interleave.
THEOREM SnapshotsAreOfTheCall == Spec => []SnapshotWithinCall
<1>1. ObservabilityInv => SnapshotWithinCall
  BY CompleteCall, CompleteSnapshot DEF SnapshotWithinCall
<1> QED
  BY <1>1, ObservabilityInvInit, ObservabilityInvStep, PTL DEF Spec

\* The largest delay an observer has got: it is zero or some domain had it during the
\* call, and it is not below the least delay each domain had in the call.
THEOREM MaximaAreOfTheCall == Spec => []MaxWithinCall
<1>1. ASSUME ObservabilityInv, NEW o \in Observers, Complete(o)
      PROVE  LET result == MaxDomainBackoff(reader[o].got)
             IN /\ \A d \in Registered : Min(DelaysSeen(o, d)) <= result
                /\ result = 0 \/ \E d \in Registered : result \in DelaysSeen(o, d)
  <2> DEFINE got == reader[o].got
             delay == [d \in Registered |-> got[d].delay]
             all == {delay[d] : d \in Registered} \cup {0}
  <2>1. /\ DOMAIN got = Registered /\ IsFiniteSet(Registered)
        /\ \A d \in Registered :
             /\ delay[d] \in DelaysSeen(o, d) /\ delay[d] = got[d].delay
             /\ DelaysSeen(o, d) \subseteq Nat
    BY <1>1, CompleteCall
  <2>2. {got[d].delay : d \in DOMAIN got} \cup {0} = all
    BY <2>1
  <2>3. MaxDomainBackoff(got) = Max(all)
    BY <2>2 DEF MaxDomainBackoff
  <2> HIDE DEF got, delay
  <2>4. IsFiniteSet(all) /\ all # {} /\ all \subseteq Nat
    <3>1. IsFiniteSet({delay[d] : d \in Registered})
      BY <2>1, ImageIsFinite
    <3> QED
      BY <2>1, <3>1, FS_AddElement, SMTT(30)
  <2> HIDE DEF all
  <2>5. Max(all) \in all /\ \A x \in all : x <= Max(all)
    BY <2>4, MaxIsLargest
  <2>6. ASSUME NEW d \in Registered PROVE Min(DelaysSeen(o, d)) <= Max(all)
    <3>1. delay[d] \in DelaysSeen(o, d) /\ delay[d] \in all
      BY <2>1 DEF all
    <3>2. /\ Min(DelaysSeen(o, d)) \in DelaysSeen(o, d)
          /\ Min(DelaysSeen(o, d)) <= delay[d]
      BY <2>1, <3>1, MinIsLeast
    <3>3. /\ Min(DelaysSeen(o, d)) \in Nat /\ delay[d] \in Nat /\ Max(all) \in Nat
          /\ delay[d] <= Max(all)
      BY <2>1, <2>4, <2>5, <3>1, <3>2
    <3> HIDE DEF all
    <3> QED
      BY <3>2, <3>3
  <2>7. Max(all) = 0 \/ \E d \in Registered : Max(all) \in DelaysSeen(o, d)
    BY <2>1, <2>5 DEF all
  <2> QED
    BY <2>3, <2>6, <2>7 DEF got
<1>2. ObservabilityInv => MaxWithinCall
  BY <1>1 DEF MaxWithinCall
<1> QED
  BY <1>2, ObservabilityInvInit, ObservabilityInvStep, PTL DEF Spec

\* A quotient lies between the bounds of what is divided.
LEMMA DivisionBetween ==
  ASSUME NEW a \in Nat, NEW b \in Nat \ {0}, NEW lo \in Nat, NEW hi \in Nat,
         lo * b <= a, a <= hi * b
  PROVE  lo <= a \div b /\ a \div b <= hi
<1> DEFINE q == a \div b
<1>1. q \in Nat /\ b * q <= a /\ a < b * (q + 1)
  OBVIOUS
<1> HIDE DEF q
<1>2. \A i, j \in Nat : i <= j => b * i <= b * j
  OBVIOUS
<1>3. lo <= q
  <2>1. ~ (lo <= q) => q + 1 <= lo
    BY <1>1
  <2>2. q + 1 <= lo => b * (q + 1) <= b * lo
    BY <1>1, <1>2
  <2>3. b * lo = lo * b /\ b * (q + 1) \in Nat /\ b * lo \in Nat
    BY <1>1
  <2> QED
    BY <1>1, <2>1, <2>2, <2>3
<1>4. q <= hi
  <2>1. ~ (q <= hi) => hi + 1 <= q
    BY <1>1
  <2>2. hi + 1 <= q => b * (hi + 1) <= b * q
    BY <1>1, <1>2
  <2>3. b * (hi + 1) = hi * b + b /\ hi * b \in Nat /\ b * q \in Nat /\ b * (hi + 1) \in Nat
    BY <1>1
  <2> QED
    BY <1>1, <2>1, <2>2, <2>3
<1> QED
  BY <1>3, <1>4 DEF q

\* A domain has finitely many delays during a call.
LEMMA DelaysSeenFinite ==
  ASSUME ObservabilityInv, NEW o \in Observers, Complete(o), NEW d \in Registered
  PROVE  IsFiniteSet(DelaysSeen(o, d))
<1> DEFINE levels == seen[o][d].levels
           delay == [level \in levels |-> DelayOf(ConfigOf(d), level)]
           top == ConfigOf(d).max_backoff_level
<1>1. levels \subseteq 0 .. top /\ top \in Nat
  BY DEF ObservabilityInv, ObserverInv, SeenInv, ConfigInv, ThrottleConfigs, Complete
<1>2. IsFiniteSet(levels)
  <2> HIDE DEF levels, top
  <2> QED
    <3>1. IsFiniteSet(0 .. top)
      <4>1. 0 \in Int /\ top \in Int
        BY <1>1
      <4> QED
        BY <4>1, FS_Interval
    <3> QED
      BY <1>1, <3>1, FS_Subset
<1>3. DelaysSeen(o, d) =
        {delay[level] : level \in levels} \cup IF 0 \in levels THEN {0} ELSE {}
  BY DEF DelaysSeen
<1> HIDE DEF levels, delay
<1>4. IsFiniteSet({delay[level] : level \in levels})
  BY <1>2, ImageIsFinite
<1> QED
  BY <1>3, <1>4, FS_AddElement

\* The average an observer works out lies between the least and the largest delay
\* of the call, whatever the traffic that weighs it: total is never zero while a
\* domain is registered, so the division is defined.
THEOREM AveragesAreOfTheCall == Spec => []WeightedWithinCall
<1>1. ASSUME ObservabilityInv, NEW o \in Observers, Complete(o), Registered # {}
      PROVE  LET delays == UNION {DelaysSeen(o, d) : d \in Registered}
                 result == WeightedDomainBackoff(reader[o].got)
             IN Min(delays) <= result /\ result <= Max(delays)
  <2> DEFINE got == reader[o].got
             delays == UNION {DelaysSeen(o, d) : d \in Registered}
             lo == Min(delays)
             hi == Max(delays)
             weight == [d \in DOMAIN got |-> IF got[d].successes > 1 THEN got[d].successes ELSE 1]
             delay == [d \in DOMAIN got |-> got[d].delay * weight[d]]
             total == SumOver(weight, Registered)
             sum == SumOver(delay, Registered)
  <2>1. /\ DOMAIN got = Registered /\ IsFiniteSet(Registered)
        /\ \A d \in Registered :
             /\ got[d].delay \in Nat /\ got[d].successes \in Nat
             /\ got[d].delay \in DelaysSeen(o, d) /\ DelaysSeen(o, d) \subseteq Nat
    BY <1>1, CompleteCall DEF Readings
  <2>2. delays # {} /\ delays \subseteq Nat /\ \A d \in Registered : got[d].delay \in delays
    BY <1>1, <2>1
  <2>3. IsFiniteSet(delays)
    <3> DEFINE of == [d \in Registered |-> DelaysSeen(o, d)]
    <3>1. IsFiniteSet({of[d] : d \in Registered})
      <4> HIDE DEF of
      <4> QED
        BY <2>1, ImageIsFinite
    <3>2. \A T \in {of[d] : d \in Registered} : IsFiniteSet(T)
      BY <1>1, DelaysSeenFinite
    <3>3. delays = UNION {of[d] : d \in Registered}
      OBVIOUS
    <3> HIDE DEF of
    <3> QED
      BY <3>1, <3>2, <3>3, FS_UNION
  <2> HIDE DEF delays
  <2>4. lo \in Nat /\ hi \in Nat /\ \A x \in delays : lo <= x /\ x <= hi
    BY <2>2, <2>3, MinIsLeast, MaxIsLargest
  <2>5. \A d \in Registered : /\ weight[d] \in Nat \ {0}
                              /\ delay[d] = got[d].delay * weight[d]
    BY <2>1
  <2>6. WeightedDomainBackoff(got) = IF total = 0 THEN 0 ELSE sum \div total
    BY <2>1, SumOnSet DEF WeightedDomainBackoff
  <2> HIDE DEF got, lo, hi, weight, delay
  <2>7. NatOn(weight, Registered) /\ NatOn(delay, Registered)
    BY <2>1, <2>5 DEF NatOn
  <2>8. total \in Nat \ {0} /\ sum \in Nat
    <3>1. total \in Nat /\ sum \in Nat
      BY <2>1, <2>7, SumWithout
    <3>2. PICK d : d \in Registered
      BY <1>1
    <3>3. total # 0
      BY <2>1, <2>5, <2>7, <3>2, SumOfZeros
    <3> QED
      BY <3>1, <3>3
  <2> DEFINE low == [d \in Registered |-> lo * weight[d]]
             high == [d \in Registered |-> hi * weight[d]]
  <2>9. /\ \A d \in Registered : /\ low[d] \in Nat /\ low[d] = lo * weight[d]
                                 /\ high[d] \in Nat /\ high[d] = hi * weight[d]
        /\ NatOn(low, Registered) /\ NatOn(high, Registered)
    BY <2>4, <2>5 DEF NatOn
  <2>10. \A d \in Registered : low[d] <= delay[d] /\ delay[d] <= high[d]
    <3> SUFFICES ASSUME NEW d \in Registered PROVE low[d] <= delay[d] /\ delay[d] <= high[d]
      OBVIOUS
    <3>1. /\ got[d].delay \in Nat /\ weight[d] \in Nat /\ delay[d] = got[d].delay * weight[d]
          /\ lo <= got[d].delay /\ got[d].delay <= hi
      BY <2>1, <2>2, <2>4, <2>5
    <3>2. \A i, j, w \in Nat : i <= j => i * w <= j * w
      OBVIOUS
    <3> QED
      BY <2>4, <3>1, <3>2
  <2> HIDE DEF low, high
  <2>11. SumOver(low, Registered) = lo * total /\ SumOver(high, Registered) = hi * total
    BY <2>1, <2>4, <2>7, <2>9, SumOfScaled
  <2>12. SumOver(low, Registered) <= sum /\ sum <= SumOver(high, Registered)
    BY <2>1, <2>7, <2>9, <2>10, SumMonotonic
  <2> HIDE DEF total, sum
  <2>13. lo <= sum \div total /\ sum \div total <= hi
    BY <2>4, <2>8, <2>11, <2>12, DivisionBetween
  <2> QED
    BY <2>6, <2>8, <2>13 DEF got, delays, lo, hi
<1>2. ObservabilityInv => WeightedWithinCall
  BY <1>1 DEF WeightedWithinCall
<1> QED
  BY <1>2, ObservabilityInvInit, ObservabilityInvStep, PTL DEF Spec
=============================================================================
