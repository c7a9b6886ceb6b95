---------------------- MODULE PortsFollowClients_proofs ----------------------
(***************************************************************************)
(* Clients, ports, locks and subscriptions keep count of each other, for   *)
(* every number of clients, ports and names: what holds between two        *)
(* handlers, and what of it holds in the middle of the calls, on top of    *)
(* the invariant about the calls.                                          *)
(***************************************************************************)
EXTENDS SerialPortHandlerCollection_proofs, FiniteSetTheorems

AtTop(do, h) == Running(do) /\ Top.handler = h
Counters(h) == handler[h].m_BufferTypeSubscribers

-----------------------------------------------------------------------------
(* The lives of clients.                                                   *)

\* x was entered in the list of h: it is attached, or about to be.
Waits(x, h) == \E c \in Pending: c.do = "Attach" /\ c.client = x /\ c.handler = h
Member(x, h) == client[x].m_Registered /\ (Stopper(x) = h \/ Waits(x, h))

\* A port that is not registered is about to stop its members.
AwaitsStop(x, h) ==
  \E c \in Pending: \/ c.do = "StopClient" /\ c.client = x
                    \/ Stopping(c) /\ c.handler = h /\ x \notin c.seen

Members ==
  \A x \in Clients, h \in Handlers: Member(x, h) =>
    Listed(h, x) /\ (handler[h].m_Registered \/ AwaitsStop(x, h))

\* What is destroyed is not registered, and gives back its stopper last.
Released ==
  /\ \A x \in Clients: ~client[x].exists /\ Stopper(x) # None =>
       \E c \in Pending: c.do = "ReleaseStopper" /\ c.client = x
  /\ \A c \in Pending: c.do = "DestroyClient" => ~client[c.client].m_Registered

InServerList == \A x \in Clients: x \in m_HdlcdServerHandlerList <=> client[x].m_Registered

Lives == Members /\ Released /\ InServerList

-----------------------------------------------------------------------------
(* The ports.                                                              *)

\* A registered port has clients and is found by its name, unless it is about to stop.
Wanted ==
  \A h \in Handlers: handler[h].m_Registered =>
    \/ \E x \in Clients: Stopper(x) = h \/ Waits(x, h)
    \/ AtTop("Stop", h)

Mapped ==
  /\ \A n \in Names, h \in Handlers: m_SerialPortHandlerMap[n] = h =>
       handler[h].m_Registered /\ handler[h].m_SerialPortName = n
  /\ \A h \in Handlers: handler[h].m_Registered =>
       /\ handler[h].m_SerialPortName \in Names
       /\ m_SerialPortHandlerMap[handler[h].m_SerialPortName] = h \/ AtTop("Stop", h)

Ports == Wanted /\ Mapped

-----------------------------------------------------------------------------
(* The locks.                                                              *)

Holders(h) == {x \in Clients: Stopper(x) = h /\ client[x].m_bLockedBySelf}

\* A lock is given back by its holder before the port counts it.
LocksCounted ==
  \A h \in Handlers: handler[h].m_Registered =>
    handler[h].m_NbrOfLocks = Cardinality(Holders(h)) + (IF AtTop("Resume", h) THEN 1 ELSE 0)

OpenUnlessLocked ==
  \A h \in Handlers: handler[h].m_Registered =>
    /\ handler[h].open <=> handler[h].m_NbrOfLocks = 0 /\ ~AtTop("Open", h)
    /\ AtTop("Open", h) => handler[h].m_NbrOfLocks = 0

Locks == LocksCounted /\ OpenUnlessLocked

-----------------------------------------------------------------------------
(* The subscriptions.                                                      *)

\* An iteration counts the entries of the list again, or will do so when it has ended.
Counting(h) == AtTop("ForEach", h) /\ Top.function = "count"
WillCount(h) == \E c \in Pending: c.do = "ForEach" /\ c.handler = h /\ c.rebuild

Balanced(h) == Total(Counters(h)) = Len(handler[h].clients) \/ Counting(h) \/ WillCount(h)

\* The clients among S that a buffer of type t is for.
LiveOf(h, t, S) == {x \in S: Listed(h, x) /\ client[x].exists /\ client[x].m_eBufferType = t}

Subscribed(h) ==
  \A t \in BufferTypes:
    Counters(h)[t] >= Cardinality(LiveOf(h, t, IF Counting(h) THEN Top.seen ELSE Clients))

\* What an iteration that counts has counted.
Passed(it) ==
  LET list == handler[it.handler].clients
      total == Total(Counters(it.handler))
  IN \/ it.next = None /\ total = Len(list)
     \/ \E n \in DOMAIN list: it.next = list[n] /\ total = n - 1

\* Only an outermost iteration removes entries, and counts.
Recounts ==
  Running("ForEach") =>
    /\ Top.rebuild \/ Top.function = "count" => ~s_bCyclicCallGuard
    /\ Top.function = "count" => Passed(Top)

Subscriptions ==
  /\ \A h \in Handlers: handler[h].m_Registered => Balanced(h) /\ Subscribed(h)
  /\ Recounts

-----------------------------------------------------------------------------
Bounded ==
  \A h \in Handlers: /\ handler[h].m_NbrOfLocks \in 0..Cardinality(Clients)
                     /\ Total(Counters(h)) <= Cardinality(Clients)

FollowInv ==
  /\ CollectionInv /\ Bounded /\ Subscriptions
  /\ daemon # "failed" => Lives /\ Ports /\ Locks

-----------------------------------------------------------------------------
(* Calls.                                                                  *)

(* One call as a stack.                                                    *)
LEMMA OneCall ==
  ASSUME NEW a \in CallType
  PROVE  <<a>> \in Seq(CallType) /\ ToSet(<<a>>) = {a} /\ <<a>> # <<>> /\ <<a>>[1] = a
<1>1. DOMAIN <<a>> = {1} /\ <<a>>[1] = a /\ <<a>> # <<>>
  OBVIOUS
<1> QED
  BY <1>1 DEF ToSet

(* Calls in front of other calls.                                          *)
LEMMA JoinFacts ==
  ASSUME NEW s \in Seq(CallType), NEW t \in Seq(CallType)
  PROVE  /\ s \o t \in Seq(CallType) /\ ToSet(s \o t) = ToSet(s) \cup ToSet(t)
         /\ s # <<>> => s \o t # <<>> /\ (s \o t)[1] = s[1]
         /\ s = <<>> => s \o t = t
<1>1. /\ s \o t \in Seq(CallType) /\ Len(s \o t) = Len(s) + Len(t)
      /\ \A i \in 1..(Len(s) + Len(t)): (s \o t)[i] = IF i <= Len(s) THEN s[i] ELSE t[i - Len(s)]
  BY ConcatProperties
<1>2. /\ DOMAIN s = 1..Len(s) /\ DOMAIN t = 1..Len(t) /\ DOMAIN (s \o t) = 1..(Len(s) + Len(t))
      /\ Len(s) \in Nat /\ Len(t) \in Nat
  BY <1>1, LenProperties
<1>3. \A i \in DOMAIN s: i \in DOMAIN (s \o t) /\ (s \o t)[i] = s[i]
  BY <1>1, <1>2
<1>4. \A i \in DOMAIN t: i + Len(s) \in DOMAIN (s \o t) /\ (s \o t)[i + Len(s)] = t[i]
  <2>1. \A i \in DOMAIN t: i + Len(s) \in 1..(Len(s) + Len(t)) /\ ~(i + Len(s) <= Len(s)) /\ (i + Len(s)) - Len(s) = i
    BY <1>2
  <2> QED
    BY <1>1, <1>2, <2>1
<1>5. \A i \in DOMAIN (s \o t): \/ i \in DOMAIN s /\ (s \o t)[i] = s[i]
                                \/ i - Len(s) \in DOMAIN t /\ (s \o t)[i] = t[i - Len(s)]
  BY <1>1, <1>2
<1>6. ToSet(s \o t) = ToSet(s) \cup ToSet(t)
  <2>1. ToSet(s \o t) \subseteq ToSet(s) \cup ToSet(t)
    BY <1>5 DEF ToSet
  <2>2. ToSet(s) \subseteq ToSet(s \o t)
    BY <1>3 DEF ToSet
  <2>3. ToSet(t) \subseteq ToSet(s \o t)
    BY <1>4 DEF ToSet
  <2> QED
    BY <2>1, <2>2, <2>3
<1>7. ASSUME s # <<>>
      PROVE  s \o t # <<>> /\ (s \o t)[1] = s[1]
  <2>1. 1 \in DOMAIN s
    BY <1>2, <1>7, EmptySeq
  <2> QED
    BY <1>2, <1>3, <2>1
<1>8. s = <<>> => s \o t = t
  BY ConcatEmptySeq
<1> QED
  BY <1>1, <1>6, <1>7, <1>8

\* The innermost call is the one in first, or one that is not about a port.
TopIs(first) ==
  /\ \A do, h: do \in {"Stop", "Open", "Resume"} =>
       (AtTop(do, h)' <=> \E c \in first: c.do = do /\ c.handler = h)
  /\ \A c \in first: calls' # <<>> /\ Top' = c

\* The innermost call was replaced by the calls N, the first of them now being
\* the innermost; or a handler makes the calls N.
Replaces(N, first) == Pending' = N \cup ToSet(Rest) /\ TopIs(first) /\ (first = {} => calls' = Rest)
Begins(N, first) == Pending' = N /\ TopIs(first) /\ (first = {} => calls' = <<>>)

(* What follows a call on the stack is not one of those about a port.      *)
LEMMA Replaced ==
  ASSUME CollectionInv, calls # <<>>, NEW inner \in Seq(CallType), Call(inner)
  PROVE  Replaces(ToSet(inner), IF inner = <<>> THEN {} ELSE {inner[1]})
<1>1. Rest \in Seq(CallType) /\ calls' = inner \o Rest
  BY Innermost DEF Call, Rest
<1>2. Pending' = ToSet(inner) \cup ToSet(Rest)
  BY <1>1, JoinFacts DEF Pending
<1>3. inner # <<>> => calls' # <<>> /\ Top' = inner[1]
  BY <1>1, JoinFacts DEF Top
<1>4. inner = <<>> => calls' = Rest
  BY <1>1, JoinFacts
<1>5. ASSUME NEW do, NEW h, do \in {"Stop", "Open", "Resume"}, inner = <<>>, AtTop(do, h)'
      PROVE  FALSE
  <2>1. calls' # <<>> /\ calls'[1].do = do /\ calls' = Rest
    BY <1>4, <1>5 DEF AtTop, Running
  <2>2. Rest # <<>>
    BY <2>1
  <2>3. Rest[1] \in ToSet(Rest)
    BY <1>1, <2>2, EmptySeq, LenProperties DEF ToSet
  <2> QED
    BY <1>5, <2>1, <2>3, Under
<1>6. ASSUME NEW do, NEW h, inner # <<>>
      PROVE  AtTop(do, h)' <=> inner[1].do = do /\ inner[1].handler = h
  BY <1>3, <1>6 DEF AtTop, Running, Top
<1> QED
  BY <1>2, <1>3, <1>4, <1>5, <1>6 DEF Replaces, TopIs

(* It returned, or was replaced by one or two calls.                       *)
LEMMA ReplacedShortly ==
  ASSUME CollectionInv, calls # <<>>
  PROVE  /\ Call(<<>>) => Replaces({}, {})
         /\ \A a \in CallType: Call(<<a>>) => Replaces({a}, {a})
         /\ \A a, b \in CallType: Call(<<a>> \o <<b>>) => Replaces({a, b}, {a})
<1>1. <<>> \in Seq(CallType) /\ ToSet(<<>>) = {}
  BY NoCalls
<1>2. Call(<<>>) => Replaces({}, {})
  BY <1>1, Replaced
<1>3. ASSUME NEW a \in CallType, Call(<<a>>)
      PROVE  Replaces({a}, {a})
  BY <1>3, OneCall, Replaced
<1>4. ASSUME NEW a \in CallType, NEW b \in CallType, Call(<<a>> \o <<b>>)
      PROVE  Replaces({a, b}, {a})
  <2> DEFINE inner == <<a>> \o <<b>>
  <2>1. /\ <<a>> \in Seq(CallType) /\ ToSet(<<a>>) = {a} /\ <<a>> # <<>> /\ <<a>>[1] = a
        /\ <<b>> \in Seq(CallType) /\ ToSet(<<b>>) = {b}
    BY OneCall
  <2>2. inner \in Seq(CallType) /\ ToSet(inner) = {a, b} /\ inner # <<>> /\ inner[1] = a
    <3>1. /\ <<a>> \o <<b>> \in Seq(CallType) /\ ToSet(<<a>> \o <<b>>) = ToSet(<<a>>) \cup ToSet(<<b>>)
          /\ <<a>> \o <<b>> # <<>> /\ (<<a>> \o <<b>>)[1] = <<a>>[1]
      BY <2>1, JoinFacts
    <3> QED
      BY <2>1, <3>1
  <2> HIDE DEF inner
  <2>3. Call(inner)
    BY <1>4 DEF inner
  <2>4. Replaces(ToSet(inner), IF inner = <<>> THEN {} ELSE {inner[1]})
    BY <2>2, <2>3, Replaced
  <2> QED
    BY <2>2, <2>4
<1> QED
  BY <1>2, <1>3, <1>4

(* A handler makes no call, one or two.                                    *)
LEMMA Beginning ==
  /\ calls' = <<>> => Begins({}, {})
  /\ \A a \in CallType: calls' = <<a>> => Begins({a}, {a})
  /\ \A a, b \in CallType: calls' = <<a>> \o <<b>> => Begins({a, b}, {a})
<1>1. <<>> \in Seq(CallType) /\ ToSet(<<>>) = {}
  BY NoCalls
<1>2. calls' = <<>> => Begins({}, {})
  BY <1>1 DEF Begins, TopIs, Pending, AtTop, Running
<1>3. ASSUME NEW a \in CallType, calls' = <<a>>
      PROVE  Begins({a}, {a})
  BY <1>3, OneCall DEF Begins, TopIs, Pending, AtTop, Running, Top
<1>4. ASSUME NEW a \in CallType, NEW b \in CallType, calls' = <<a>> \o <<b>>
      PROVE  Begins({a, b}, {a})
  <2> DEFINE inner == <<a>> \o <<b>>
  <2>1. /\ <<a>> \in Seq(CallType) /\ ToSet(<<a>>) = {a} /\ <<a>> # <<>> /\ <<a>>[1] = a
        /\ <<b>> \in Seq(CallType) /\ ToSet(<<b>>) = {b}
    BY OneCall
  <2>2. ToSet(inner) = {a, b} /\ inner # <<>> /\ inner[1] = a
    <3>1. /\ ToSet(<<a>> \o <<b>>) = ToSet(<<a>>) \cup ToSet(<<b>>)
          /\ <<a>> \o <<b>> # <<>> /\ (<<a>> \o <<b>>)[1] = <<a>>[1]
      BY <2>1, JoinFacts
    <3> QED
      BY <2>1, <3>1
  <2>3. calls' = inner
    BY <1>4
  <2> HIDE DEF inner
  <2> QED
    BY <2>2, <2>3 DEF Begins, TopIs, Pending, AtTop, Running, Top
<1> QED
  BY <1>2, <1>3, <1>4

(* The calls of a stack are calls.                                         *)
LEMMA SubsetOfCalls ==
  /\ calls \in Seq(CallType) => Pending \subseteq CallType
  /\ calls' \in Seq(CallType) => Pending' \subseteq CallType
  BY DEF Pending, ToSet

-----------------------------------------------------------------------------
(* What the actions do, field by field.                                    *)

\* Nothing of a port changes but its subscriptions.
PortKept(h) ==
  /\ handler'[h].m_Registered = handler[h].m_Registered
  /\ handler'[h].m_SerialPortName = handler[h].m_SerialPortName
  /\ handler'[h].open = handler[h].open
  /\ handler'[h].m_NbrOfLocks = handler[h].m_NbrOfLocks

ListKept(h) == handler'[h].clients = handler[h].clients
CountersKept(h) == handler'[h].m_BufferTypeSubscribers = handler[h].m_BufferTypeSubscribers
PortsKept == \A h \in Handlers: PortKept(h)
ListsKept == \A h \in Handlers: ListKept(h)

Elsewhere == UNCHANGED <<client, m_SerialPortHandlerMap, m_HdlcdServerHandlerList, daemon>>

-----------------------------------------------------------------------------
(* Steps that keep what is said about the clients, the ports, the locks or *)
(* the subscriptions.                                                      *)

SteadyLives ==
  /\ SameLives /\ m_HdlcdServerHandlerList' = m_HdlcdServerHandlerList
  /\ \A x \in Clients, h \in Handlers: Member(x, h) =>
       /\ Listed(h, x) => Listed(h, x)'
       /\ handler[h].m_Registered \/ AwaitsStop(x, h) => handler'[h].m_Registered \/ AwaitsStop(x, h)'
  /\ \A c \in Pending': /\ c.do = "Attach" => c \in Pending
                        /\ c.do = "DestroyClient" => c \in Pending \/ ~client[c.client].m_Registered
  /\ \A c \in Pending: c.do = "ReleaseStopper" => c \in Pending'

SteadyPorts ==
  /\ m_SerialPortHandlerMap' = m_SerialPortHandlerMap
  /\ \A h \in Handlers: /\ handler'[h].m_Registered = handler[h].m_Registered
                        /\ handler[h].m_Registered =>
                             /\ handler'[h].m_SerialPortName = handler[h].m_SerialPortName
                             /\ AtTop("Stop", h) => AtTop("Stop", h)'
                             /\ \A x \in Clients: Stopper(x) = h \/ Waits(x, h) => Stopper(x)' = h \/ Waits(x, h)'

SteadyLocks ==
  \A h \in Handlers: handler'[h].m_Registered =>
    /\ handler[h].m_Registered
    /\ handler'[h].m_NbrOfLocks = handler[h].m_NbrOfLocks /\ handler'[h].open = handler[h].open
    /\ Holders(h)' = Holders(h)
    /\ AtTop("Resume", h)' <=> AtTop("Resume", h)
    /\ AtTop("Open", h)' <=> AtTop("Open", h)

SteadyBounds ==
  \A h \in Handlers: /\ handler'[h].m_NbrOfLocks \in {handler[h].m_NbrOfLocks, 0}
                     /\ Counters(h)' \in {Counters(h), NoSubscribers}

\* No iteration counts, and none loses what it has noted.
SteadyIterations ==
  /\ \A h \in Handlers: WillCount(h) /\ handler'[h].m_Registered => WillCount(h)'
  /\ Running("ForEach") => Top.function # "count"
  /\ (Running("ForEach"))' => Top'.function # "count" /\ (Top'.rebuild => ~s_bCyclicCallGuard')

SteadyCounts ==
  /\ \A x \in Clients: client'[x].exists =>
       \/ client[x].exists /\ client'[x].m_eBufferType = client[x].m_eBufferType
       \/ \A h \in Handlers: ~Listed(h, x)'
  /\ \A h \in Handlers: handler'[h].m_Registered =>
       /\ handler[h].m_Registered
       /\ handler'[h].clients = handler[h].clients
       /\ Counters(h)' = Counters(h)

(* The clients stay where they belong.                                     *)
LEMMA LivesStep ==
  ASSUME CollectionInv, CollectionInv', Lives, SteadyLives
  PROVE  Lives'
<1>1. Pending \subseteq CallType /\ Pending' \subseteq CallType
  BY SubsetOfCalls DEF CollectionInv
<1>2. \A c \in CallType: c.do \in {"Attach", "DestroyClient", "ReleaseStopper"} => c.client \in Clients
  BY CallFacts DEF Ending, Destroying
<1>3. Members'
  <2> SUFFICES ASSUME NEW x \in Clients, NEW h \in Handlers, Member(x, h)'
               PROVE  Listed(h, x)' /\ (handler'[h].m_Registered \/ AwaitsStop(x, h)')
    BY DEF Members
  <2>1. Waits(x, h)' => Waits(x, h)
    BY DEF Waits, SteadyLives
  <2>2. Member(x, h)
    BY <2>1 DEF Member, SteadyLives, SameLives, Stopper
  <2> QED
    BY <2>2 DEF Lives, Members, SteadyLives
<1>4. ASSUME NEW x \in Clients, ~client'[x].exists, Stopper(x)' # None
      PROVE  \E c \in Pending': c.do = "ReleaseStopper" /\ c.client = x
  <2>1. ~client[x].exists /\ Stopper(x) # None
    BY <1>4 DEF SteadyLives, SameLives
  <2> QED
    BY <2>1 DEF Lives, Released, SteadyLives
<1>5. ASSUME NEW c \in Pending', c.do = "DestroyClient"
      PROVE  ~client'[c.client].m_Registered
  <2>1. c.client \in Clients
    BY <1>1, <1>2, <1>5
  <2>2. ~client[c.client].m_Registered
    BY <1>5 DEF Lives, Released, SteadyLives
  <2> QED
    BY <2>1, <2>2 DEF SteadyLives, SameLives
<1>6. InServerList'
  BY DEF Lives, InServerList, SteadyLives, SameLives
<1> QED
  BY <1>3, <1>4, <1>5, <1>6 DEF Lives, Released

(* The ports stay wanted, and are found.                                   *)
LEMMA PortsStep ==
  ASSUME Ports, SteadyPorts
  PROVE  Ports'
<1>1. Wanted'
  BY DEF Ports, Wanted, SteadyPorts
<1>2. Mapped'
  BY DEF Ports, Mapped, SteadyPorts
<1> QED
  BY <1>1, <1>2 DEF Ports

(* The locks stay counted.                                                 *)
LEMMA LocksStep ==
  ASSUME Locks, SteadyLocks
  PROVE  Locks'
<1>1. LocksCounted'
  BY DEF Locks, LocksCounted, SteadyLocks
<1>2. OpenUnlessLocked'
  BY DEF Locks, OpenUnlessLocked, SteadyLocks
<1> QED
  BY <1>1, <1>2 DEF Locks

(* The clients are as many as their cardinality says.                      *)
LEMMA ClientsFacts ==
  /\ Cardinality(Clients) \in Nat
  /\ \A S \in SUBSET Clients: Cardinality(S) \in Nat /\ Cardinality(S) <= Cardinality(Clients)
<1>1. IsFiniteSet(Clients)
  BY ConstantsAssumption
<1>2. Cardinality(Clients) \in Nat
  BY <1>1, FS_CardinalityType
<1>3. ASSUME NEW S \in SUBSET Clients
      PROVE  Cardinality(S) \in Nat /\ Cardinality(S) <= Cardinality(Clients)
  <2>1. IsFiniteSet(S) /\ Cardinality(S) <= Cardinality(Clients)
    BY <1>1, FS_Subset
  <2> QED
    BY <2>1, FS_CardinalityType
<1> QED
  BY <1>2, <1>3

(* The counters stay within their bounds.                                  *)
LEMMA BoundsStep ==
  ASSUME Bounded, SteadyBounds
  PROVE  Bounded'
<1>1. Total(NoSubscribers) = 0
  BY DEF Total, NoSubscribers, BufferTypes
<1>2. Cardinality(Clients) \in Nat
  BY ClientsFacts
<1>3. ASSUME NEW h \in Handlers
      PROVE  /\ handler'[h].m_NbrOfLocks \in 0..Cardinality(Clients)
             /\ Total(Counters(h)') <= Cardinality(Clients)
  BY <1>1, <1>2 DEF Bounded, SteadyBounds
<1>4. \A h \in Handlers: Total(Counters(h))' = Total(Counters(h)')
  BY DEF Total
<1> QED
  BY <1>3, <1>4 DEF Bounded

(* Fewer clients need fewer subscriptions.                                 *)
LEMMA FewerLive ==
  ASSUME NEW S \in SUBSET Clients, NEW T \in SUBSET Clients, S \subseteq T
  PROVE  Cardinality(S) <= Cardinality(T) /\ Cardinality(S) \in Nat /\ Cardinality(T) \in Nat
<1>1. IsFiniteSet(T)
  BY ConstantsAssumption, FS_Subset
<1> QED
  BY <1>1, FS_Subset, ClientsFacts

(* The subscriptions stay counted.                                         *)
LEMMA SubscriptionsStep ==
  ASSUME CollectionInv, Subscriptions, SteadyIterations, SteadyCounts
  PROVE  Subscriptions'
<1>1. \A h \in Handlers: ~Counting(h) /\ ~Counting(h)'
  BY DEF SteadyIterations, Counting, AtTop
<1>2. ASSUME NEW h \in Handlers, handler'[h].m_Registered
      PROVE  Balanced(h)' /\ Subscribed(h)'
  <2>1. /\ handler[h].m_Registered /\ handler'[h].clients = handler[h].clients /\ Counters(h)' = Counters(h)
        /\ WillCount(h) => WillCount(h)'
    BY <1>2 DEF SteadyIterations, SteadyCounts
  <2>2. Balanced(h) /\ Subscribed(h)
    BY <2>1 DEF Subscriptions
  <2>3. Balanced(h)'
    <3>1. Total(Counters(h)) = Len(handler[h].clients) \/ WillCount(h)
      BY <1>1, <2>2 DEF Balanced
    <3>2. Total(Counters(h))' = Total(Counters(h))
      BY <2>1 DEF Total
    <3> QED
      BY <2>1, <3>1, <3>2 DEF Balanced
  <2>4. ASSUME NEW t \in BufferTypes
        PROVE  Counters(h)'[t] >= Cardinality(LiveOf(h, t, Clients)')
    <3>1. LiveOf(h, t, Clients)' \subseteq LiveOf(h, t, Clients)
      BY <2>1 DEF SteadyCounts, LiveOf, Listed
    <3>2. LiveOf(h, t, Clients) \in SUBSET Clients /\ LiveOf(h, t, Clients)' \in SUBSET Clients
      BY DEF LiveOf
    <3> DEFINE S == LiveOf(h, t, Clients)
               T == LiveOf(h, t, Clients)'
    <3> HIDE DEF S, T
    <3>3. Cardinality(T) <= Cardinality(S) /\ Cardinality(T) \in Nat /\ Cardinality(S) \in Nat
      BY <3>1, <3>2, FewerLive DEF S, T
    <3>4. Counters(h)[t] >= Cardinality(S)
      BY <1>1, <2>2 DEF Subscribed, S
    <3>5. Counters(h)[t] \in Nat
      BY DEF CollectionInv, ObjectTypes, PortType, Counters
    <3> QED
      BY <2>1, <3>3, <3>4, <3>5 DEF T
  <2>5. Subscribed(h)'
    BY <1>1, <2>4 DEF Subscribed
  <2> QED
    BY <2>3, <2>5
<1>3. Recounts'
  BY DEF SteadyIterations, Recounts
<1> QED
  BY <1>2, <1>3 DEF Subscriptions

(* A step that keeps everything.                                           *)
LEMMA SteadyStep ==
  ASSUME FollowInv, CollectionInv', daemon # "failed", SteadyLives, SteadyPorts, SteadyLocks,
         SteadyBounds, SteadyIterations, SteadyCounts
  PROVE  FollowInv'
BY LivesStep, PortsStep, LocksStep, BoundsStep, SubscriptionsStep DEF FollowInv

(* While a call is in progress the daemon has not failed.                  *)
LEMMA InProgress ==
  ASSUME FollowInv, calls # <<>>
  PROVE  /\ CollectionInv /\ daemon # "failed" /\ Bounded /\ Subscriptions /\ Recounts
         /\ Lives /\ Members /\ Released /\ InServerList /\ Ports /\ Locks
BY Innermost DEF FollowInv, Lives, Subscriptions

-----------------------------------------------------------------------------
(* Calls that leave alone what is said about the objects.                  *)

(* What stops clients, or asks them for packets, is not called back.       *)
LEMMA GuardFree ==
  CollectionInv /\ Running("ForEach") /\ (Stopping(Top) \/ Querying(Top)) => ~s_bCyclicCallGuard
<1> SUFFICES ASSUME CollectionInv, Running("ForEach"), Stopping(Top) \/ Querying(Top)
             PROVE  ~s_bCyclicCallGuard
  OBVIOUS
<1>1. calls # <<>> /\ Top.do = "ForEach"
  BY DEF Running, Top
<1>2. \A d \in ToSet(Rest): d.do # "LeaveClient"
  <2>1. CASE Stopping(Top)
    BY <1>1, <2>1, OneLeaves
  <2>2. CASE Querying(Top)
    <3>1. Rest = <<>>
      BY <1>1, <2>2, Under DEF AtBottom
    <3> QED
      BY <3>1, NoCalls
  <2> QED
    BY <2>1, <2>2
<1> QED
  BY <1>1, <1>2, Innermost DEF Stack, GuardLocked

(* This holds also after a step.                                           *)
LEMMA GuardFreeAfter ==
  (CollectionInv /\ Running("ForEach") /\ (Stopping(Top) \/ Querying(Top)))' => ~s_bCyclicCallGuard'
BY GuardFree, PTL

(* The iterations under a call.                                            *)
LEMMA UnderneathFacts ==
  ASSUME CollectionInv, calls # <<>>
  PROVE  \A d \in ToSet(Rest): d.do = "ForEach" => d.function # "count" /\ (Stopping(d) \/ Querying(d))
<1>1. \A d \in ToSet(Rest): d.do = "ForEach" => Stopping(d) \/ d.function = "enqueue"
  BY Under
<1> QED
  BY <1>1 DEF Stopping, Querying

(* Calls remain, and are joined by others.                                 *)
LEMMA KeptFacts ==
  ASSUME CollectionInv, calls # <<>>, NEW N, NEW first, Replaces(N, first)
  PROVE  /\ \A c \in Pending: c = Top \/ (c \in Pending' /\ c \in ToSet(Rest))
         /\ \A c \in Pending': c \in N \/ (c \in Pending /\ c \in ToSet(Rest))
BY Innermost DEF Replaces

(* An iteration to which a call returns.                                   *)
LEMMA ReturnsTo ==
  ASSUME CollectionInv, CollectionInv', calls # <<>>, calls' = Rest, (Running("ForEach"))'
  PROVE  Top'.function # "count" /\ ~s_bCyclicCallGuard'
<1>1. Rest # <<>> /\ Top' = Rest[1] /\ Top'.do = "ForEach"
  BY DEF Running, Top
<1>2. Rest[1] \in ToSet(Rest)
  <2>1. Rest \in Seq(CallType)
    BY Innermost
  <2> QED
    BY <1>1, <2>1, EmptySeq, LenProperties DEF ToSet
<1>3. Top'.function # "count" /\ (Stopping(Top') \/ Querying(Top'))
  BY <1>1, <1>2, UnderneathFacts
<1>4. (Stopping(Top) \/ Querying(Top))'
  BY <1>3 DEF Stopping, Querying
<1> QED
  BY <1>3, <1>4, GuardFreeAfter

(* Something else than an iteration goes on or returns.                    *)
LEMMA NoIteration ==
  ASSUME CollectionInv, CollectionInv', calls # <<>>, Top.do # "ForEach",
         NEW N, NEW first \in SUBSET N, Replaces(N, first),
         \A c \in N: c.do = "ForEach" => ~c.rebuild /\ c.function # "count"
  PROVE  SteadyIterations
<1>1. \A h: WillCount(h) => WillCount(h)'
  BY KeptFacts DEF WillCount
<1>2. Running("ForEach") => Top.function # "count"
  BY DEF Running, Top
<1>3. ASSUME (Running("ForEach"))'
      PROVE  Top'.function # "count" /\ (Top'.rebuild => ~s_bCyclicCallGuard')
  <2>1. CASE first = {}
    BY <1>3, <2>1, ReturnsTo DEF Replaces
  <2>2. CASE first # {}
    <3>1. PICK c \in first: Top' = c
      BY <2>2 DEF Replaces, TopIs
    <3>2. c \in N /\ c.do = "ForEach"
      BY <1>3, <3>1 DEF Running, Top
    <3> QED
      BY <3>1, <3>2
  <2> QED
    BY <2>1, <2>2
<1> QED
  BY <1>1, <1>2, <1>3 DEF SteadyIterations

(* An iteration goes on, perhaps after other calls, and keeps its note.    *)
LEMMA IterationGoesOn ==
  ASSUME CollectionInv, Recounts, Running("ForEach"), Top.function # "count",
         NEW N, NEW a \in N, NEW o \in N, Replaces(N, {a}),
         o.do = "ForEach", o.handler = Top.handler, o.rebuild = Top.rebuild,
         a.do # "ForEach" \/ (a = o /\ o.function = Top.function /\ s_bCyclicCallGuard' = s_bCyclicCallGuard)
  PROVE  SteadyIterations
<1>1. calls # <<>> /\ Top.do = "ForEach"
  BY DEF Running, Top
<1>2. o \in Pending'
  BY DEF Replaces
<1>3. \A h: WillCount(h) => WillCount(h)'
  BY <1>1, <1>2, KeptFacts DEF WillCount
<1>4. ASSUME (Running("ForEach"))'
      PROVE  Top'.function # "count" /\ (Top'.rebuild => ~s_bCyclicCallGuard')
  <2>1. Top' = a /\ Top'.do = "ForEach"
    BY <1>4 DEF Replaces, TopIs, Running, Top
  <2> QED
    BY <2>1 DEF Recounts
<1> QED
  BY <1>3, <1>4 DEF SteadyIterations

(* A handler begins without an iteration.                                  *)
LEMMA NoneBegins ==
  ASSUME calls = <<>>, Pending = {}, NEW N, NEW first \in SUBSET N, Begins(N, first),
         \A c \in N: c.do # "ForEach"
  PROVE  SteadyIterations
<1>1. ~(Running("ForEach"))'
  BY DEF Begins, TopIs, Running, Top
<1> QED
  BY <1>1 DEF SteadyIterations, WillCount, Running

(* Calls that neither stop, destroy, attach nor release anybody.           *)
LEMMA SteadyLivesAndPorts ==
  ASSUME CollectionInv, CollectionInv', calls # <<>>,
         NEW N, NEW first, Replaces(N, first),
         Top.do \notin {"StopClient", "ReleaseStopper"},
         Top.do \in {"Stop", "Attach"} => ~handler[Top.handler].m_Registered,
         \A c \in N: c.do # "Attach" /\ (c.do = "DestroyClient" => ~client[c.client].m_Registered),
         \A x \in Clients, h \in Handlers:
           Stopping(Top) /\ Top.handler = h /\ Member(x, h) /\ x \notin Top.seen => AwaitsStop(x, h)',
         SameLives, UNCHANGED <<m_SerialPortHandlerMap, m_HdlcdServerHandlerList>>,
         \A h \in Handlers: /\ handler'[h].m_Registered = handler[h].m_Registered
                            /\ handler[h].m_Registered =>
                                 handler'[h].m_SerialPortName = handler[h].m_SerialPortName,
         \A x \in Clients, h \in Handlers: Member(x, h) /\ Listed(h, x) => Listed(h, x)'
  PROVE  SteadyLives /\ SteadyPorts
<1>1. ASSUME NEW h, handler[h].m_Registered
      PROVE  ~AtTop("Stop", h) /\ \A x: Waits(x, h) => Waits(x, h)'
  <2>1. ~AtTop("Stop", h)
    BY <1>1 DEF AtTop, Running, Top
  <2>2. ASSUME NEW x, Waits(x, h)
        PROVE  Waits(x, h)'
    <3>1. PICK c \in Pending: c.do = "Attach" /\ c.client = x /\ c.handler = h
      BY <2>2 DEF Waits
    <3>2. c # Top
      BY <1>1, <3>1
    <3>3. c \in Pending'
      BY <3>2, KeptFacts
    <3> QED
      BY <3>1, <3>3 DEF Waits
  <2> QED
    BY <2>1, <2>2
<1>2. ASSUME NEW x \in Clients, NEW h \in Handlers, Member(x, h), AwaitsStop(x, h)
      PROVE  AwaitsStop(x, h)'
  <2>1. PICK c \in Pending: \/ c.do = "StopClient" /\ c.client = x
                            \/ Stopping(c) /\ c.handler = h /\ x \notin c.seen
    BY <1>2 DEF AwaitsStop
  <2>2. CASE c \in Pending'
    BY <2>1, <2>2 DEF AwaitsStop, Stopping
  <2>3. CASE c = Top
    <3>1. Stopping(Top) /\ Top.handler = h /\ x \notin Top.seen
      BY <2>1, <2>3 DEF Stopping
    <3> QED
      BY <1>2, <3>1
  <2> QED
    BY <2>2, <2>3, KeptFacts
<1>3. SteadyLives
  <2>1. \A c \in Pending': /\ c.do = "Attach" => c \in Pending
                           /\ c.do = "DestroyClient" => c \in Pending \/ ~client[c.client].m_Registered
    BY KeptFacts
  <2>2. \A c \in Pending: c.do = "ReleaseStopper" => c \in Pending'
    BY KeptFacts
  <2> QED
    BY <1>2, <2>1, <2>2 DEF SteadyLives
<1>4. SteadyPorts
  <2>1. \A x \in Clients: Stopper(x)' = Stopper(x)
    BY DEF SameLives
  <2> QED
    BY <1>1, <2>1 DEF SteadyPorts
<1> QED
  BY <1>3, <1>4

(* Calls that are not about a registered port.                             *)
LEMMA SteadyLocksToo ==
  ASSUME calls # <<>>, NEW N, NEW first, Replaces(N, first),
         Top.do \in {"Open", "Resume"} => ~handler[Top.handler].m_Registered,
         \A c \in first: c.do \notin {"Open", "Resume"},
         \A h \in Handlers: handler'[h].m_Registered =>
           handler[h].m_Registered /\ PortKept(h) /\ Holders(h)' = Holders(h)
  PROVE  SteadyLocks
<1>1. \A do \in {"Open", "Resume"}: \A h: handler[h].m_Registered => ~AtTop(do, h)
  BY DEF AtTop, Running, Top
<1>2. \A do \in {"Open", "Resume"}: \A h: ~AtTop(do, h)'
  BY DEF Replaces, TopIs
<1> QED
  BY <1>1, <1>2 DEF SteadyLocks, PortKept

(* The clients stay as they are.                                           *)
LEMMA SameClients ==
  ASSUME client' = client
  PROVE  SameLives /\ \A h: Holders(h)' = Holders(h)
BY DEF SameLives, Stopper, Holders

(* Calls that have to do with nobody's life, and with no registered port.  *)
LEMMA SteadyCalls ==
  ASSUME CollectionInv, CollectionInv', calls # <<>>,
         NEW N, NEW first, Replaces(N, first),
         Top.do \notin {"StopClient", "ReleaseStopper"},
         Top.do \in {"Open", "Resume", "Stop", "Attach"} => ~handler[Top.handler].m_Registered,
         \A c \in N: c.do # "Attach" /\ (c.do = "DestroyClient" => ~client[c.client].m_Registered),
         \A c \in first: c.do \notin {"Open", "Resume"},
         \A x \in Clients, h \in Handlers:
           Stopping(Top) /\ Top.handler = h /\ Member(x, h) /\ x \notin Top.seen => AwaitsStop(x, h)',
         UNCHANGED <<client, m_SerialPortHandlerMap, m_HdlcdServerHandlerList>>,
         \A h \in Handlers: /\ handler'[h].m_Registered = handler[h].m_Registered
                            /\ handler[h].m_Registered => PortKept(h),
         \A x \in Clients, h \in Handlers: Member(x, h) /\ Listed(h, x) => Listed(h, x)'
  PROVE  SteadyLives /\ SteadyPorts /\ SteadyLocks
<1>1. SameLives /\ \A h: Holders(h)' = Holders(h)
  BY SameClients
<1>2. SteadyLives /\ SteadyPorts
  BY <1>1, SteadyLivesAndPorts DEF PortKept
<1>3. SteadyLocks
  BY <1>1, SteadyLocksToo
<1> QED
  BY <1>2, <1>3

(* The same for a handler that begins.                                     *)
LEMMA SteadyBeginning ==
  ASSUME calls = <<>>, Pending = {}, NEW N, NEW first, Begins(N, first),
         \A c \in N: c.do \notin {"Attach", "DestroyClient"},
         SameLives, UNCHANGED <<m_SerialPortHandlerMap, m_HdlcdServerHandlerList>>,
         \A h \in Handlers: /\ handler'[h].m_Registered = handler[h].m_Registered
                            /\ handler'[h].m_SerialPortName = handler[h].m_SerialPortName
                            /\ handler'[h].clients = handler[h].clients
  PROVE  SteadyLives /\ SteadyPorts
<1>1. \A do, h: ~AtTop(do, h)
  BY DEF AtTop, Running
<1>2. \A x, h: ~Waits(x, h) /\ ~AwaitsStop(x, h)
  BY DEF Waits, AwaitsStop
<1>3. SteadyLives
  BY <1>2 DEF SteadyLives, Begins, Listed
<1>4. SteadyPorts
  <2>1. \A x \in Clients: Stopper(x)' = Stopper(x)
    BY DEF SameLives
  <2> QED
    BY <1>1, <1>2, <2>1 DEF SteadyPorts
<1> QED
  BY <1>3, <1>4

(* It does not open or resume a port.                                      *)
LEMMA SteadyLocksBeginning ==
  ASSUME calls = <<>>, NEW N, NEW first, Begins(N, first),
         \A c \in first: c.do \notin {"Open", "Resume"},
         \A h \in Handlers: handler'[h].m_Registered =>
           handler[h].m_Registered /\ PortKept(h) /\ Holders(h)' = Holders(h)
  PROVE  SteadyLocks
<1>1. \A do, h: ~AtTop(do, h)
  BY DEF AtTop, Running
<1>2. \A do \in {"Open", "Resume"}: \A h: ~AtTop(do, h)'
  BY DEF Begins, TopIs
<1> QED
  BY <1>1, <1>2 DEF SteadyLocks, PortKept

-----------------------------------------------------------------------------
(* Counting.                                                               *)

(* The sum of the counters.                                                *)
LEMMA TotalFacts ==
  ASSUME NEW counts \in [BufferTypes -> Nat]
  PROVE  /\ Total(counts) \in Nat
         /\ \A t \in BufferTypes:
              /\ counts[t] \in Nat /\ counts[t] <= Total(counts)
              /\ [counts EXCEPT ![t] = @ + 1] \in [BufferTypes -> Nat]
              /\ Total([counts EXCEPT ![t] = @ + 1]) = Total(counts) + 1
<1>1. /\ counts["PAYLOAD"] \in Nat /\ counts["PORT_STATUS"] \in Nat
      /\ counts["RAW"] \in Nat /\ counts["DISSECTED"] \in Nat
  BY DEF BufferTypes
<1>2. Total(counts) \in Nat
  BY <1>1 DEF Total
<1>3. ASSUME NEW t \in BufferTypes
      PROVE  /\ counts[t] \in Nat /\ counts[t] <= Total(counts)
             /\ [counts EXCEPT ![t] = @ + 1] \in [BufferTypes -> Nat]
             /\ Total([counts EXCEPT ![t] = @ + 1]) = Total(counts) + 1
  <2>1. counts[t] \in Nat /\ counts[t] <= Total(counts)
    BY <1>1 DEF Total, BufferTypes
  <2>2. [counts EXCEPT ![t] = @ + 1] \in [BufferTypes -> Nat]
    BY CountFacts
  <2>3. CASE t = "PAYLOAD"
    BY <1>1, <2>3 DEF Total, BufferTypes
  <2>4. CASE t = "PORT_STATUS"
    BY <1>1, <2>4 DEF Total, BufferTypes
  <2>5. CASE t = "RAW"
    BY <1>1, <2>5 DEF Total, BufferTypes
  <2>6. CASE t = "DISSECTED"
    BY <1>1, <2>6 DEF Total, BufferTypes
  <2> QED
    BY <2>1, <2>2, <2>3, <2>4, <2>5, <2>6 DEF BufferTypes
<1> QED
  BY <1>2, <1>3

(* A list in which every client is entered once is not longer than there   *)
(* are clients.                                                            *)
LEMMA ListLength ==
  ASSUME NEW list \in Seq(Clients), \A i, j \in DOMAIN list: list[i] = list[j] => i = j
  PROVE  Len(list) <= Cardinality(Clients) /\ Len(list) \in Nat
<1>1. list \in [1..Len(list) -> Clients] /\ Len(list) \in Nat /\ DOMAIN list = 1..Len(list)
  BY LenProperties
<1> DEFINE n == Len(list)
<1>2. IsFiniteSet(Clients) /\ Cardinality(Clients) \in Nat
  BY ConstantsAssumption, ClientsFacts
<1>3. IsFiniteSet(1..n) /\ Cardinality(1..n) = n
  <2>1. 1 \in Int /\ n \in Int /\ n \in Nat
    BY <1>1
  <2>2. IsFiniteSet(1..n) /\ Cardinality(1..n) = IF 1 > n THEN 0 ELSE n - 1 + 1
    BY <2>1, FS_Interval
  <2> HIDE DEF n
  <2> QED
    BY <2>1, <2>2
<1>4. SUFFICES ASSUME Cardinality(Clients) < Cardinality(1..n)
               PROVE  FALSE
  BY <1>1, <1>2, <1>3
<1>5. \E i, j \in 1..n: i # j /\ list[i] = list[j]
  BY <1>1, <1>2, <1>3, <1>4, FS_PigeonHole
<1> QED
  BY <1>1, <1>5

(* The list of a port.                                                     *)
LEMMA PortList ==
  ASSUME CollectionInv, NEW h \in Handlers
  PROVE  /\ Len(handler[h].clients) \in Nat /\ Len(handler[h].clients) <= Cardinality(Clients)
         /\ Counters(h) \in [BufferTypes -> Nat] /\ Total(Counters(h)) \in Nat
<1>1. /\ handler[h] \in PortType
      /\ handler[h].clients \in Seq(Clients)
      /\ \A i, j \in DOMAIN handler[h].clients: handler[h].clients[i] = handler[h].clients[j] => i = j
  BY ListFacts
<1>2. Len(handler[h].clients) \in Nat /\ Len(handler[h].clients) <= Cardinality(Clients)
  BY <1>1, ListLength
<1>3. Counters(h) \in [BufferTypes -> Nat]
  BY <1>1 DEF PortType, Counters
<1> QED
  BY <1>2, <1>3, TotalFacts

(* One more client is counted.                                             *)
LEMMA OneMoreLive ==
  ASSUME NEW S \in SUBSET Clients, NEW T \in SUBSET Clients, NEW x \in Clients, T \subseteq S \cup {x}
  PROVE  Cardinality(T) <= Cardinality(S) + 1 /\ Cardinality(T) \in Nat /\ Cardinality(S) \in Nat
<1>1. S \cup {x} \in SUBSET Clients
  OBVIOUS
<1>2. Cardinality(T) <= Cardinality(S \cup {x}) /\ Cardinality(T) \in Nat
  BY <1>1, FewerLive
<1>3. IsFiniteSet(S) /\ Cardinality(S) \in Nat
  BY ConstantsAssumption, FS_Subset, ClientsFacts
<1>4. Cardinality(S \cup {x}) = IF x \in S THEN Cardinality(S) ELSE Cardinality(S) + 1
  BY <1>3, FS_AddElement
<1> QED
  BY <1>2, <1>3, <1>4

(* Nothing of the ports changes but what is subscribed.                    *)
LEMMA SteadyPortsAndLists ==
  ASSUME PortsKept, ListsKept
  PROVE  /\ \A h \in Handlers: /\ handler'[h].m_Registered = handler[h].m_Registered
                               /\ handler[h].m_Registered => PortKept(h)
         /\ \A x \in Clients, h \in Handlers: Member(x, h) /\ Listed(h, x) => Listed(h, x)'
BY DEF PortsKept, PortKept, ListsKept, ListKept, Listed

(* Nothing of the objects changes.                                         *)
LEMMA SameSteady ==
  ASSUME client' = client, handler' = handler
  PROVE  SteadyCounts /\ SteadyBounds
BY DEF SteadyCounts, SteadyBounds, Counters

(* The other ports do not notice an iteration.                             *)
LEMMA OtherPorts ==
  ASSUME CollectionInv, CollectionInv', Subscriptions, Running("ForEach"),
         NEW N, NEW first \in SUBSET N, Replaces(N, first),
         \A c \in N: c.do = "ForEach" => c.handler = Top.handler,
         client' = client,
         NEW g \in Handlers, g # Top.handler, handler[g].m_Registered,
         handler'[g].clients = handler[g].clients, Counters(g)' = Counters(g)
  PROVE  Balanced(g)' /\ Subscribed(g)'
<1>1. calls # <<>> /\ ~Counting(g)
  BY DEF Running, Counting, AtTop
<1>2. ~Counting(g)'
  <2>1. SUFFICES ASSUME Counting(g)'
                 PROVE  FALSE
    OBVIOUS
  <2>2. calls' # <<>> /\ Top'.do = "ForEach" /\ Top'.function = "count" /\ Top'.handler = g
    BY <2>1 DEF Counting, AtTop, Running, Top
  <2>3. CASE first = {}
    BY <1>1, <2>2, <2>3, ReturnsTo DEF Replaces, Running, Top
  <2>4. CASE first # {}
    BY <2>2, <2>4 DEF Replaces, TopIs
  <2> QED
    BY <2>3, <2>4
<1>3. WillCount(g) => WillCount(g)'
  BY <1>1, KeptFacts DEF WillCount
<1>4. Balanced(g) /\ Subscribed(g)
  BY DEF Subscriptions
<1>5. Balanced(g)'
  <2>1. Total(Counters(g))' = Total(Counters(g))
    BY DEF Total
  <2> QED
    BY <1>1, <1>3, <1>4, <2>1 DEF Balanced
<1>6. Subscribed(g)'
  <2>1. \A t: LiveOf(g, t, Clients)' = LiveOf(g, t, Clients)
    BY DEF LiveOf, Listed
  <2> QED
    BY <1>1, <1>2, <1>4, <2>1 DEF Subscribed
<1> QED
  BY <1>5, <1>6

-----------------------------------------------------------------------------
(* Iterations.                                                             *)

(* The innermost call, by its kind.                                        *)
LEMMA TopIteration ==
  ASSUME CollectionInv, Running("ForEach")
  PROVE  /\ calls # <<>> /\ Top.do = "ForEach" /\ Top \in CallType /\ Top.handler \in Handlers
         /\ handler \in [Handlers -> PortType] /\ handler[Top.handler] \in PortType
         /\ daemon # "failed"
<1>1. calls # <<>> /\ Top.do = "ForEach"
  BY DEF Running, Top
<1>2. Top \in CallType /\ daemon # "failed"
  BY <1>1, Innermost
<1>3. Top.handler \in Handlers
  BY <1>1, <1>2, CallFacts
<1> QED
  BY <1>1, <1>2, <1>3 DEF CollectionInv, ObjectTypes

(* The counters of a port change.                                          *)
LEMMA CounterStep ==
  ASSUME CollectionInv, NEW h \in Handlers, NEW counts \in [BufferTypes -> Nat],
         handler' = [handler EXCEPT ![h].m_BufferTypeSubscribers = counts]
  PROVE  /\ PortsKept /\ ListsKept /\ handler'[h].m_BufferTypeSubscribers = counts
         /\ \A g \in Handlers: g # h => CountersKept(g)
<1>1. handler \in [Handlers -> PortType]
  BY DEF CollectionInv, ObjectTypes
<1>2. PICK old \in PortType: old = handler[h]
  BY <1>1
<1> DEFINE new == [old EXCEPT !.m_BufferTypeSubscribers = counts]
<1>3. /\ new.m_Registered = old.m_Registered /\ new.m_SerialPortName = old.m_SerialPortName
      /\ new.open = old.open /\ new.m_NbrOfLocks = old.m_NbrOfLocks
      /\ new.clients = old.clients /\ new.m_BufferTypeSubscribers = counts
  BY DEF PortType
<1>4. handler' = [handler EXCEPT ![h] = new]
  BY <1>2
<1> HIDE DEF new
<1>5. handler'[h] = new /\ \A g \in Handlers: g # h => handler'[g] = handler[g]
  BY <1>1, <1>4
<1> QED
  BY <1>2, <1>3, <1>5 DEF PortsKept, PortKept, ListsKept, ListKept, CountersKept

(* A client is told something, or counted.                                 *)
LEMMA VisitQuietlyEffect ==
  ASSUME CollectionInv, VisitQuietly
  PROVE  /\ MeetsClient /\ Running("ForEach") /\ Top.function # "stop" /\ Top.next \in Clients
         /\ Replaces({Onwards}, {Onwards}) /\ Elsewhere /\ s_bCyclicCallGuard' = s_bCyclicCallGuard
         /\ PortsKept /\ ListsKept
         /\ \A g \in Handlers: g # Top.handler \/ Top.function # "count" => CountersKept(g)
         /\ Top.function = "count" =>
              handler'[Top.handler].m_BufferTypeSubscribers =
                [handler[Top.handler].m_BufferTypeSubscribers EXCEPT ![client[Top.next].m_eBufferType] = @ + 1]
<1>1. /\ MeetsClient /\ Running("ForEach") /\ Call(<<Onwards>>) /\ Top.function # "stop" /\ Top.next \in Clients
      /\ Elsewhere /\ s_bCyclicCallGuard' = s_bCyclicCallGuard
  BY DEF VisitQuietly, MeetsClient, collections, Elsewhere, Top
<1>2. /\ calls # <<>> /\ Top.handler \in Handlers /\ handler[Top.handler] \in PortType
      /\ client \in [Clients -> ClientType]
  BY <1>1, TopIteration DEF CollectionInv, ObjectTypes
<1>3. Onwards \in CallType
  BY <1>1, OnwardsFacts
<1>4. Replaces({Onwards}, {Onwards})
  BY <1>1, <1>2, <1>3, ReplacedShortly
<1>5. CASE Top.function # "count"
  <2>1. handler' = handler
    BY <1>5 DEF VisitQuietly, Top
  <2> QED
    BY <1>1, <1>4, <1>5, <2>1 DEF PortsKept, PortKept, ListsKept, ListKept, CountersKept
<1>6. CASE Top.function = "count"
  <2> DEFINE h == Top.handler
             type == client[Top.next].m_eBufferType
             counts == [handler[h].m_BufferTypeSubscribers EXCEPT ![type] = @ + 1]
  <2>1. handler' = [handler EXCEPT ![h].m_BufferTypeSubscribers[type] = @ + 1]
    BY <1>6 DEF VisitQuietly, Top
  <2>2. handler' = [handler EXCEPT ![h].m_BufferTypeSubscribers = counts]
    BY <2>1
  <2>3. counts \in [BufferTypes -> Nat]
    BY <1>2, CountFacts DEF PortType
  <2> HIDE DEF counts
  <2>4. /\ PortsKept /\ ListsKept /\ handler'[h].m_BufferTypeSubscribers = counts
        /\ \A g \in Handlers: g # h => CountersKept(g)
    BY <1>2, <2>2, <2>3, CounterStep
  <2> QED
    BY <1>1, <1>4, <1>6, <2>4 DEF counts
<1> QED
  BY <1>5, <1>6

(* The client at which an iteration is, that it has counted so far.        *)
LEMMA CountingAt ==
  ASSUME CollectionInv, Recounts, Running("ForEach"), Top.function = "count", Top.next \in Clients,
         NEW n \in DOMAIN handler[Top.handler].clients, Top.next = handler[Top.handler].clients[n]
  PROVE  Total(Counters(Top.handler)) = n - 1 /\ ~s_bCyclicCallGuard
<1>1. Passed(Top) /\ ~s_bCyclicCallGuard
  BY DEF Recounts
<1>2. Top.next # None
  BY ConstantsAssumption
<1>3. PICK m \in DOMAIN handler[Top.handler].clients:
        Top.next = handler[Top.handler].clients[m] /\ Total(Counters(Top.handler)) = m - 1
  BY <1>1, <1>2 DEF Passed
<1>4. Top.handler \in Handlers
  BY TopIteration
<1>5. m = n
  BY <1>3, <1>4, ListFacts
<1> QED
  BY <1>1, <1>3, <1>5

(* A client is counted.                                                    *)
LEMMA VisitToCount ==
  ASSUME FollowInv, CollectionInv', VisitQuietly, Top.function = "count"
  PROVE  Subscriptions' /\ Bounded'
<1>a. /\ calls # <<>> /\ CollectionInv /\ Bounded /\ Subscriptions /\ Recounts
      /\ Top.handler \in Handlers /\ Running("ForEach") /\ MeetsClient
  BY TopIteration, InProgress DEF VisitQuietly, MeetsClient, Running, FollowInv
<1>b. PICK h \in Handlers: h = Top.handler
  BY <1>a
<1>c. PICK x \in Clients: x = Top.next
  BY <1>a, MetClient
<1>d. PICK type \in BufferTypes: type = client[x].m_eBufferType
  BY <1>a DEF CollectionInv, ObjectTypes, ClientType
<1>e. PICK list \in Seq(Clients): list = handler[h].clients
  BY <1>a, ListFacts
<1>1. /\ calls # <<>> /\ CollectionInv /\ Bounded /\ Subscriptions /\ Recounts
  BY <1>a
<1>2. /\ MeetsClient /\ Running("ForEach") /\ x \in Clients
      /\ Replaces({Onwards}, {Onwards}) /\ Elsewhere /\ s_bCyclicCallGuard' = s_bCyclicCallGuard
      /\ PortsKept /\ ListsKept
      /\ \A g \in Handlers: g # h => CountersKept(g)
      /\ Counters(h)' = [Counters(h) EXCEPT ![type] = @ + 1]
  BY <1>1, <1>b, <1>c, <1>d, VisitQuietlyEffect DEF Counters
<1>3. PICK n \in DOMAIN list, o \in CallType:
        /\ o = Onwards /\ x = list[n]
        /\ o.next = IF n = Len(list) THEN None ELSE list[n + 1]
        /\ o.seen = Top.seen \cup {x}
        /\ o.do = "ForEach" /\ o.handler = h /\ o.function = "count"
  BY <1>1, <1>2, <1>b, <1>c, <1>e, OnwardsFacts
<1>5. /\ Total(Counters(h)) = n - 1 /\ ~s_bCyclicCallGuard
  BY <1>1, <1>2, <1>3, <1>b, <1>c, <1>e, CountingAt
<1>6. /\ Len(list) \in Nat /\ Len(list) <= Cardinality(Clients) /\ Cardinality(Clients) \in Nat
      /\ DOMAIN list = 1..Len(list) /\ n \in 1..Len(list)
      /\ Counters(h) \in [BufferTypes -> Nat]
  BY <1>1, <1>3, <1>e, PortList, ListFacts, ClientsFacts
<1>7. /\ Total(Counters(h)') = n /\ Counters(h)'[type] = Counters(h)[type] + 1
      /\ \A t \in BufferTypes: t # type => Counters(h)'[t] = Counters(h)[t]
  <2>1. PICK counts \in [BufferTypes -> Nat]: counts = Counters(h)
    BY <1>6
  <2>2. /\ Total([counts EXCEPT ![type] = @ + 1]) = Total(counts) + 1
        /\ counts[type] \in Nat
    BY TotalFacts
  <2>3. Counters(h)' = [counts EXCEPT ![type] = @ + 1]
    BY <1>2, <2>1
  <2>4. Total(Counters(h)') = n
    <3>1. Total(Counters(h)') = Total(counts) + 1
      BY <2>2, <2>3
    <3>2. Total(counts) = n - 1 /\ n \in Nat
      BY <1>5, <1>6, <2>1
    <3> QED
      BY <3>1, <3>2
  <2> QED
    BY <2>1, <2>3, <2>4
<1>8. Top' = o /\ calls' # <<>>
  BY <1>2, <1>3 DEF Replaces, TopIs
<1>9. handler'[h].clients = list
  BY <1>2, <1>e DEF ListsKept, ListKept
<1>10. Counting(h)' /\ Counting(h)
  BY <1>1, <1>2, <1>3, <1>8, <1>b DEF Counting, AtTop, Running, Top
<1>11. Total(Counters(h))' = n
  BY <1>7 DEF Total
<1>12. Recounts'
  <2>1. Passed(o)'
    <3>1. CASE n = Len(list)
      BY <1>3, <1>9, <1>11, <3>1 DEF Passed
    <3>2. CASE n # Len(list)
      <4>1. n + 1 \in DOMAIN list /\ o.next = list[n + 1] /\ n = (n + 1) - 1
        BY <1>3, <1>6, <3>2
      <4> QED
        BY <1>3, <1>9, <1>11, <4>1 DEF Passed
    <3> QED
      BY <3>1, <3>2
  <2> QED
    BY <1>2, <1>5, <1>8, <2>1 DEF Recounts, Passed
<1>13. ASSUME NEW t \in BufferTypes, handler[h].m_Registered
       PROVE  Counters(h)'[t] >= Cardinality(LiveOf(h, t, o.seen)')
  <2>1. PICK seen \in SUBSET Clients: seen = Top.seen
    BY <1>1, <1>2, TopIteration, CallFacts
  <2> DEFINE S == LiveOf(h, t, seen)
             T == LiveOf(h, t, o.seen)'
  <2>2. S \in SUBSET Clients /\ T \in SUBSET Clients
    BY <1>2, <1>3, <2>1 DEF LiveOf, Elsewhere
  <2>3. T \subseteq S \cup {x} /\ (t # type => T \subseteq S)
    BY <1>2, <1>3, <1>9, <1>d, <1>e, <2>1 DEF LiveOf, Listed, Elsewhere
  <2>4. Counters(h)[t] >= Cardinality(S)
    BY <1>1, <1>10, <1>13, <2>1 DEF Subscriptions, Subscribed
  <2>5. Counters(h)[t] \in Nat
    BY <1>6
  <2> HIDE DEF S, T
  <2>6. CASE t = type
    <3>1. Cardinality(T) <= Cardinality(S) + 1 /\ Cardinality(T) \in Nat /\ Cardinality(S) \in Nat
      BY <1>2, <2>2, <2>3, OneMoreLive
    <3> QED
      BY <1>7, <2>4, <2>5, <2>6, <3>1 DEF T
  <2>7. CASE t # type
    <3>1. Cardinality(T) <= Cardinality(S) /\ Cardinality(T) \in Nat /\ Cardinality(S) \in Nat
      BY <2>2, <2>3, <2>7, FewerLive
    <3> QED
      BY <1>7, <2>4, <2>5, <2>7, <3>1 DEF T
  <2> QED
    BY <2>6, <2>7
<1>14. ASSUME handler'[h].m_Registered
       PROVE  Balanced(h)' /\ Subscribed(h)'
  <2>1. handler[h].m_Registered
    BY <1>1, <1>2, <1>14 DEF PortsKept, PortKept
  <2>2. \A t \in BufferTypes: Counters(h)'[t] >= Cardinality(LiveOf(h, t, Top.seen)')
    <3>1. \A t: LiveOf(h, t, Top.seen)' = LiveOf(h, t, o.seen)'
      BY <1>8 DEF LiveOf
    <3> QED
      BY <1>13, <2>1, <3>1
  <2> QED
    BY <1>10, <2>2 DEF Balanced, Subscribed
<1>15. ASSUME NEW g \in Handlers, g # h, handler'[g].m_Registered
       PROVE  Balanced(g)' /\ Subscribed(g)'
  <2>1. handler[g].m_Registered /\ handler'[g].clients = handler[g].clients /\ Counters(g)' = Counters(g)
    BY <1>2, <1>15 DEF PortsKept, PortKept, ListsKept, ListKept, CountersKept, Counters
  <2> QED
    BY <1>1, <1>2, <1>3, <1>15, <1>b, <2>1, OtherPorts DEF Elsewhere
<1>16. Subscriptions'
  BY <1>12, <1>14, <1>15 DEF Subscriptions
<1>17. Bounded'
  <2>1. ASSUME NEW g \in Handlers
        PROVE  /\ handler'[g].m_NbrOfLocks \in 0..Cardinality(Clients)
               /\ Total(Counters(g))' <= Cardinality(Clients)
    <3>1. handler'[g].m_NbrOfLocks \in 0..Cardinality(Clients)
      BY <1>1, <1>2 DEF Bounded, PortsKept, PortKept
    <3>2. CASE g = h
      BY <1>6, <1>11, <3>1, <3>2
    <3>3. CASE g # h
      <4>1. Total(Counters(g))' = Total(Counters(g))
        BY <1>2, <1>b, <3>3 DEF CountersKept, Counters, Total
      <4> QED
        BY <1>1, <3>1, <4>1 DEF Bounded
    <3> QED
      BY <3>2, <3>3
  <2> QED
    BY <2>1 DEF Bounded
<1> QED
  BY <1>16, <1>17

(* A client is told something, or counted.                                 *)
LEMMA VisitQuietlyFollows ==
  ASSUME FollowInv, CollectionInv', VisitQuietly
  PROVE  FollowInv'
<1>1. /\ CollectionInv /\ Running("ForEach") /\ calls # <<>> /\ Top.do = "ForEach"
      /\ daemon # "failed" /\ Lives /\ Ports /\ Locks /\ Recounts /\ Subscriptions /\ Bounded
  BY TopIteration, InProgress DEF VisitQuietly, MeetsClient, Running, FollowInv
<1>2. /\ Top.function # "stop" /\ Top.next \in Clients /\ Replaces({Onwards}, {Onwards}) /\ Elsewhere
      /\ s_bCyclicCallGuard' = s_bCyclicCallGuard /\ PortsKept /\ ListsKept
      /\ \A g \in Handlers: g # Top.handler \/ Top.function # "count" => CountersKept(g)
  BY <1>1, VisitQuietlyEffect
<1>3. PICK o \in CallType: /\ o = Onwards /\ o.do = "ForEach" /\ o.handler = Top.handler
                           /\ o.function = Top.function /\ o.rebuild = Top.rebuild
  BY <1>1, <1>2, OnwardsFacts
<1>4. Replaces({o}, {o})
  BY <1>2, <1>3
<1>5. SteadyLives /\ SteadyPorts /\ SteadyLocks
  BY <1>1, <1>2, <1>3, <1>4, SteadyCalls, SteadyPortsAndLists DEF Stopping, Elsewhere
<1>6. Lives' /\ Ports' /\ Locks'
  BY <1>1, <1>5, LivesStep, PortsStep, LocksStep
<1>7. CASE Top.function = "count"
  BY <1>6, <1>7, VisitToCount DEF FollowInv
<1>8. CASE Top.function # "count"
  <2>1. SteadyIterations
    BY <1>1, <1>2, <1>3, <1>4, <1>8, IterationGoesOn
  <2>2. \A g \in Handlers: /\ Counters(g)' = Counters(g) /\ handler'[g].clients = handler[g].clients
                           /\ handler'[g].m_Registered = handler[g].m_Registered
                           /\ handler'[g].m_NbrOfLocks = handler[g].m_NbrOfLocks
    BY <1>2, <1>8 DEF CountersKept, Counters, ListsKept, ListKept, PortsKept, PortKept
  <2>3. SteadyCounts /\ SteadyBounds
    BY <1>2, <2>2 DEF SteadyCounts, SteadyBounds, Elsewhere
  <2> QED
    BY <1>1, <1>5, <2>1, <2>3, SteadyStep
<1> QED
  BY <1>7, <1>8

(* The objects stay as they are.                                           *)
LEMMA SamePorts ==
  ASSUME handler' = handler
  PROVE  PortsKept /\ ListsKept /\ \A g \in Handlers: CountersKept(g)
BY DEF PortsKept, PortKept, ListsKept, ListKept, CountersKept

(* A client is asked for a packet, which is sent and delivered.            *)
LEMMA VisitToQueryEffect ==
  ASSUME CollectionInv, VisitToQuery
  PROVE  /\ Running("ForEach") /\ Top.function = "query"
         /\ Elsewhere /\ handler' = handler
         /\ \E a, o \in CallType: \E N \in SUBSET CallType:
              /\ Replaces(N, {a}) /\ a \in N /\ a.do = "Deliver" /\ o \in N
              /\ o.do = "ForEach" /\ o.function = "enqueue" /\ o.handler = Top.handler
              /\ o.rebuild = Top.rebuild
              /\ \A c \in N: c = o \/ c.do \in {"Deliver", "LeaveClient"}
<1>1. /\ MeetsClient /\ Running("ForEach") /\ Top.function = "query" /\ Elsewhere /\ handler' = handler
      /\ Call(DeliverSentPayload(Top.handler)
              \o <<[do |-> "LeaveClient", client |-> Top.next, locked |-> ~s_bCyclicCallGuard],
                   [Onwards EXCEPT !.function = "enqueue"]>>)
  BY DEF VisitToQuery, VisitCalling, Iterating, Running, Top, objects, collections, Elsewhere
<1>2. calls # <<>> /\ Top.handler \in Handlers /\ Top.next \in Clients
  BY <1>1, MetClient
<1>3. s_bCyclicCallGuard \in BOOLEAN
  BY DEF CollectionInv, ObjectTypes
<1>4. PICK e \in CallType: /\ e = [Onwards EXCEPT !.function = "enqueue"]
                           /\ e.do = "ForEach" /\ e.function = "enqueue" /\ e.handler = Top.handler
                           /\ e.rebuild = Top.rebuild
  <2>1. /\ Onwards \in CallType /\ Onwards.do = "ForEach" /\ Onwards.handler = Top.handler
        /\ Onwards.rebuild = Top.rebuild
    BY <1>1, <1>2, OnwardsFacts
  <2>2. Onwards \in [do: {"ForEach"}, handler: Handlers, function: Functions, next: Clients \cup {None},
                     rebuild: BOOLEAN, seen: SUBSET Clients]
    BY <2>1 DEF CallType
  <2> DEFINE e == [Onwards EXCEPT !.function = "enqueue"]
  <2>3. /\ e \in [do: {"ForEach"}, handler: Handlers, function: Functions, next: Clients \cup {None},
                  rebuild: BOOLEAN, seen: SUBSET Clients]
        /\ e.do = "ForEach" /\ e.function = "enqueue"
        /\ e.handler = Onwards.handler /\ e.rebuild = Onwards.rebuild
    BY <2>2 DEF Functions
  <2> HIDE DEF e
  <2>4. e \in CallType
    BY <2>3 DEF CallType
  <2> QED
    BY <2>1, <2>3, <2>4 DEF e
<1>5. PICK l \in CallType: /\ l = [do |-> "LeaveClient", client |-> Top.next, locked |-> ~s_bCyclicCallGuard]
                           /\ l.do = "LeaveClient"
  <2>1. /\ Leaving(Top.next, ~s_bCyclicCallGuard) \in CallType
        /\ Leaving(Top.next, ~s_bCyclicCallGuard).do = "LeaveClient"
    BY <1>2, <1>3, NewCalls DEF Leaving
  <2> QED
    BY <2>1 DEF Leaving
<1>6. PICK a \in CallType, b \in CallType, c \in CallType:
        /\ a = Delivery(Top.handler, "PAYLOAD") /\ b = Delivery(Top.handler, "RAW")
        /\ c = Delivery(Top.handler, "DISSECTED")
        /\ a.do = "Deliver" /\ b.do = "Deliver" /\ c.do = "Deliver"
  <2>1. "PAYLOAD" \in BufferTypes /\ "RAW" \in BufferTypes /\ "DISSECTED" \in BufferTypes
    BY DEF BufferTypes
  <2>2. /\ Delivery(Top.handler, "PAYLOAD").do = "Deliver" /\ Delivery(Top.handler, "RAW").do = "Deliver"
        /\ Delivery(Top.handler, "DISSECTED").do = "Deliver"
    BY DEF Delivery
  <2> QED
    BY <1>2, <2>1, <2>2, NewCalls
<1>7. DeliverSentPayload(Top.handler) = <<a>> \o (<<b>> \o <<c>>)
  BY <1>6 DEF DeliverSentPayload, DeliverSent, Deliver, Delivery
<1> DEFINE s1 == <<b>> \o <<c>>
           s2 == <<a>> \o s1
           s3 == <<l>> \o <<e>>
           s4 == s2 \o s3
<1>8. /\ <<a>> \in Seq(CallType) /\ ToSet(<<a>>) = {a} /\ <<a>> # <<>> /\ <<a>>[1] = a
      /\ <<b>> \in Seq(CallType) /\ ToSet(<<b>>) = {b} /\ <<c>> \in Seq(CallType) /\ ToSet(<<c>>) = {c}
      /\ <<l>> \in Seq(CallType) /\ ToSet(<<l>>) = {l} /\ <<e>> \in Seq(CallType) /\ ToSet(<<e>>) = {e}
  BY OneCall
<1>9. s1 \in Seq(CallType) /\ ToSet(s1) = {b, c}
  <2>1. <<b>> \o <<c>> \in Seq(CallType) /\ ToSet(<<b>> \o <<c>>) = ToSet(<<b>>) \cup ToSet(<<c>>)
    BY <1>8, JoinFacts
  <2> QED
    BY <1>8, <2>1
<1>10. s3 \in Seq(CallType) /\ ToSet(s3) = {l, e} /\ s3 = <<l, e>>
  <2>1. <<l>> \o <<e>> \in Seq(CallType) /\ ToSet(<<l>> \o <<e>>) = ToSet(<<l>>) \cup ToSet(<<e>>)
    BY <1>8, JoinFacts
  <2> QED
    BY <1>8, <2>1, PairOfCalls
<1> HIDE DEF s1, s3
<1>11. s2 \in Seq(CallType) /\ ToSet(s2) = {a, b, c} /\ s2 # <<>> /\ s2[1] = a
  <2>1. /\ <<a>> \o s1 \in Seq(CallType) /\ ToSet(<<a>> \o s1) = ToSet(<<a>>) \cup ToSet(s1)
        /\ <<a>> \o s1 # <<>> /\ (<<a>> \o s1)[1] = <<a>>[1]
    BY <1>8, <1>9, JoinFacts
  <2> QED
    BY <1>8, <1>9, <2>1
<1> HIDE DEF s2
<1>12. s4 \in Seq(CallType) /\ ToSet(s4) = {a, b, c, l, e} /\ s4 # <<>> /\ s4[1] = a
  <2>1. /\ s2 \o s3 \in Seq(CallType) /\ ToSet(s2 \o s3) = ToSet(s2) \cup ToSet(s3)
        /\ s2 \o s3 # <<>> /\ (s2 \o s3)[1] = s2[1]
    BY <1>10, <1>11, JoinFacts
  <2> QED
    BY <1>10, <1>11, <2>1
<1>13. Call(s4)
  BY <1>1, <1>4, <1>5, <1>7, <1>10 DEF s1, s2
<1> HIDE DEF s4
<1>14. Replaces({a, b, c, l, e}, {a})
  <2>1. Replaces(ToSet(s4), IF s4 = <<>> THEN {} ELSE {s4[1]})
    BY <1>2, <1>12, <1>13, Replaced
  <2> QED
    BY <1>12, <2>1
<1>15. PICK N \in SUBSET CallType: N = {a, b, c, l, e}
  OBVIOUS
<1>16. Replaces(N, {a}) /\ a \in N /\ e \in N
  BY <1>14, <1>15
<1>17. \A d \in N: d = e \/ d.do \in {"Deliver", "LeaveClient"}
  BY <1>5, <1>6, <1>15
<1>18. /\ a.do = "Deliver" /\ e.do = "ForEach" /\ e.function = "enqueue" /\ e.handler = Top.handler
       /\ e.rebuild = Top.rebuild
  BY <1>4, <1>6
<1> QED
  BY <1>1, <1>16, <1>17, <1>18

(* A client is asked for a packet.                                         *)
LEMMA VisitToQueryFollows ==
  ASSUME FollowInv, CollectionInv', VisitToQuery
  PROVE  FollowInv'
<1>1. /\ CollectionInv /\ Running("ForEach") /\ calls # <<>> /\ Top.do = "ForEach"
      /\ daemon # "failed" /\ Lives /\ Recounts
  BY InProgress DEF VisitToQuery, Iterating, Running, Top, FollowInv
<1>2. /\ Top.function = "query" /\ Elsewhere /\ handler' = handler
      /\ \E a, o \in CallType: \E N \in SUBSET CallType:
           /\ Replaces(N, {a}) /\ a \in N /\ a.do = "Deliver" /\ o \in N
           /\ o.do = "ForEach" /\ o.function = "enqueue" /\ o.handler = Top.handler
           /\ o.rebuild = Top.rebuild
           /\ \A c \in N: c = o \/ c.do \in {"Deliver", "LeaveClient"}
  BY <1>1, VisitToQueryEffect
<1>3. PICK a \in CallType, o \in CallType, N \in SUBSET CallType:
           /\ Replaces(N, {a}) /\ a \in N /\ a.do = "Deliver" /\ o \in N
           /\ o.do = "ForEach" /\ o.function = "enqueue" /\ o.handler = Top.handler
           /\ o.rebuild = Top.rebuild
           /\ \A c \in N: c = o \/ c.do \in {"Deliver", "LeaveClient"}
  BY <1>2
<1>4. SteadyIterations
  BY <1>1, <1>2, <1>3, IterationGoesOn
<1>5. SteadyLives /\ SteadyPorts /\ SteadyLocks
  <2>1. \A c \in N: c.do \notin {"Attach", "DestroyClient"}
    BY <1>3
  <2>2. ~Stopping(Top)
    BY <1>2 DEF Stopping
  <2>3. {a} \in SUBSET N /\ \A c \in {a}: c.do \notin {"Open", "Resume", "Stop"}
    BY <1>3
  <2>4. PortsKept /\ ListsKept
    BY <1>2, SamePorts
  <2> QED
    BY <1>1, <1>2, <1>3, <2>1, <2>2, <2>3, <2>4, SteadyCalls, SteadyPortsAndLists DEF Elsewhere
<1> QED
  BY <1>1, <1>2, <1>4, <1>5, SameSteady, SteadyStep DEF Elsewhere

(* A call is replaced by three.                                            *)
LEMMA ReplacedByThree ==
  ASSUME CollectionInv, calls # <<>>, NEW a \in CallType, NEW b \in CallType, NEW c \in CallType,
         Call(<<a>> \o <<b, c>>)
  PROVE  Replaces({a, b, c}, {a})
<1>1. /\ <<a>> \in Seq(CallType) /\ ToSet(<<a>>) = {a} /\ <<a>> # <<>> /\ <<a>>[1] = a
      /\ <<b>> \in Seq(CallType) /\ ToSet(<<b>>) = {b} /\ <<c>> \in Seq(CallType) /\ ToSet(<<c>>) = {c}
  BY OneCall
<1> DEFINE s == <<b, c>>
           t == <<a>> \o s
<1>2. s \in Seq(CallType) /\ ToSet(s) = {b, c}
  <2>1. <<b>> \o <<c>> \in Seq(CallType) /\ ToSet(<<b>> \o <<c>>) = ToSet(<<b>>) \cup ToSet(<<c>>)
    BY <1>1, JoinFacts
  <2> QED
    BY <1>1, <2>1, PairOfCalls
<1>3. Call(t)
  OBVIOUS
<1> HIDE DEF s
<1>4. t \in Seq(CallType) /\ ToSet(t) = {a, b, c} /\ t # <<>> /\ t[1] = a
  <2>1. /\ <<a>> \o s \in Seq(CallType) /\ ToSet(<<a>> \o s) = ToSet(<<a>>) \cup ToSet(s)
        /\ <<a>> \o s # <<>> /\ (<<a>> \o s)[1] = <<a>>[1]
    BY <1>1, <1>2, JoinFacts
  <2> QED
    BY <1>1, <1>2, <2>1
<1> HIDE DEF t
<1>5. Replaces(ToSet(t), IF t = <<>> THEN {} ELSE {t[1]})
  BY <1>3, <1>4, Replaced
<1> QED
  BY <1>4, <1>5

(* A client is stopped, held until that has returned.                      *)
LEMMA VisitToStopEffect ==
  ASSUME CollectionInv, VisitToStop
  PROVE  /\ MeetsClient /\ Running("ForEach") /\ Top.function = "stop" /\ Top.next \in Clients
         /\ handler' = handler /\ Elsewhere
         /\ \E a, l, o \in CallType:
              /\ Replaces({a, l, o}, {a})
              /\ a.do = "StopClient" /\ a.client = Top.next /\ l.do = "LeaveClient"
              /\ o.do = "ForEach" /\ o.handler = Top.handler /\ o.function = Top.function
              /\ o.rebuild = Top.rebuild /\ o.seen = Top.seen \cup {Top.next}
<1>1. /\ MeetsClient /\ Running("ForEach") /\ calls # <<>> /\ Top.do = "ForEach" /\ Top.function = "stop"
      /\ handler' = handler /\ Elsewhere
  BY DEF VisitToStop, VisitCalling, Iterating, Running, Top, objects, collections, Elsewhere
<1>2. PICK x \in Clients: x = Top.next
  BY <1>1, MetClient
<1>3. PICK o \in CallType: /\ o = Onwards /\ o.do = "ForEach" /\ o.handler = Top.handler
                           /\ o.function = Top.function /\ o.rebuild = Top.rebuild
                           /\ o.seen = Top.seen \cup {x}
  BY <1>1, <1>2, OnwardsFacts
<1>4. s_bCyclicCallGuard \in BOOLEAN
  BY DEF CollectionInv, ObjectTypes
<1>5. PICK a \in CallType, l \in CallType:
        /\ a = OnClient("StopClient", x) /\ a.do = "StopClient" /\ a.client = x
        /\ l = Leaving(x, ~s_bCyclicCallGuard) /\ l.do = "LeaveClient"
  <2>1. OnClient("StopClient", x) \in CallType /\ Leaving(x, ~s_bCyclicCallGuard) \in CallType
    BY <1>4, NewCalls
  <2> QED
    BY <2>1 DEF OnClient, Leaving
<1>6. Call(<<a>> \o <<l, o>>)
  BY <1>1, <1>2, <1>3, <1>5 DEF VisitToStop, VisitCalling, Iterating, Top, ForClient, OnClient, Leaving
<1>7. Replaces({a, l, o}, {a})
  BY <1>1, <1>6, ReplacedByThree
<1> QED
  BY <1>1, <1>2, <1>3, <1>5, <1>7

(* A client is stopped.                                                    *)
LEMMA VisitToStopFollows ==
  ASSUME FollowInv, CollectionInv', VisitToStop
  PROVE  FollowInv'
<1>1. /\ CollectionInv /\ Running("ForEach") /\ calls # <<>> /\ Top.do = "ForEach"
      /\ daemon # "failed" /\ Lives /\ Recounts /\ MeetsClient /\ Top.function = "stop"
      /\ client' = client /\ handler' = handler /\ Elsewhere
  BY InProgress DEF VisitToStop, VisitCalling, Iterating, Running, Top, FollowInv, objects, collections, Elsewhere
<1>2. PICK x \in Clients: x = Top.next
  BY <1>1, MetClient
<1>3. PICK a \in CallType, l \in CallType, o \in CallType:
        /\ Replaces({a, l, o}, {a})
        /\ a.do = "StopClient" /\ a.client = x /\ l.do = "LeaveClient"
        /\ o.do = "ForEach" /\ o.handler = Top.handler /\ o.function = Top.function
        /\ o.rebuild = Top.rebuild /\ o.seen = Top.seen \cup {x}
  BY <1>1, <1>2, VisitToStopEffect
<1>4. SteadyIterations
  BY <1>1, <1>3, IterationGoesOn
<1>5. ASSUME NEW y \in Clients, NEW h \in Handlers, Top.handler = h, y \notin Top.seen
      PROVE  AwaitsStop(y, h)'
  <2>1. a \in Pending' /\ o \in Pending'
    BY <1>3 DEF Replaces
  <2>2. CASE y = x
    BY <1>3, <2>1, <2>2 DEF AwaitsStop
  <2>3. CASE y # x
    BY <1>1, <1>3, <1>5, <2>1, <2>3 DEF AwaitsStop, Stopping
  <2> QED
    BY <2>2, <2>3
<1>6. SteadyLives /\ SteadyPorts /\ SteadyLocks
  <2> DEFINE N == {a, l, o}
  <2>1. \A c \in N: c.do \notin {"Attach", "DestroyClient"}
    BY <1>3
  <2>2. {a} \in SUBSET N /\ \A c \in {a}: c.do \notin {"Open", "Resume", "Stop"}
    BY <1>3
  <2>3. PortsKept /\ ListsKept
    BY <1>1, SamePorts
  <2>4. Replaces(N, {a})
    BY <1>3
  <2> HIDE DEF N
  <2> QED
    BY <1>1, <1>5, <2>1, <2>2, <2>3, <2>4, SteadyCalls, SteadyPortsAndLists DEF Elsewhere
<1> QED
  BY <1>1, <1>4, <1>6, SameSteady, SteadyStep

(* Quiet calls are made, or a call returns, and no object changes.         *)
LEMMA QuietFollows ==
  ASSUME FollowInv, CollectionInv', calls # <<>>,
         Top.do \notin {"ForEach", "StopClient", "ReleaseStopper"},
         Top.do \in {"Open", "Resume", "Stop", "Attach"} => ~handler[Top.handler].m_Registered,
         NEW N, NEW first \in SUBSET N, Replaces(N, first),
         \A c \in N: /\ c.do \notin {"Attach", "Open", "Resume"}
                     /\ c.do = "DestroyClient" => ~client[c.client].m_Registered
                     /\ c.do = "ForEach" => ~c.rebuild /\ c.function # "count",
         handler' = handler, Elsewhere
  PROVE  FollowInv'
<1>1. CollectionInv /\ daemon # "failed" /\ Lives
  BY InProgress
<1>2. SteadyIterations
  BY <1>1, NoIteration
<1>3. PortsKept /\ ListsKept
  BY SamePorts
<1>4. ~Stopping(Top)
  BY DEF Stopping
<1>5. SteadyLives /\ SteadyPorts /\ SteadyLocks
  BY <1>1, <1>3, <1>4, SteadyCalls, SteadyPortsAndLists DEF Elsewhere
<1> QED
  BY <1>1, <1>2, <1>5, SameSteady, SteadyStep DEF Elsewhere

(* A client is left; one that is not registered any more may be destroyed. *)
LEMMA LeaveClientFollows ==
  ASSUME FollowInv, CollectionInv', LeaveClient
  PROVE  FollowInv'
<1>1. /\ calls # <<>> /\ Top.do = "LeaveClient" /\ handler' = handler /\ Elsewhere
      /\ Call(IF client[Top.client].m_Registered THEN <<>> ELSE DestroyIfUnused(Top.client, Rest))
  BY DEF LeaveClient, Running, Top, Rest, objects, collections, Elsewhere
<1>2. CollectionInv /\ Top \in CallType
  BY <1>1, InProgress, Innermost
<1>3. PICK x \in Clients: x = Top.client
  BY <1>1, <1>2, CallFacts DEF Ending
<1>4. PICK d \in CallType: d = OnClient("DestroyClient", x) /\ d.do = "DestroyClient" /\ d.client = x
  <2>1. OnClient("DestroyClient", x) \in CallType
    BY NewCalls
  <2> QED
    BY <2>1 DEF OnClient
<1>5. Call(<<>>) \/ (Call(<<d>>) /\ ~client[x].m_Registered)
  BY <1>1, <1>3, <1>4 DEF DestroyIfUnused, ForClient, OnClient
<1>6. CASE Call(<<>>)
  BY <1>1, <1>2, <1>6, ReplacedShortly, QuietFollows
<1>7. CASE Call(<<d>>) /\ ~client[x].m_Registered
  <2>1. Replaces({d}, {d})
    BY <1>1, <1>2, <1>7, ReplacedShortly
  <2> QED
    BY <1>1, <1>4, <1>7, <2>1, QuietFollows
<1> QED
  BY <1>5, <1>6, <1>7

\* The call that goes over the clients of h from the first one.
IterationOf(it, h, function) ==
  /\ ForEach(h, function) = <<it>>
  /\ it.do = "ForEach" /\ it.handler = h /\ it.function = function
  /\ Complete(it)
  /\ it.seen = {} /\ it.rebuild = FALSE

(* Every function is called in this way.                                   *)
LEMMA BeginningIteration ==
  ASSUME CollectionInv, NEW h \in Handlers, NEW function \in Functions
  PROVE  \E it \in CallType: IterationOf(it, h, function)
<1>1. PICK it \in CallType:
        /\ ForEach(h, function) = <<it>>
        /\ it.do = "ForEach" /\ it.handler = h /\ it.function = function
        /\ Complete(it)
        /\ it.seen = {} /\ it.rebuild = FALSE
  BY ForEachFacts
<1>2. IterationOf(it, h, function)
  BY <1>1 DEF IterationOf
<1> QED
  BY <1>2

(* An iteration begins.                                                    *)
LEMMA BeginForEachFollows ==
  ASSUME FollowInv, CollectionInv', BeginForEach
  PROVE  FollowInv'
<1>1. /\ calls # <<>> /\ Top.do \in {"Propagate", "Query", "Deliver"}
      /\ \/ Call(<<>>)
         \/ \E f \in {"update", "query", "deliver"}: Call(ForEach(Top.handler, f))
      /\ handler' = handler /\ Elsewhere
  BY DEF BeginForEach, Running, Top, Keep, Elsewhere
<1>2. CollectionInv /\ Top \in CallType
  BY <1>1, InProgress, Innermost
<1>3. PICK h \in Handlers: h = Top.handler
  BY <1>1, <1>2, CallFacts
<1>4. CASE Call(<<>>)
  BY <1>1, <1>2, <1>4, ReplacedShortly, QuietFollows
<1>5. ASSUME NEW f \in Functions, f # "count", Call(ForEach(h, f))
      PROVE  FollowInv'
  <2>1. PICK it \in CallType:
          /\ ForEach(h, f) = <<it>>
          /\ it.do = "ForEach" /\ it.handler = h /\ it.function = f
          /\ Complete(it)
          /\ it.seen = {} /\ it.rebuild = FALSE
    BY <1>2, ForEachFacts
  <2>2. Replaces({it}, {it})
    BY <1>1, <1>2, <1>5, <2>1, ReplacedShortly
  <2> QED
    BY <1>1, <1>5, <2>1, <2>2, QuietFollows
<1>6. CASE \E f \in {"update", "query", "deliver"}: Call(ForEach(h, f))
  <2>1. {"update", "query", "deliver"} \subseteq Functions \ {"count"}
    BY DEF Functions
  <2> QED
    BY <1>5, <1>6, <2>1
<1> QED
  BY <1>1, <1>3, <1>4, <1>6

(* An iteration that is at the end has seen all clients that exist.        *)
LEMMA EndedFacts ==
  ASSUME CollectionInv, Running("ForEach"), Top.next = None, NEW h \in Handlers, h = Top.handler
  PROVE  /\ \A x \in Clients: Listed(h, x) /\ client[x].exists => x \in Top.seen
         /\ Passed(Top) => Total(Counters(h)) = Len(handler[h].clients)
<1>1. Complete(Top)
  BY Innermost DEF Running, Top
<1>2. \A n \in DOMAIN handler[h].clients: handler[h].clients[n] # None
  BY ListFacts, ConstantsAssumption
<1> QED
  BY <1>1, <1>2 DEF Complete, Listed, Passed

(* An iteration has met all members of its port when it is at the end.     *)
LEMMA EndedMembers ==
  ASSUME CollectionInv, Lives, Running("ForEach"), Top.next = None, NEW h \in Handlers, h = Top.handler
  PROVE  /\ \A x \in Clients: Member(x, h) => x \in Top.seen
         /\ ~handler[h].m_Registered => \A x \in Clients: ~Member(x, h)
<1>1. \A x \in Clients: Member(x, h) => x \in Top.seen
  <2>1. \A x \in Clients: Member(x, h) => Listed(h, x) /\ client[x].exists
    BY DEF Lives, Members, Member, CollectionInv, Objects
  <2> QED
    BY <2>1, EndedFacts
<1>2. ASSUME ~handler[h].m_Registered, NEW x \in Clients, Member(x, h)
      PROVE  FALSE
  <2>1. calls # <<>> /\ Top.do = "ForEach"
    BY DEF Running, Top
  <2>2. PICK c \in Pending: \/ c.do = "StopClient" /\ c.client = x
                            \/ Stopping(c) /\ c.handler = h /\ x \notin c.seen
    BY <1>2 DEF Lives, Members, AwaitsStop
  <2>3. c # Top
    BY <1>1, <1>2, <2>1, <2>2
  <2>4. c \in ToSet(Rest)
    BY <2>1, <2>2, <2>3, Innermost
  <2>5. c.do # "StopClient"
    BY <2>1, <2>4, Under
  <2>6. c.do = "ForEach" => c.handler # h
    BY <1>2, <2>1, <2>4, NoOuterIteration
  <2> QED
    BY <2>2, <2>5, <2>6 DEF Stopping
<1> QED
  BY <1>1, <1>2

(* An iteration begins to count.                                           *)
LEMMA CountAgain ==
  ASSUME FollowInv, CollectionInv', EndForEach, Top.rebuild
  PROVE  FollowInv'
<1>1. /\ Running("ForEach") /\ calls # <<>> /\ Top.do = "ForEach" /\ Top.next = None
      /\ Call(ForEach(Top.handler, "count"))
      /\ handler' = [handler EXCEPT ![Top.handler].m_BufferTypeSubscribers = NoSubscribers]
      /\ Elsewhere /\ s_bCyclicCallGuard' = s_bCyclicCallGuard
  BY DEF EndForEach, EndAndCount, Running, Top, collections, Elsewhere
<1>2. /\ CollectionInv /\ daemon # "failed" /\ Lives /\ Ports /\ Locks
      /\ Subscriptions /\ Bounded /\ Recounts
  BY <1>1, InProgress
<1>3. PICK h \in Handlers: h = Top.handler
  BY <1>1, <1>2, TopIteration
<1>4. PICK it \in CallType: /\ ForEach(h, "count") = <<it>> /\ it.do = "ForEach" /\ it.handler = h
                            /\ it.function = "count" /\ it.seen = {} /\ it.rebuild = FALSE
                            /\ it.next = FirstOf(handler[h].clients)
  <2>1. "count" \in Functions
    BY DEF Functions
  <2>2. PICK it \in CallType: /\ ForEach(h, "count") = <<it>> /\ it.do = "ForEach" /\ it.handler = h
                              /\ it.function = "count" /\ it.seen = {} /\ it.rebuild = FALSE
    <3>1. PICK it \in CallType: IterationOf(it, h, "count")
      BY <1>2, <2>1, BeginningIteration
    <3> QED
      BY <3>1 DEF IterationOf
  <2>3. ForEach(h, "count")[1].next = FirstOf(handler[h].clients)
    BY DEF ForEach
  <2>4. ForEach(h, "count")[1] = it
    BY <2>2
  <2> QED
    BY <2>2, <2>3, <2>4
<1>5. Replaces({it}, {it})
  BY <1>1, <1>2, <1>3, <1>4, ReplacedShortly
<1>6. NoSubscribers \in [BufferTypes -> Nat] /\ Total(NoSubscribers) = 0 /\ \A t \in BufferTypes: NoSubscribers[t] = 0
  BY DEF NoSubscribers, Total, BufferTypes
<1>7. /\ PortsKept /\ ListsKept /\ Counters(h)' = NoSubscribers
      /\ \A g \in Handlers: g # h => CountersKept(g)
  BY <1>1, <1>2, <1>3, <1>6, CounterStep DEF Counters
<1>8. SteadyLives /\ SteadyPorts /\ SteadyLocks
  <2>1. \A x \in Clients: Member(x, h) => x \in Top.seen
    BY <1>1, <1>2, <1>3, EndedMembers
  <2> QED
    BY <1>1, <1>2, <1>3, <1>4, <1>5, <1>7, <2>1, SteadyCalls, SteadyPortsAndLists DEF Elsewhere
<1>9. SteadyBounds
  BY <1>7 DEF SteadyBounds, PortsKept, PortKept, CountersKept, Counters
<1>10. Top' = it /\ calls' # <<>>
  BY <1>5 DEF Replaces, TopIs
<1>11. Counting(h)' /\ Total(Counters(h))' = 0 /\ handler'[h].clients = handler[h].clients
  BY <1>4, <1>6, <1>7, <1>10 DEF Counting, AtTop, Running, Top, Total, ListsKept, ListKept
<1>12. Recounts'
  <2>1. Passed(it)'
    <3>1. CASE handler[h].clients = <<>>
      BY <1>4, <1>11, <3>1 DEF Passed, FirstOf
    <3>2. CASE handler[h].clients # <<>>
      <4>1. 1 \in DOMAIN handler[h].clients
        BY <1>2, <3>2, ListFacts, EmptySeq
      <4> QED
        BY <1>4, <1>11, <3>2, <4>1 DEF Passed, FirstOf
    <3> QED
      BY <3>1, <3>2
  <2>2. ~s_bCyclicCallGuard'
    BY <1>1, <1>2 DEF Recounts
  <2> QED
    BY <1>10, <2>1, <2>2 DEF Recounts, Passed
<1>13. Balanced(h)' /\ Subscribed(h)'
  <2>1. \A t: LiveOf(h, t, Top.seen)' = {}
    BY <1>4, <1>10 DEF LiveOf
  <2>2. Cardinality({}) = 0
    BY FS_EmptySet
  <2> QED
    BY <1>6, <1>7, <1>11, <2>1, <2>2 DEF Balanced, Subscribed
<1>14. ASSUME NEW g \in Handlers, g # h, handler'[g].m_Registered
       PROVE  Balanced(g)' /\ Subscribed(g)'
  <2>1. handler[g].m_Registered /\ handler'[g].clients = handler[g].clients /\ Counters(g)' = Counters(g)
    BY <1>7, <1>14 DEF PortsKept, PortKept, ListsKept, ListKept, CountersKept, Counters
  <2> QED
    BY <1>1, <1>2, <1>3, <1>4, <1>5, <1>14, <2>1, OtherPorts DEF Elsewhere
<1>15. Subscriptions'
  BY <1>12, <1>13, <1>14 DEF Subscriptions
<1> QED
  BY <1>1, <1>2, <1>8, <1>9, <1>15, LivesStep, PortsStep, LocksStep, BoundsStep DEF FollowInv

(* An iteration ends.                                                      *)
LEMMA EndIteration ==
  ASSUME FollowInv, CollectionInv', EndForEach, ~Top.rebuild
  PROVE  FollowInv'
<1>1. /\ Running("ForEach") /\ calls # <<>> /\ Top.do = "ForEach" /\ Top.next = None
      /\ Call(<<>>)
      /\ handler' = IF handler[Top.handler].m_Registered THEN handler
                    ELSE [handler EXCEPT ![Top.handler] = NoHandler]
      /\ Elsewhere /\ s_bCyclicCallGuard' = s_bCyclicCallGuard
  BY DEF EndForEach, EndAndCount, Running, Top, collections, Elsewhere
<1>2. /\ CollectionInv /\ daemon # "failed" /\ Lives /\ Ports /\ Locks
      /\ Subscriptions /\ Bounded /\ Recounts /\ handler \in [Handlers -> PortType]
  BY <1>1, InProgress, TopIteration
<1>3. PICK h \in Handlers: h = Top.handler
  BY <1>1, <1>2, TopIteration
<1>4. Replaces({}, {})
  BY <1>1, <1>2, ReplacedShortly
<1>5. \A g \in Handlers: \/ handler'[g] = handler[g]
                         \/ g = h /\ ~handler[h].m_Registered /\ handler'[g] = NoHandler
  BY <1>1, <1>2, <1>3
<1>6. \A g \in Handlers: handler'[g].m_Registered = handler[g].m_Registered
  <2>1. NoHandler.m_Registered = FALSE
    BY DEF NoHandler
  <2>2. \A g \in Handlers: handler[g].m_Registered \in BOOLEAN
    BY <1>2 DEF PortType
  <2> QED
    BY <1>5, <2>1, <2>2
<1>7. SteadyLives /\ SteadyPorts /\ SteadyLocks
  <2>1. /\ \A x \in Clients: Member(x, h) => x \in Top.seen
        /\ ~handler[h].m_Registered => \A x \in Clients: ~Member(x, h)
    BY <1>1, <1>2, <1>3, EndedMembers
  <2>2. \A g \in Handlers: handler[g].m_Registered => PortKept(g)
    BY <1>5 DEF PortKept
  <2>3. \A x \in Clients, g \in Handlers: Member(x, g) /\ Listed(g, x) => Listed(g, x)'
    BY <1>5, <2>1 DEF Listed
  <2> QED
    BY <1>1, <1>2, <1>3, <1>4, <1>6, <2>1, <2>2, <2>3, SteadyCalls DEF Elsewhere
<1>8. SteadyBounds
  BY <1>5 DEF SteadyBounds, NoHandler, Counters
<1>9. Recounts'
  BY <1>1, <1>2, <1>4, ReturnsTo DEF Replaces, Recounts
<1>10. ASSUME NEW g \in Handlers, g # h, handler'[g].m_Registered
       PROVE  Balanced(g)' /\ Subscribed(g)'
  <2>1. handler[g].m_Registered /\ handler'[g].clients = handler[g].clients /\ Counters(g)' = Counters(g)
    BY <1>5, <1>10 DEF Counters
  <2> QED
    BY <1>1, <1>2, <1>3, <1>4, <1>10, <2>1, OtherPorts DEF Elsewhere
<1>11. ASSUME handler'[h].m_Registered
       PROVE  Balanced(h)' /\ Subscribed(h)'
  <2>1. handler[h].m_Registered /\ handler'[h] = handler[h] /\ Counters(h)' = Counters(h)
    BY <1>5, <1>6, <1>11 DEF Counters
  <2>2. Balanced(h) /\ Subscribed(h)
    BY <1>2, <2>1 DEF Subscriptions
  <2>3. ~Counting(h)'
    BY <1>1, <1>2, <1>4, ReturnsTo DEF Replaces, Counting, AtTop, Running
  <2>4. WillCount(h) => WillCount(h)'
    BY <1>1, <1>2, <1>4, KeptFacts DEF WillCount
  <2>5. Balanced(h)'
    <3>1. Counting(h) => Total(Counters(h)) = Len(handler[h].clients)
      BY <1>1, <1>2, <1>3, EndedFacts DEF Counting, Recounts
    <3>2. Total(Counters(h))' = Total(Counters(h))
      BY <2>1 DEF Total
    <3> QED
      BY <2>1, <2>2, <2>4, <3>1, <3>2 DEF Balanced
  <2>6. \A t: LiveOf(h, t, Clients)' = LiveOf(h, t, Clients)
    BY <1>1, <2>1 DEF LiveOf, Listed, Elsewhere
  <2>7. \A t: Counting(h) => LiveOf(h, t, Top.seen) = LiveOf(h, t, Clients)
    <3>1. Top.seen \subseteq Clients
      BY <1>1, <1>2, TopIteration, CallFacts
    <3>2. \A x \in Clients: Listed(h, x) /\ client[x].exists => x \in Top.seen
      BY <1>1, <1>2, <1>3, EndedFacts
    <3> QED
      BY <3>1, <3>2 DEF LiveOf
  <2>8. \A t \in BufferTypes: Counters(h)[t] >= Cardinality(LiveOf(h, t, Clients))
    BY <2>2, <2>7 DEF Subscribed
  <2>9. Subscribed(h)'
    BY <2>1, <2>3, <2>6, <2>8 DEF Subscribed
  <2> QED
    BY <2>5, <2>9
<1>12. Subscriptions'
  BY <1>9, <1>10, <1>11 DEF Subscriptions
<1> QED
  BY <1>1, <1>2, <1>7, <1>8, <1>12, LivesStep, PortsStep, LocksStep, BoundsStep DEF FollowInv

(* An iteration ends, or counts.                                           *)
LEMMA EndForEachFollows ==
  ASSUME FollowInv, CollectionInv', EndForEach
  PROVE  FollowInv'
BY CountAgain, EndIteration

(* The list of a port changes.                                             *)
LEMMA ListStep ==
  ASSUME CollectionInv, NEW h \in Handlers, NEW list \in Seq(Clients),
         handler' = [handler EXCEPT ![h].clients = list]
  PROVE  /\ PortsKept /\ handler'[h].clients = list /\ \A g \in Handlers: CountersKept(g)
         /\ \A g \in Handlers: g # h => ListKept(g)
<1>1. handler \in [Handlers -> PortType]
  BY DEF CollectionInv, ObjectTypes
<1>2. PICK old \in PortType: old = handler[h]
  BY <1>1
<1> DEFINE new == [old EXCEPT !.clients = list]
<1>3. /\ new.m_Registered = old.m_Registered /\ new.m_SerialPortName = old.m_SerialPortName
      /\ new.open = old.open /\ new.m_NbrOfLocks = old.m_NbrOfLocks
      /\ new.clients = list /\ new.m_BufferTypeSubscribers = old.m_BufferTypeSubscribers
  BY DEF PortType
<1>4. handler' = [handler EXCEPT ![h] = new]
  BY <1>2
<1> HIDE DEF new
<1>5. handler'[h] = new /\ \A g \in Handlers: g # h => handler'[g] = handler[g]
  BY <1>1, <1>4
<1> QED
  BY <1>2, <1>3, <1>5 DEF PortsKept, PortKept, ListKept, CountersKept

(* An outdated entry is passed, and removed unless an outer iteration is   *)
(* at work.                                                                *)
LEMMA PassOutdatedEffect ==
  ASSUME CollectionInv, PassOutdated, NEW h \in Handlers, h = Top.handler
  PROVE  /\ Running("ForEach") /\ calls # <<>> /\ Top.next \in Clients /\ ~client[Top.next].exists
         /\ Elsewhere /\ s_bCyclicCallGuard' = s_bCyclicCallGuard
         /\ PortsKept /\ \A g \in Handlers: CountersKept(g) /\ (g # h => ListKept(g))
         /\ s_bCyclicCallGuard => handler' = handler
         /\ \E o \in CallType: \E n \in DOMAIN handler[h].clients:
              /\ Replaces({o}, {o})
              /\ o.do = "ForEach" /\ o.handler = h /\ o.function = Top.function
              /\ o.rebuild <=> Top.rebuild \/ ~s_bCyclicCallGuard
              /\ s_bCyclicCallGuard => o.rebuild = Top.rebuild
              /\ Top.next = handler[h].clients[n]
              /\ o.next = IF n = Len(handler[h].clients) THEN None ELSE handler[h].clients[n + 1]
              /\ o.seen = Top.seen \cup {Top.next}
              /\ ~s_bCyclicCallGuard => handler'[h].clients = RemoveAt(handler[h].clients, n)
<1>1. /\ Running("ForEach") /\ calls # <<>> /\ Top.next \in Clients /\ ~client[Top.next].exists
      /\ Elsewhere /\ s_bCyclicCallGuard' = s_bCyclicCallGuard
      /\ Call(<<[Onwards EXCEPT !.rebuild = @ \/ ~s_bCyclicCallGuard]>>)
      /\ handler' = IF ~s_bCyclicCallGuard
                    THEN [handler EXCEPT ![h].clients = RemoveAt(@, Position(@, Top.next))] ELSE handler
  BY DEF PassOutdated, PassAndRemove, MeetsOutdated, Running, Top, collections, Elsewhere
<1>2. PICK n \in DOMAIN handler[h].clients, w \in CallType:
        /\ w = Onwards /\ w.do = "ForEach" /\ w.handler = h /\ w.function = Top.function /\ w.rebuild = Top.rebuild
        /\ Top.next = handler[h].clients[n]
        /\ w.next = IF n = Len(handler[h].clients) THEN None ELSE handler[h].clients[n + 1]
        /\ w.seen = Top.seen \cup {Top.next}
  BY <1>1, OnwardsFacts
<1>3. s_bCyclicCallGuard \in BOOLEAN
  BY DEF CollectionInv, ObjectTypes
<1>4. PICK o \in CallType: /\ o = [w EXCEPT !.rebuild = @ \/ ~s_bCyclicCallGuard]
                           /\ o.do = "ForEach" /\ o.handler = h /\ o.function = w.function
                           /\ o.next = w.next /\ o.seen = w.seen
                           /\ o.rebuild <=> w.rebuild \/ ~s_bCyclicCallGuard
                           /\ o.rebuild \in BOOLEAN /\ w.rebuild \in BOOLEAN
  <2>1. w \in [do: {"ForEach"}, handler: Handlers, function: Functions, next: Clients \cup {None},
               rebuild: BOOLEAN, seen: SUBSET Clients]
    BY <1>2 DEF CallType
  <2> DEFINE o == [w EXCEPT !.rebuild = @ \/ ~s_bCyclicCallGuard]
  <2>2. /\ o \in [do: {"ForEach"}, handler: Handlers, function: Functions, next: Clients \cup {None},
                  rebuild: BOOLEAN, seen: SUBSET Clients]
        /\ o.do = "ForEach" /\ o.handler = w.handler /\ o.function = w.function
        /\ o.next = w.next /\ o.seen = w.seen
        /\ o.rebuild <=> w.rebuild \/ ~s_bCyclicCallGuard
    BY <1>3, <2>1
  <2>3. o.rebuild \in BOOLEAN /\ w.rebuild \in BOOLEAN
    BY <2>1, <2>2
  <2> HIDE DEF o
  <2>4. o \in CallType
    BY <2>2 DEF CallType
  <2> QED
    BY <1>2, <2>2, <2>3, <2>4 DEF o
<1>5. Replaces({o}, {o})
  BY <1>1, <1>2, <1>4, ReplacedShortly
<1>6. CASE s_bCyclicCallGuard
  <2>1. handler' = handler
    BY <1>1, <1>6
  <2>2. o.rebuild = Top.rebuild
    BY <1>2, <1>4, <1>6
  <2>3. o.rebuild <=> Top.rebuild
    BY <2>2
  <2>4. PortsKept /\ ListsKept /\ \A g \in Handlers: CountersKept(g)
    BY <2>1, SamePorts
  <2> QED
    BY <1>1, <1>2, <1>4, <1>5, <1>6, <2>1, <2>2, <2>3, <2>4 DEF ListsKept
<1>7. CASE ~s_bCyclicCallGuard
  <2>1. Position(handler[h].clients, Top.next) = n
    BY <1>2, ListFacts, PositionFacts
  <2> DEFINE list == RemoveAt(handler[h].clients, n)
  <2>2. handler' = [handler EXCEPT ![h].clients = list]
    BY <1>1, <1>7, <2>1
  <2>3. list \in Seq(Clients)
    BY <1>2, ListFacts, RemoveFacts
  <2> HIDE DEF list
  <2>4. /\ PortsKept /\ handler'[h].clients = list /\ \A g \in Handlers: CountersKept(g)
        /\ \A g \in Handlers: g # h => ListKept(g)
    BY <2>2, <2>3, ListStep
  <2>5. o.rebuild <=> Top.rebuild \/ ~s_bCyclicCallGuard
    BY <1>4, <1>7
  <2> QED
    BY <1>1, <1>2, <1>4, <1>5, <1>7, <2>4, <2>5 DEF list
<1> QED
  BY <1>6, <1>7

(* The list after an entry has been removed.                               *)
LEMMA RemovedFacts ==
  ASSUME CollectionInv, NEW h \in Handlers, NEW n \in DOMAIN handler[h].clients,
         handler'[h].clients = RemoveAt(handler[h].clients, n)
  PROVE  /\ \A y: Listed(h, y)' => Listed(h, y)
         /\ \A y: Listed(h, y) /\ y # handler[h].clients[n] => Listed(h, y)'
         /\ Len(handler'[h].clients) = Len(handler[h].clients) - 1
         /\ n # Len(handler[h].clients) =>
              n \in DOMAIN handler'[h].clients /\ handler'[h].clients[n] = handler[h].clients[n + 1]
<1>1. PICK list \in Seq(Clients): list = handler[h].clients
  BY ListFacts
<1>2. PICK new \in Seq(Clients): new = handler'[h].clients
  BY <1>1, RemoveFacts
<1>3. /\ Len(new) = Len(list) - 1 /\ DOMAIN new = 1..(Len(list) - 1)
      /\ \A i \in 1..(Len(list) - 1): new[i] = IF i < n THEN list[i] ELSE list[i + 1]
      /\ DOMAIN list = 1..Len(list) /\ Len(list) \in Nat /\ n \in 1..Len(list)
  <2>1. n \in DOMAIN list /\ new = RemoveAt(list, n) /\ DOMAIN list = 1..Len(list) /\ Len(list) \in Nat
    BY <1>1, <1>2, ListFacts
  <2>2. /\ Len(RemoveAt(list, n)) = Len(list) - 1 /\ DOMAIN RemoveAt(list, n) = 1..(Len(list) - 1)
        /\ \A i \in 1..(Len(list) - 1): RemoveAt(list, n)[i] = IF i < n THEN list[i] ELSE list[i + 1]
    BY <2>1, RemoveFacts
  <2> QED
    BY <2>1, <2>2
<1>4. ASSUME NEW i \in DOMAIN new
      PROVE  \E j \in DOMAIN list: list[j] = new[i]
  <2>1. i \in DOMAIN list /\ i + 1 \in DOMAIN list
    BY <1>3, <1>4
  <2> QED
    BY <1>3, <1>4, <2>1
<1>5. ASSUME NEW i \in DOMAIN list, i # n
      PROVE  \E j \in DOMAIN new: list[i] = new[j]
  <2>1. CASE i < n
    BY <1>3, <1>5, <2>1
  <2>2. CASE ~(i < n)
    <3>1. i - 1 \in DOMAIN new /\ ~(i - 1 < n) /\ (i - 1) + 1 = i
      BY <1>3, <1>5, <2>2
    <3> QED
      BY <1>3, <3>1
  <2> QED
    BY <2>1, <2>2
<1>6. n # Len(list) => n \in DOMAIN new /\ new[n] = list[n + 1]
  BY <1>3
<1>7. \A y: /\ Listed(h, y) <=> \E i \in DOMAIN list: list[i] = y
            /\ Listed(h, y)' <=> \E i \in DOMAIN new: new[i] = y
  BY <1>1, <1>2 DEF Listed
<1>8. \A y: Listed(h, y)' => Listed(h, y)
  BY <1>4, <1>7
<1>9. \A y: Listed(h, y) /\ y # list[n] => Listed(h, y)'
  BY <1>5, <1>7
<1> QED
  BY <1>1, <1>2, <1>3, <1>6, <1>8, <1>9

(* An outdated entry is passed.                                            *)
LEMMA PassOutdatedFollows ==
  ASSUME FollowInv, CollectionInv', PassOutdated
  PROVE  FollowInv'
<1>1. Running("ForEach") /\ calls # <<>> /\ Top.do = "ForEach"
  BY DEF PassOutdated, PassAndRemove, MeetsOutdated, Running, Top
<1>2. /\ CollectionInv /\ daemon # "failed" /\ Lives /\ Ports /\ Locks
      /\ Subscriptions /\ Bounded /\ Recounts
  BY <1>1, InProgress
<1>3. PICK h \in Handlers: h = Top.handler
  BY <1>1, <1>2, TopIteration
<1>4. /\ ~client[Top.next].exists
      /\ Elsewhere /\ s_bCyclicCallGuard' = s_bCyclicCallGuard
      /\ PortsKept /\ \A g \in Handlers: CountersKept(g) /\ (g # h => ListKept(g))
      /\ s_bCyclicCallGuard => handler' = handler
      /\ Top.next \in Clients
  BY <1>2, <1>3, PassOutdatedEffect
<1>5. PICK o \in CallType, n \in DOMAIN handler[h].clients:
        /\ Replaces({o}, {o})
        /\ o.do = "ForEach" /\ o.handler = h /\ o.function = Top.function
        /\ o.rebuild <=> Top.rebuild \/ ~s_bCyclicCallGuard
        /\ s_bCyclicCallGuard => o.rebuild = Top.rebuild
        /\ Top.next = handler[h].clients[n]
        /\ o.next = IF n = Len(handler[h].clients) THEN None ELSE handler[h].clients[n + 1]
        /\ o.seen = Top.seen \cup {Top.next}
        /\ ~s_bCyclicCallGuard => handler'[h].clients = RemoveAt(handler[h].clients, n)
  BY <1>2, <1>3, PassOutdatedEffect
<1>6. o \in Pending' /\ Top' = o /\ calls' # <<>>
  BY <1>5 DEF Replaces, TopIs
<1>7. \A y \in Clients: Listed(h, y) /\ client[y].exists => Listed(h, y)'
  <2>1. CASE s_bCyclicCallGuard
    BY <1>4, <2>1 DEF Listed
  <2>2. CASE ~s_bCyclicCallGuard
    BY <1>2, <1>4, <1>5, <2>2, RemovedFacts
  <2> QED
    BY <2>1, <2>2
<1>8. \A y \in Clients: client[y].m_Registered => client[y].exists /\ y # Top.next
  BY <1>2, <1>4 DEF CollectionInv, Objects
<1>9. SteadyLives /\ SteadyPorts /\ SteadyLocks
  <2>1. \A x \in Clients, g \in Handlers:
           Stopping(Top) /\ Top.handler = g /\ Member(x, g) /\ x \notin Top.seen => AwaitsStop(x, g)'
    BY <1>3, <1>5, <1>6, <1>8 DEF Member, AwaitsStop, Stopping
  <2>2. \A x \in Clients, g \in Handlers: Member(x, g) /\ Listed(g, x) => Listed(g, x)'
    <3>1. \A x \in Clients, g \in Handlers: g # h /\ Listed(g, x) => Listed(g, x)'
      BY <1>4 DEF ListKept, Listed
    <3> QED
      BY <1>7, <1>8, <3>1 DEF Member
  <2>3. \A g \in Handlers: handler'[g].m_Registered = handler[g].m_Registered /\ PortKept(g)
    BY <1>4 DEF PortsKept, PortKept
  <2> QED
    BY <1>1, <1>2, <1>4, <1>5, <2>1, <2>2, <2>3, SteadyCalls DEF Elsewhere
<1>10. CASE s_bCyclicCallGuard
  <2>1. SteadyIterations
    <3>1. Top.function # "count"
      BY <1>1, <1>2, <1>10 DEF Recounts
    <3> QED
      BY <1>1, <1>2, <1>3, <1>4, <1>5, <1>10, <3>1, IterationGoesOn
  <2> QED
    BY <1>2, <1>4, <1>9, <1>10, <2>1, SameSteady, SteadyStep DEF Elsewhere
<1>11. CASE ~s_bCyclicCallGuard
  <2>1. /\ \A y: Listed(h, y)' => Listed(h, y)
        /\ Len(handler'[h].clients) = Len(handler[h].clients) - 1
        /\ n # Len(handler[h].clients) =>
              n \in DOMAIN handler'[h].clients /\ handler'[h].clients[n] = handler[h].clients[n + 1]
    BY <1>2, <1>5, <1>11, RemovedFacts
  <2>2. \A g \in Handlers: Counters(g)' = Counters(g) /\ handler'[g].m_NbrOfLocks = handler[g].m_NbrOfLocks
    BY <1>4 DEF CountersKept, Counters, PortsKept, PortKept
  <2>3. Total(Counters(h))' = Total(Counters(h))
    BY <2>2 DEF Total
  <2>4. SteadyBounds
    BY <2>2 DEF SteadyBounds
  <2>5. Recounts'
    <3>1. ASSUME o.function = "count"
          PROVE  Passed(o)'
      <4>1. Total(Counters(h)) = n - 1
        BY <1>1, <1>2, <1>3, <1>4, <1>5, <3>1, CountingAt
      <4>2. CASE n = Len(handler[h].clients)
        BY <1>5, <2>1, <2>3, <4>1, <4>2 DEF Passed
      <4>3. CASE n # Len(handler[h].clients)
        BY <1>5, <2>1, <2>3, <4>1, <4>3 DEF Passed
      <4> QED
        BY <4>2, <4>3
    <3> QED
      BY <1>4, <1>6, <1>11, <3>1 DEF Recounts, Passed
  <2>6. Counting(h) <=> Counting(h)'
    BY <1>1, <1>3, <1>5, <1>6 DEF Counting, AtTop, Running, Top
  <2>7. ASSUME handler'[h].m_Registered
        PROVE  Balanced(h)' /\ Subscribed(h)'
    <3>1. handler[h].m_Registered
      BY <1>4, <2>7 DEF PortsKept, PortKept
    <3>2. WillCount(h)'
      BY <1>5, <1>6, <1>11 DEF WillCount
    <3>3. PICK S \in SUBSET Clients: S = IF Counting(h) THEN Top.seen ELSE Clients
      BY <1>1, <1>2, TopIteration, CallFacts
    <3>4. PICK T \in SUBSET Clients: T = IF Counting(h)' THEN Top'.seen ELSE Clients
      BY <1>6, CallFacts, <1>5
    <3>5. \A y \in T: y = Top.next \/ y \in S
      BY <1>5, <1>6, <2>6, <3>3, <3>4
    <3>6. ASSUME NEW t \in BufferTypes
          PROVE  Counters(h)'[t] >= Cardinality(LiveOf(h, t, T)')
      <4> DEFINE A == LiveOf(h, t, S)
                 B == LiveOf(h, t, T)'
      <4>1. B \subseteq A /\ A \in SUBSET Clients
        BY <1>4, <2>1, <3>5 DEF LiveOf, Elsewhere
      <4>2. Counters(h)[t] >= Cardinality(A)
        BY <1>2, <3>1, <3>3 DEF Subscriptions, Subscribed
      <4>3. Counters(h)[t] \in Nat
        BY <1>2, PortList
      <4> HIDE DEF A, B
      <4>4. Cardinality(B) <= Cardinality(A) /\ Cardinality(A) \in Nat /\ Cardinality(B) \in Nat
        BY <4>1, FewerLive
      <4> QED
        BY <2>2, <4>2, <4>3, <4>4 DEF B
    <3>7. \A t: LiveOf(h, t, IF Counting(h) THEN Top.seen ELSE Clients)' = LiveOf(h, t, T)'
      BY <3>4 DEF LiveOf
    <3> QED
      BY <3>2, <3>6, <3>7 DEF Balanced, Subscribed
  <2>8. ASSUME NEW g \in Handlers, g # h, handler'[g].m_Registered
        PROVE  Balanced(g)' /\ Subscribed(g)'
    <3>1. handler[g].m_Registered /\ handler'[g].clients = handler[g].clients /\ Counters(g)' = Counters(g)
      BY <1>4, <2>2, <2>8 DEF PortsKept, PortKept, ListKept
    <3> QED
      BY <1>1, <1>2, <1>3, <1>4, <1>5, <2>8, <3>1, OtherPorts DEF Elsewhere
  <2>9. Subscriptions'
    BY <2>5, <2>7, <2>8 DEF Subscriptions
  <2> QED
    BY <1>2, <1>4, <1>9, <2>4, <2>9, LivesStep, PortsStep, LocksStep, BoundsStep DEF FollowInv, Elsewhere
<1> QED
  BY <1>10, <1>11

-----------------------------------------------------------------------------
(* The other operations of a port.                                         *)

(* A port changes, but not its list and its subscriptions.                 *)
LEMMA PortReplaced ==
  ASSUME CollectionInv, NEW h \in Handlers, NEW new, handler' = [handler EXCEPT ![h] = new],
         new.m_SerialPortName = handler[h].m_SerialPortName, new.clients = handler[h].clients,
         new.m_BufferTypeSubscribers = handler[h].m_BufferTypeSubscribers
  PROVE  /\ handler'[h] = new /\ \A g \in Handlers: g # h => handler'[g] = handler[g]
         /\ \A g \in Handlers: /\ handler'[g].m_SerialPortName = handler[g].m_SerialPortName
                               /\ handler'[g].clients = handler[g].clients
                               /\ Counters(g)' = Counters(g)
<1>1. handler \in [Handlers -> PortType]
  BY DEF CollectionInv, ObjectTypes
<1>2. handler'[h] = new /\ \A g \in Handlers: g # h => handler'[g] = handler[g]
  BY <1>1
<1> QED
  BY <1>2 DEF Counters

(* The lists and the subscriptions stay as they are.                       *)
LEMMA SteadySubscriptions ==
  ASSUME SameLives, \A x \in Clients: client'[x].m_eBufferType = client[x].m_eBufferType,
         \A h \in Handlers: /\ handler'[h].m_Registered => handler[h].m_Registered
                            /\ handler'[h].clients = handler[h].clients
                            /\ Counters(h)' = Counters(h)
  PROVE  SteadyCounts
BY DEF SteadyCounts, SameLives

(* A port is opened when nobody locks it.                                  *)
LEMMA OpenedFollows ==
  ASSUME FollowInv, CollectionInv', calls # <<>>, Top.do = "Open",
         handler' = [handler EXCEPT ![Top.handler].open = TRUE],
         Call(DeliverSent(Top.handler) \o ForHandler("Propagate", Top.handler)),
         Elsewhere
  PROVE  FollowInv'
<1>1. CollectionInv /\ daemon # "failed" /\ Locks
  BY InProgress
<1>2. PICK h \in Handlers: h = Top.handler
  BY <1>1, UnderPort
<1>3. PICK old \in PortType: old = handler[h]
  BY <1>1 DEF CollectionInv, ObjectTypes
<1> DEFINE new == [old EXCEPT !.open = TRUE]
<1>4. /\ new.m_Registered = old.m_Registered /\ new.m_SerialPortName = old.m_SerialPortName
      /\ new.open = TRUE /\ new.m_NbrOfLocks = old.m_NbrOfLocks
      /\ new.clients = old.clients /\ new.m_BufferTypeSubscribers = old.m_BufferTypeSubscribers
  BY DEF PortType
<1>5. handler' = [handler EXCEPT ![h] = new]
  BY <1>2, <1>3
<1> HIDE DEF new
<1>6. /\ handler'[h] = new /\ \A g \in Handlers: g # h => handler'[g] = handler[g]
      /\ \A g \in Handlers: /\ handler'[g].m_SerialPortName = handler[g].m_SerialPortName
                            /\ handler'[g].clients = handler[g].clients
                            /\ Counters(g)' = Counters(g)
  BY <1>1, <1>3, <1>4, <1>5, PortReplaced
<1>7. \A g \in Handlers: /\ handler'[g].m_Registered = handler[g].m_Registered
                         /\ handler'[g].m_NbrOfLocks = handler[g].m_NbrOfLocks
                         /\ g # h => handler'[g].open = handler[g].open
  BY <1>3, <1>4, <1>6
<1> DEFINE a == Delivery(h, "RAW")
           b == Delivery(h, "DISSECTED")
           c == OnPort("Propagate", h)
<1>8. a \in CallType /\ b \in CallType /\ c \in CallType
  BY NewCalls DEF BufferTypes
<1>9. a.do = "Deliver" /\ b.do = "Deliver" /\ c.do = "Propagate"
  BY DEF Delivery, OnPort
<1>10. Call((<<a>> \o <<b>>) \o <<c>>)
  BY <1>2 DEF DeliverSent, Deliver, ForHandler, Delivery, OnPort
<1> HIDE DEF a, b, c
<1>11. Call(<<a>> \o <<b, c>>)
  <2>1. (<<a>> \o <<b>>) \o <<c>> = <<a>> \o (<<b>> \o <<c>>)
    BY <1>8, OneCall, Associative
  <2>2. <<b, c>> = <<b>> \o <<c>>
    BY PairOfCalls
  <2> QED
    BY <1>10, <2>1, <2>2
<1>12. Replaces({a, b, c}, {a})
  BY <1>1, <1>8, <1>11, ReplacedByThree
<1>13. SameLives /\ \A g: Holders(g)' = Holders(g)
  BY SameClients DEF Elsewhere
<1>14. SteadyLives /\ SteadyPorts
  BY <1>1, <1>6, <1>7, <1>9, <1>12, <1>13, SteadyLivesAndPorts DEF Elsewhere, Stopping, Listed
<1>15. SteadyIterations
  BY <1>1, <1>9, <1>12, NoIteration
<1>16. SteadyCounts
  BY <1>6, <1>7, <1>13, SteadySubscriptions DEF Elsewhere
<1>17. SteadyBounds
  BY <1>6, <1>7 DEF SteadyBounds
<1>18. Locks'
  <2>1. \A g: ~AtTop("Open", g)' /\ ~AtTop("Resume", g)' /\ ~AtTop("Resume", g)
    BY <1>9, <1>12 DEF Replaces, TopIs, AtTop, Running, Top
  <2>2. AtTop("Open", h) /\ \A g: g # h => ~AtTop("Open", g)
    BY <1>2 DEF AtTop, Running, Top
  <2>3. LocksCounted'
    BY <1>1, <1>7, <1>13, <2>1 DEF Locks, LocksCounted
  <2>4. handler[h].m_Registered
    BY <1>1, <1>2, Innermost DEF Justified
  <2>5. handler[h].m_NbrOfLocks = 0 /\ handler'[h].open
    BY <1>1, <1>4, <1>6, <2>2, <2>4 DEF Locks, OpenUnlessLocked
  <2>6. OpenUnlessLocked'
    BY <1>1, <1>7, <2>1, <2>2, <2>5 DEF Locks, OpenUnlessLocked
  <2> QED
    BY <2>3, <2>6 DEF Locks
<1>19. daemon' = daemon
  BY DEF Elsewhere
<1> QED
  BY <1>1, <1>14, <1>15, <1>16, <1>17, <1>18, LivesStep, PortsStep, BoundsStep, SubscriptionsStep DEF FollowInv

(* A port is given up, and is about to stop its clients.                   *)
LEMMA UnregisterFollows ==
  ASSUME FollowInv, CollectionInv', calls # <<>>, Top.do \in {"Open", "Stop"},
         handler[Top.handler].m_Registered,
         handler' = [handler EXCEPT ![Top.handler].m_Registered = FALSE, ![Top.handler].open = FALSE],
         m_SerialPortHandlerMap' = Deregistered(Top.handler),
         Call(ForEach(Top.handler, "stop")),
         UNCHANGED <<client, m_HdlcdServerHandlerList, daemon>>
  PROVE  FollowInv'
<1>1. CollectionInv /\ daemon # "failed" /\ Lives /\ Ports /\ Locks
  BY InProgress
<1>2. PICK h \in Handlers: h = Top.handler
  BY <1>1, UnderPort
<1>3. PICK old \in PortType: old = handler[h]
  BY <1>1 DEF CollectionInv, ObjectTypes
<1> DEFINE new == [old EXCEPT !.m_Registered = FALSE, !.open = FALSE]
<1>4. /\ new.m_Registered = FALSE /\ new.m_SerialPortName = old.m_SerialPortName
      /\ new.open = FALSE /\ new.m_NbrOfLocks = old.m_NbrOfLocks
      /\ new.clients = old.clients /\ new.m_BufferTypeSubscribers = old.m_BufferTypeSubscribers
  BY DEF PortType
<1>5. handler' = [handler EXCEPT ![h] = new]
  BY <1>2, <1>3
<1> HIDE DEF new
<1>6. /\ handler'[h] = new /\ \A g \in Handlers: g # h => handler'[g] = handler[g]
      /\ \A g \in Handlers: /\ handler'[g].m_SerialPortName = handler[g].m_SerialPortName
                            /\ handler'[g].clients = handler[g].clients
                            /\ Counters(g)' = Counters(g)
  BY <1>1, <1>3, <1>4, <1>5, PortReplaced
<1>7. \A g \in Handlers: /\ handler'[g].m_NbrOfLocks = handler[g].m_NbrOfLocks
                         /\ handler'[g].m_Registered => handler[g].m_Registered /\ g # h
                         /\ g # h => PortKept(g)
  BY <1>3, <1>4, <1>6 DEF PortKept
<1>8. PICK it \in CallType:
        /\ ForEach(h, "stop") = <<it>>
        /\ it.do = "ForEach" /\ it.handler = h /\ it.function = "stop"
        /\ Complete(it)
        /\ it.seen = {} /\ it.rebuild = FALSE
  <2>1. "stop" \in Functions
    BY DEF Functions
  <2>2. PICK it \in CallType: IterationOf(it, h, "stop")
    BY <1>1, <2>1, BeginningIteration
  <2> QED
    BY <2>2 DEF IterationOf
<1>9. Replaces({it}, {it})
  BY <1>1, <1>2, <1>8, ReplacedShortly
<1>10. \A c \in Pending: c = Top \/ c \in Pending'
  BY <1>1, <1>9, KeptFacts
<1>11. \A c \in Pending': c = it \/ c \in Pending
  BY <1>1, <1>9, KeptFacts
<1>12. SameLives /\ \A g: Holders(g)' = Holders(g)
  BY SameClients
<1>13. SteadyLives
  <2>1. ASSUME NEW x \in Clients, NEW g \in Handlers, handler[g].m_Registered \/ AwaitsStop(x, g)
        PROVE  handler'[g].m_Registered \/ AwaitsStop(x, g)'
    <3>1. CASE g = h
      <4>1. it \in Pending'
        BY <1>9 DEF Replaces
      <4>2. it.do = "ForEach" /\ it.function = "stop" /\ it.handler = g /\ x \notin it.seen
        BY <1>8, <3>1
      <4> QED
        BY <4>1, <4>2 DEF AwaitsStop, Stopping
    <3>2. CASE g # h /\ handler[g].m_Registered
      BY <1>7, <3>2 DEF PortKept
    <3>3. CASE AwaitsStop(x, g)
      <4>1. PICK c \in Pending: \/ c.do = "StopClient" /\ c.client = x
                                \/ Stopping(c) /\ c.handler = g /\ x \notin c.seen
        BY <3>3 DEF AwaitsStop
      <4>2. c \in Pending'
        BY <1>10, <4>1 DEF Stopping
      <4> QED
        BY <4>1, <4>2 DEF AwaitsStop, Stopping
    <3> QED
      BY <2>1, <3>1, <3>2, <3>3
  <2>2. \A c \in Pending': c.do \in {"Attach", "DestroyClient"} => c \in Pending
    BY <1>8, <1>11
  <2>3. \A c \in Pending: c.do = "ReleaseStopper" => c \in Pending'
    BY <1>10
  <2>4. \A x \in Clients, g \in Handlers: Listed(g, x) => Listed(g, x)'
    BY <1>6 DEF Listed
  <2> QED
    BY <1>12, <2>1, <2>2, <2>3, <2>4 DEF SteadyLives
<1>14. Ports'
  <2>1. \A g: g # h => ~AtTop("Stop", g)
    BY <1>2 DEF AtTop
  <2>2. \A x, g: Waits(x, g) => Waits(x, g)'
    BY <1>10 DEF Waits
  <2>3. Wanted'
    <3> SUFFICES ASSUME NEW g \in Handlers, handler'[g].m_Registered
                 PROVE  \E x \in Clients: Stopper(x)' = g \/ Waits(x, g)'
      BY DEF Wanted
    <3>1. handler[g].m_Registered /\ g # h
      BY <1>7
    <3>2. PICK x \in Clients: Stopper(x) = g \/ Waits(x, g)
      BY <1>1, <2>1, <3>1 DEF Ports, Wanted
    <3> QED
      BY <1>12, <2>2, <3>2 DEF SameLives
  <2>4. \A n \in Names, g \in Handlers: m_SerialPortHandlerMap'[n] = g <=> m_SerialPortHandlerMap[n] = g /\ g # h
    BY <1>2, ConstantsAssumption DEF Deregistered
  <2>5. ASSUME NEW n \in Names, NEW g \in Handlers, m_SerialPortHandlerMap'[n] = g
        PROVE  handler'[g].m_Registered /\ handler'[g].m_SerialPortName = n
    <3>1. m_SerialPortHandlerMap[n] = g /\ g # h
      BY <2>4, <2>5
    <3>2. handler[g].m_Registered /\ handler[g].m_SerialPortName = n
      BY <1>1, <3>1 DEF Ports, Mapped
    <3> QED
      BY <1>6, <3>1, <3>2
  <2>6. ASSUME NEW g \in Handlers, handler'[g].m_Registered
        PROVE  /\ handler'[g].m_SerialPortName \in Names
               /\ m_SerialPortHandlerMap'[handler'[g].m_SerialPortName] = g
    <3>1. /\ handler[g].m_SerialPortName \in Names /\ g # h
          /\ m_SerialPortHandlerMap[handler[g].m_SerialPortName] = g
      BY <1>1, <1>7, <2>1, <2>6 DEF Ports, Mapped
    <3> QED
      BY <1>6, <2>4, <3>1
  <2> QED
    BY <2>3, <2>5, <2>6 DEF Ports, Mapped
<1>15. SteadyLocks
  <2>1. \A g: ~AtTop("Open", g)' /\ ~AtTop("Resume", g)'
    BY <1>8, <1>9 DEF Replaces, TopIs
  <2>2. \A g: g # h => ~AtTop("Open", g) /\ ~AtTop("Resume", g)
    BY <1>2 DEF AtTop
  <2> QED
    BY <1>7, <1>12, <2>1, <2>2 DEF SteadyLocks, PortKept
<1>16. SteadyIterations
  BY <1>1, <1>8, <1>9, NoIteration
<1>17. SteadyCounts
  BY <1>6, <1>7, <1>12, SteadySubscriptions
<1>18. SteadyBounds
  BY <1>6, <1>7 DEF SteadyBounds
<1> QED
  BY <1>1, <1>13, <1>14, <1>15, <1>16, <1>17, <1>18, LivesStep, LocksStep, BoundsStep, SubscriptionsStep DEF FollowInv

(* A port is opened, or given up.                                          *)
LEMMA OpenSerialPortFollows ==
  ASSUME FollowInv, CollectionInv', OpenSerialPort
  PROVE  FollowInv'
<1>1. calls # <<>> /\ Top.do = "Open" /\ UNCHANGED <<client, m_HdlcdServerHandlerList, daemon>>
  BY DEF OpenSerialPort, Running, Top, Keep
<1>2. handler[Top.handler].m_Registered
  BY <1>1, InProgress, Innermost DEF Justified
<1>3. CASE /\ handler' = [handler EXCEPT ![Top.handler].open = TRUE]
           /\ Call(DeliverSent(Top.handler) \o ForHandler("Propagate", Top.handler))
           /\ UNCHANGED m_SerialPortHandlerMap
  BY <1>1, <1>3, OpenedFollows DEF Elsewhere
<1>4. CASE /\ handler' = [handler EXCEPT ![Top.handler].m_Registered = FALSE, ![Top.handler].open = FALSE]
           /\ m_SerialPortHandlerMap' = Deregistered(Top.handler)
           /\ Call(ForEach(Top.handler, "stop"))
  BY <1>1, <1>2, <1>4, UnregisterFollows
<1> QED
  BY <1>3, <1>4 DEF OpenSerialPort, Top

\* The counters of the other ports, and all subscriptions, stay as they are.
SteadyBoundsBut(h) ==
  \A g \in Handlers: /\ g # h => handler'[g].m_NbrOfLocks = handler[g].m_NbrOfLocks
                     /\ Counters(g)' = Counters(g)

(* The lock counter of one port changes within its bounds.                 *)
LEMMA BoundsBut ==
  ASSUME Bounded, NEW h \in Handlers, SteadyBoundsBut(h),
         handler'[h].m_NbrOfLocks \in 0..Cardinality(Clients)
  PROVE  Bounded'
<1> SUFFICES ASSUME NEW g \in Handlers
             PROVE  /\ handler'[g].m_NbrOfLocks \in 0..Cardinality(Clients)
                    /\ Total(Counters(g)') <= Cardinality(Clients)
  BY DEF Bounded, Total
<1>1. Total(Counters(g)) <= Cardinality(Clients) /\ handler[g].m_NbrOfLocks \in 0..Cardinality(Clients)
  BY DEF Bounded
<1> QED
  BY <1>1 DEF SteadyBoundsBut, Total

(* A port is stopped, which ends the daemon when it is not open.           *)
LEMMA StopHandlerFollows ==
  ASSUME FollowInv, CollectionInv', StopHandler
  PROVE  FollowInv'
<1>1. calls # <<>> /\ Top.do = "Stop" /\ UNCHANGED <<client, m_HdlcdServerHandlerList>>
  BY DEF StopHandler, Running, Top, Keep
<1>2. CollectionInv /\ Bounded /\ Subscriptions
  BY <1>1, InProgress
<1>3. CASE ~handler[Top.handler].m_Registered /\ Call(<<>>) /\ UNCHANGED <<handler, m_SerialPortHandlerMap, daemon>>
  <2>1. Replaces({}, {})
    BY <1>1, <1>2, <1>3, ReplacedShortly
  <2> QED
    BY <1>1, <1>3, <2>1, QuietFollows DEF Elsewhere
<1>4. CASE /\ handler[Top.handler].m_Registered
           /\ handler' = [handler EXCEPT ![Top.handler].m_Registered = FALSE, ![Top.handler].open = FALSE]
           /\ m_SerialPortHandlerMap' = Deregistered(Top.handler)
           /\ Call(ForEach(Top.handler, "stop"))
           /\ UNCHANGED daemon
  BY <1>1, <1>4, UnregisterFollows
<1>5. CASE /\ handler[Top.handler].m_Registered
           /\ handler' = [handler EXCEPT ![Top.handler].m_Registered = FALSE, ![Top.handler].open = FALSE]
           /\ calls' = <<>> /\ daemon' = "failed" /\ UNCHANGED m_SerialPortHandlerMap
  <2>1. PICK h \in Handlers: h = Top.handler
    BY <1>1, <1>2, UnderPort
  <2>2. PICK old \in PortType: old = handler[h]
    BY <1>2 DEF CollectionInv, ObjectTypes
  <2> DEFINE new == [old EXCEPT !.m_Registered = FALSE, !.open = FALSE]
  <2>3. /\ new.m_Registered = FALSE /\ new.m_SerialPortName = old.m_SerialPortName
        /\ new.m_NbrOfLocks = old.m_NbrOfLocks
        /\ new.clients = old.clients /\ new.m_BufferTypeSubscribers = old.m_BufferTypeSubscribers
    BY DEF PortType
  <2>4. handler' = [handler EXCEPT ![h] = new]
    BY <1>5, <2>1, <2>2
  <2> HIDE DEF new
  <2>5. /\ handler'[h] = new /\ \A g \in Handlers: g # h => handler'[g] = handler[g]
        /\ \A g \in Handlers: /\ handler'[g].clients = handler[g].clients
                              /\ Counters(g)' = Counters(g)
    BY <1>2, <2>2, <2>3, <2>4, PortReplaced
  <2>6. SteadyCounts
    BY <1>1, <2>3, <2>5, SteadySubscriptions, SameClients
  <2>7. \A g: ~WillCount(g)
    <3> SUFFICES ASSUME NEW c \in Pending, c.do = "ForEach"
                 PROVE  FALSE
      BY DEF WillCount
    <3>1. c \in ToSet(Rest)
      BY <1>1, <1>2, Innermost
    <3>2. Stopping(c) \/ Querying(c)
      BY <1>1, <1>2, <3>1, UnderneathFacts
    <3> QED
      BY <1>1, <1>2, <1>5, <3>1, <3>2, UnderPort DEF AboutPort
  <2>8. SteadyIterations
    BY <1>1, <1>5, <2>7 DEF SteadyIterations, Running, Top
  <2>9. SteadyBounds
    BY <2>2, <2>3, <2>5 DEF SteadyBounds
  <2> QED
    BY <1>2, <1>5, <2>6, <2>8, <2>9, BoundsStep, SubscriptionsStep DEF FollowInv
<1> QED
  BY <1>3, <1>4, <1>5 DEF StopHandler, Top

(* A lock is given back, and the last one opens the port.                  *)
LEMMA ResumedFollows ==
  ASSUME FollowInv, CollectionInv', calls # <<>>, Top.do = "Resume",
         handler[Top.handler].m_Registered,
         handler' = [handler EXCEPT ![Top.handler].m_NbrOfLocks = @ - 1],
         Call(ForHandler(IF handler'[Top.handler].m_NbrOfLocks = 0 THEN "Open" ELSE "Propagate", Top.handler)),
         Elsewhere
  PROVE  FollowInv'
<1>1. CollectionInv /\ daemon # "failed" /\ Locks /\ Bounded
  BY InProgress
<1>2. PICK h \in Handlers: h = Top.handler
  BY <1>1, UnderPort
<1>3. PICK old \in PortType: old = handler[h]
  BY <1>1 DEF CollectionInv, ObjectTypes
<1> DEFINE new == [old EXCEPT !.m_NbrOfLocks = @ - 1]
<1>4. /\ new.m_Registered = old.m_Registered /\ new.m_SerialPortName = old.m_SerialPortName
      /\ new.open = old.open /\ new.m_NbrOfLocks = old.m_NbrOfLocks - 1
      /\ new.clients = old.clients /\ new.m_BufferTypeSubscribers = old.m_BufferTypeSubscribers
  BY DEF PortType
<1>5. handler' = [handler EXCEPT ![h] = new]
  BY <1>2, <1>3
<1> HIDE DEF new
<1>6. /\ handler'[h] = new /\ \A g \in Handlers: g # h => handler'[g] = handler[g]
      /\ \A g \in Handlers: /\ handler'[g].m_SerialPortName = handler[g].m_SerialPortName
                            /\ handler'[g].clients = handler[g].clients
                            /\ Counters(g)' = Counters(g)
  BY <1>1, <1>3, <1>4, <1>5, PortReplaced
<1>7. \A g \in Handlers: /\ handler'[g].m_Registered = handler[g].m_Registered
                         /\ handler'[g].open = handler[g].open
                         /\ g # h => handler'[g].m_NbrOfLocks = handler[g].m_NbrOfLocks
  BY <1>3, <1>4, <1>6
<1>8. PICK locks: locks = handler'[h].m_NbrOfLocks
  OBVIOUS
<1>9. PICK do \in {"Open", "Propagate"}: do = IF locks = 0 THEN "Open" ELSE "Propagate"
  OBVIOUS
<1>10. PICK a \in CallType: a = OnPort(do, h) /\ a.do = do /\ a.handler = h
  <2>1. OnPort(do, h) \in CallType
    BY NewCalls
  <2> QED
    BY <2>1 DEF OnPort
<1>11. Call(<<a>>)
  BY <1>2, <1>8, <1>9, <1>10 DEF ForHandler, OnPort
<1>12. Replaces({a}, {a})
  BY <1>1, <1>11, ReplacedShortly
<1>13. SameLives /\ \A g: Holders(g)' = Holders(g)
  BY SameClients DEF Elsewhere
<1>14. SteadyLives /\ SteadyPorts
  BY <1>1, <1>6, <1>7, <1>10, <1>12, <1>13, SteadyLivesAndPorts DEF Elsewhere, Stopping, Listed
<1>15. SteadyIterations
  BY <1>1, <1>10, <1>12, NoIteration
<1>16. SteadyCounts
  BY <1>6, <1>7, <1>13, SteadySubscriptions DEF Elsewhere
<1>17. AtTop("Resume", h) /\ \A g: ~AtTop("Open", g) /\ (g # h => ~AtTop("Resume", g))
  BY <1>2 DEF AtTop, Running, Top
<1>18. \A g: ~AtTop("Resume", g)' /\ (AtTop("Open", g)' <=> g = h /\ locks = 0)
  BY <1>9, <1>10, <1>12 DEF Replaces, TopIs
<1>19. PICK held \in Nat: held = Cardinality(Holders(h)) /\ held <= Cardinality(Clients)
  BY ClientsFacts DEF Holders
<1>20. handler[h].m_NbrOfLocks = held + 1 /\ locks = held /\ ~handler[h].open
  <2>1. handler[h].m_NbrOfLocks = held + 1
    BY <1>1, <1>2, <1>17, <1>19 DEF Locks, LocksCounted
  <2>2. locks = held
    BY <1>3, <1>4, <1>6, <1>8, <1>19, <2>1
  <2>3. ~handler[h].open
    BY <1>1, <1>2, <1>19, <2>1 DEF Locks, OpenUnlessLocked
  <2> QED
    BY <2>1, <2>2, <2>3
<1>21. Bounded'
  <2>1. SteadyBoundsBut(h)
    BY <1>6, <1>7 DEF SteadyBoundsBut
  <2>2. handler'[h].m_NbrOfLocks \in 0..Cardinality(Clients)
    BY <1>8, <1>19, <1>20, ClientsFacts
  <2> QED
    BY <1>1, <2>1, <2>2, BoundsBut
<1>22. Locks'
  <2>1. LocksCounted'
    <3> SUFFICES ASSUME NEW g \in Handlers, handler'[g].m_Registered
                 PROVE  handler'[g].m_NbrOfLocks = Cardinality(Holders(g)') + 0
      BY <1>18 DEF LocksCounted
    <3>1. CASE g = h
      BY <1>8, <1>13, <1>19, <1>20, <3>1
    <3>2. CASE g # h
      <4>1. handler[g].m_NbrOfLocks = Cardinality(Holders(g)) + 0
        BY <1>1, <1>7, <1>17, <3>2 DEF Locks, LocksCounted
      <4> QED
        BY <1>7, <1>13, <3>2, <4>1
    <3> QED
      BY <3>1, <3>2
  <2>2. OpenUnlessLocked'
    <3> SUFFICES ASSUME NEW g \in Handlers, handler'[g].m_Registered
                 PROVE  /\ handler'[g].open <=> handler'[g].m_NbrOfLocks = 0 /\ ~AtTop("Open", g)'
                        /\ AtTop("Open", g)' => handler'[g].m_NbrOfLocks = 0
      BY DEF OpenUnlessLocked
    <3>1. CASE g = h
      BY <1>7, <1>8, <1>18, <1>20, <3>1
    <3>2. CASE g # h
      BY <1>1, <1>7, <1>17, <1>18, <3>2 DEF Locks, OpenUnlessLocked
    <3> QED
      BY <3>1, <3>2
  <2> QED
    BY <2>1, <2>2 DEF Locks
<1>23. daemon' = daemon
  BY DEF Elsewhere
<1> QED
  BY <1>1, <1>14, <1>15, <1>16, <1>21, <1>22, LivesStep, PortsStep, SubscriptionsStep, InProgress DEF FollowInv

(* A lock is given back, of a port that is registered or not.              *)
LEMMA ResumeSerialPortFollows ==
  ASSUME FollowInv, CollectionInv', ResumeSerialPort
  PROVE  FollowInv'
<1>1. calls # <<>> /\ Top.do = "Resume" /\ Elsewhere
  BY DEF ResumeSerialPort, Running, Top, Keep, Elsewhere
<1>2. CASE ~handler[Top.handler].m_Registered /\ Call(<<>>) /\ UNCHANGED handler
  <2>1. Replaces({}, {})
    BY <1>1, <1>2, InProgress, ReplacedShortly
  <2> QED
    BY <1>1, <1>2, <2>1, QuietFollows
<1>3. CASE /\ handler[Top.handler].m_Registered
           /\ handler' = [handler EXCEPT ![Top.handler].m_NbrOfLocks = @ - 1]
           /\ Call(ForHandler(IF handler'[Top.handler].m_NbrOfLocks = 0 THEN "Open" ELSE "Propagate", Top.handler))
  BY <1>1, <1>3, ResumedFollows
<1> QED
  BY <1>2, <1>3 DEF ResumeSerialPort, Top

-----------------------------------------------------------------------------
(* The operations of a client.                                             *)

(* One client changes.                                                     *)
LEMMA ClientReplaced ==
  ASSUME CollectionInv, NEW x \in Clients, NEW new, client' = [client EXCEPT ![x] = new]
  PROVE  /\ client'[x] = new /\ Stopper(x)' = new.m_SerialPortHandlerStopper
         /\ \A y \in Clients: y # x => client'[y] = client[y] /\ Stopper(y)' = Stopper(y)
BY DEF CollectionInv, ObjectTypes, Stopper

(* Clients that stay registered stay members of their ports.               *)
LEMMA MembersLeft ==
  ASSUME Members, handler' = handler,
         \A x \in Clients: client'[x].m_Registered => client[x].m_Registered /\ Stopper(x)' = Stopper(x),
         \A c \in Pending': c.do = "Attach" => c \in Pending,
         \A c \in Pending: \/ c \in Pending' \/ ~(c.do = "StopClient" \/ Stopping(c))
                           \/ (c.do = "StopClient" /\ ~client'[c.client].m_Registered)
  PROVE  Members'
<1> SUFFICES ASSUME NEW x \in Clients, NEW h \in Handlers, Member(x, h)'
             PROVE  Listed(h, x)' /\ (handler'[h].m_Registered \/ AwaitsStop(x, h)')
  BY DEF Members
<1>1. client'[x].m_Registered /\ Member(x, h)
  <2>1. Waits(x, h)' => Waits(x, h)
    BY DEF Waits
  <2> QED
    BY <2>1 DEF Member
<1>2. Listed(h, x) /\ (handler[h].m_Registered \/ AwaitsStop(x, h))
  BY <1>1 DEF Members
<1>3. AwaitsStop(x, h) => AwaitsStop(x, h)'
  <2> SUFFICES ASSUME NEW c \in Pending, \/ c.do = "StopClient" /\ c.client = x
                                         \/ Stopping(c) /\ c.handler = h /\ x \notin c.seen
               PROVE  AwaitsStop(x, h)'
    BY DEF AwaitsStop
  <2>1. c \in Pending'
    BY <1>1 DEF Stopping
  <2> QED
    BY <2>1 DEF AwaitsStop, Stopping
<1> QED
  BY <1>2, <1>3 DEF Listed

(* A client is stopped, and destroyed unless it is still in use.           *)
LEMMA StopClientFollows ==
  ASSUME FollowInv, CollectionInv', StopClient
  PROVE  FollowInv'
<1>1. /\ calls # <<>> /\ Top.do = "StopClient"
      /\ client' = [client EXCEPT ![Top.client].m_Registered = FALSE]
      /\ m_HdlcdServerHandlerList' = m_HdlcdServerHandlerList \ {Top.client}
      /\ Call(DestroyIfUnused(Top.client, Rest))
      /\ UNCHANGED <<handler, m_SerialPortHandlerMap, daemon>>
  BY DEF StopClient, Running, Top, Rest
<1>2. CollectionInv /\ daemon # "failed" /\ Members /\ Released /\ InServerList /\ Ports /\ Locks
  BY <1>1, InProgress
<1>3. PICK x \in Clients: x = Top.client
  BY <1>1, <1>2, Innermost, CallFacts DEF Ending
<1>4. PICK old \in ClientType: old = client[x]
  BY <1>2 DEF CollectionInv, ObjectTypes
<1> DEFINE new == [old EXCEPT !.m_Registered = FALSE]
<1>5. /\ new.exists = old.exists /\ new.m_Registered = FALSE /\ new.m_eBufferType = old.m_eBufferType
      /\ new.m_SerialPortHandlerStopper = old.m_SerialPortHandlerStopper
      /\ new.m_bLockedBySelf = old.m_bLockedBySelf
  BY DEF ClientType
<1>6. client' = [client EXCEPT ![x] = new]
  BY <1>1, <1>3, <1>4
<1> HIDE DEF new
<1>7. /\ client'[x] = new /\ Stopper(x)' = Stopper(x)
      /\ \A y \in Clients: y # x => client'[y] = client[y] /\ Stopper(y)' = Stopper(y)
  BY <1>2, <1>4, <1>5, <1>6, ClientReplaced DEF Stopper
<1>8. \A y \in Clients: /\ client'[y].exists = client[y].exists
                        /\ client'[y].m_eBufferType = client[y].m_eBufferType
                        /\ client'[y].m_bLockedBySelf = client[y].m_bLockedBySelf
                        /\ Stopper(y)' = Stopper(y)
  BY <1>4, <1>5, <1>7
<1>9. \A y \in Clients: client'[y].m_Registered <=> client[y].m_Registered /\ y # x
  BY <1>4, <1>5, <1>7
<1>10. PICK N \in SUBSET CallType:
         /\ \A c \in N: c.do = "DestroyClient" /\ c.client = x
         /\ Replaces(N, N)
  <2>1. PICK d \in CallType: d = OnClient("DestroyClient", x) /\ d.do = "DestroyClient" /\ d.client = x
    <3>1. OnClient("DestroyClient", x) \in CallType
      BY NewCalls
    <3> QED
      BY <3>1 DEF OnClient
  <2>2. Call(<<>>) \/ Call(<<d>>)
    BY <1>1, <1>3, <2>1 DEF DestroyIfUnused, ForClient, OnClient
  <2>3. CASE Call(<<>>)
    BY <1>1, <1>2, <2>3, ReplacedShortly
  <2>4. CASE Call(<<d>>)
    <3>1. Replaces({d}, {d})
      BY <1>1, <1>2, <2>4, ReplacedShortly
    <3> QED
      BY <2>1, <3>1
  <2> QED
    BY <2>2, <2>3, <2>4
<1>11. /\ \A c \in Pending: c = Top \/ c \in Pending'
       /\ \A c \in Pending': c \in N \/ c \in Pending
  BY <1>1, <1>2, <1>10, KeptFacts
<1>12. Lives'
  <2>1. Members'
    <3>1. \A c \in Pending': c.do = "Attach" => c \in Pending
      BY <1>10, <1>11
    <3>2. \A c \in Pending: c \in Pending' \/ (c.do = "StopClient" /\ ~client'[c.client].m_Registered)
      BY <1>1, <1>3, <1>9, <1>11
    <3> QED
      BY <1>1, <1>2, <1>8, <1>9, <3>1, <3>2, MembersLeft
  <2>2. \A y \in Clients: ~client'[y].exists /\ Stopper(y)' # None =>
          \E c \in Pending': c.do = "ReleaseStopper" /\ c.client = y
    BY <1>1, <1>2, <1>8, <1>11 DEF Released
  <2>3. ASSUME NEW c \in Pending', c.do = "DestroyClient"
        PROVE  ~client'[c.client].m_Registered
    <3>1. CASE c \in N
      BY <1>9, <1>10, <3>1
    <3>2. CASE c \in Pending
      <4>1. c.client \in Clients
        BY <1>2, <2>3, <3>2, SubsetOfCalls, CallFacts DEF CollectionInv, Ending, Destroying
      <4>2. ~client[c.client].m_Registered
        BY <1>2, <2>3, <3>2 DEF Released
      <4> QED
        BY <1>9, <4>1, <4>2
    <3> QED
      BY <1>11, <3>1, <3>2
  <2>4. InServerList'
    BY <1>1, <1>2, <1>3, <1>9 DEF InServerList
  <2> QED
    BY <2>1, <2>2, <2>3, <2>4 DEF Lives, Released
<1>13. SteadyPorts
  <2>1. \A h: ~AtTop("Stop", h)
    BY <1>1 DEF AtTop, Running, Top
  <2>2. \A y, h: Waits(y, h) => Waits(y, h)'
    BY <1>1, <1>11 DEF Waits
  <2> QED
    BY <1>1, <1>8, <2>1, <2>2 DEF SteadyPorts
<1>14. SteadyLocks
  <2>1. \A h: Holders(h)' = Holders(h)
    BY <1>8 DEF Holders
  <2>2. \A h \in Handlers: handler'[h].m_Registered => handler[h].m_Registered /\ PortKept(h)
    BY <1>1, SamePorts DEF PortsKept
  <2> QED
    BY <1>1, <1>10, <2>1, <2>2, SteadyLocksToo
<1>15. SteadyIterations
  BY <1>1, <1>2, <1>10, NoIteration
<1>16. SteadyCounts /\ SteadyBounds
  BY <1>1, <1>8 DEF SteadyCounts, SteadyBounds, Counters
<1> QED
  BY <1>2, <1>12, <1>13, <1>14, <1>15, <1>16, PortsStep, LocksStep, BoundsStep, SubscriptionsStep DEF FollowInv

(* What destroying a client does.                                          *)
LEMMA DestroyClientEffect ==
  ASSUME CollectionInv, DestroyClient
  PROVE  /\ calls # <<>> /\ Top.do = "DestroyClient" /\ handler' = handler
         /\ UNCHANGED <<m_SerialPortHandlerMap, m_HdlcdServerHandlerList, daemon>>
         /\ \E x \in Clients:
              /\ x = Top.client
              /\ ~client'[x].exists /\ ~client'[x].m_Registered /\ ~client'[x].m_bLockedBySelf
              /\ Stopper(x)' = Stopper(x) /\ Stopper(x) \in Handlers \cup {None}
              /\ client[x].m_bLockedBySelf => Stopper(x) # None
              /\ \A y \in Clients: y # x => client'[y] = client[y] /\ Stopper(y)' = Stopper(y)
              /\ \E N \in SUBSET CallType: \E first \in SUBSET N:
                   /\ Replaces(N, first)
                   /\ \A c \in N: c.do \in {"Resume", "ReleaseStopper"}
                   /\ Stopper(x) # None => \E c \in N: c.do = "ReleaseStopper" /\ c.client = x
                   /\ client[x].m_bLockedBySelf =>
                        \A c \in first: c.do = "Resume" /\ c.handler = Stopper(x)
                   /\ client[x].m_bLockedBySelf => first # {}
                   /\ ~client[x].m_bLockedBySelf => \A c \in first: c.do # "Resume"
<1>1. /\ calls # <<>> /\ Top.do = "DestroyClient"
      /\ client' = [client EXCEPT ![Top.client] = [NoClient EXCEPT !.m_SerialPortHandlerStopper = Stopper(Top.client)]]
      /\ Call((IF client[Top.client].m_bLockedBySelf THEN ForHandler("Resume", Stopper(Top.client)) ELSE <<>>)
              \o (IF Stopper(Top.client) # None THEN ForClient("ReleaseStopper", Top.client) ELSE <<>>))
      /\ UNCHANGED <<handler, m_SerialPortHandlerMap, m_HdlcdServerHandlerList, daemon>>
  BY DEF DestroyClient, Running, Top, Stopper, collections
<1>2. PICK x \in Clients: x = Top.client
  BY <1>1, Innermost, CallFacts DEF Ending, Destroying
<1>3. PICK h \in Handlers \cup {None}: h = Stopper(x)
  BY DEF CollectionInv, ObjectTypes, ClientType, Stopper
<1> DEFINE new == [NoClient EXCEPT !.m_SerialPortHandlerStopper = h]
<1>4. new.m_SerialPortHandlerStopper = h /\ ~new.exists /\ ~new.m_Registered /\ ~new.m_bLockedBySelf
  BY DEF NoClient
<1>5. client' = [client EXCEPT ![x] = new]
  BY <1>1, <1>2, <1>3
<1> HIDE DEF new
<1>6. /\ client'[x] = new /\ Stopper(x)' = h
      /\ \A y \in Clients: y # x => client'[y] = client[y] /\ Stopper(y)' = Stopper(y)
  BY <1>4, <1>5, ClientReplaced
<1>7. client[x].m_bLockedBySelf => h # None
  BY <1>3 DEF CollectionInv, Objects
<1>8. h # None => h \in Handlers
  OBVIOUS
<1>9. PICK b \in CallType: b = OnClient("ReleaseStopper", x) /\ b.do = "ReleaseStopper" /\ b.client = x
  <2>1. OnClient("ReleaseStopper", x) \in CallType
    BY NewCalls
  <2> QED
    BY <2>1 DEF OnClient
<1>10. client[x].m_bLockedBySelf \in BOOLEAN
  BY DEF CollectionInv, ObjectTypes, ClientType
<1>11. \E N \in SUBSET CallType: \E first \in SUBSET N:
         /\ Replaces(N, first)
         /\ \A c \in N: c.do \in {"Resume", "ReleaseStopper"}
         /\ h # None => \E c \in N: c.do = "ReleaseStopper" /\ c.client = x
         /\ client[x].m_bLockedBySelf => \A c \in first: c.do = "Resume" /\ c.handler = h
         /\ client[x].m_bLockedBySelf => first # {}
         /\ ~client[x].m_bLockedBySelf => \A c \in first: c.do # "Resume"
  <2>1. CASE client[x].m_bLockedBySelf
    <3>1. PICK a \in CallType: a = OnPort("Resume", h) /\ a.do = "Resume" /\ a.handler = h
      <4>1. OnPort("Resume", h) \in CallType
        BY <1>7, <1>8, <2>1, NewCalls
      <4> QED
        BY <4>1 DEF OnPort
    <3>2. Call(<<a>> \o <<b>>)
      BY <1>1, <1>2, <1>3, <1>7, <1>9, <2>1, <3>1 DEF ForHandler, ForClient, OnPort, OnClient
    <3>3. Replaces({a, b}, {a})
      BY <1>1, <1>9, <3>1, <3>2, ReplacedShortly
    <3> QED
      BY <1>9, <2>1, <3>1, <3>3
  <2>2. CASE ~client[x].m_bLockedBySelf /\ h # None
    <3>1. Call(<<>> \o <<b>>)
      BY <1>1, <1>2, <1>3, <1>9, <2>2 DEF ForClient, OnClient
    <3>2. <<>> \o <<b>> = <<b>>
      BY <1>9, OneCall, NoCalls, JoinFacts
    <3>3. Replaces({b}, {b})
      BY <1>1, <1>9, <3>1, <3>2, ReplacedShortly
    <3> QED
      BY <1>9, <2>2, <3>3
  <2>3. CASE ~client[x].m_bLockedBySelf /\ h = None
    <3>1. Call(<<>> \o <<>>)
      BY <1>1, <1>2, <1>3, <2>3
    <3>2. <<>> \o <<>> = <<>>
      BY NoCalls, JoinFacts
    <3>3. Replaces({}, {})
      BY <1>1, <3>1, <3>2, ReplacedShortly
    <3> QED
      BY <2>3, <3>3
  <2> QED
    BY <1>10, <2>1, <2>2, <2>3
<1>12. ~client'[x].exists /\ ~client'[x].m_Registered /\ ~client'[x].m_bLockedBySelf
  BY <1>4, <1>6
<1>13. /\ Stopper(x)' = Stopper(x) /\ Stopper(x) \in Handlers \cup {None}
       /\ client[x].m_bLockedBySelf => Stopper(x) # None
  BY <1>3, <1>6, <1>7
<1>14. \E N \in SUBSET CallType: \E first \in SUBSET N:
         /\ Replaces(N, first)
         /\ \A c \in N: c.do \in {"Resume", "ReleaseStopper"}
         /\ Stopper(x) # None => \E c \in N: c.do = "ReleaseStopper" /\ c.client = x
         /\ client[x].m_bLockedBySelf => \A c \in first: c.do = "Resume" /\ c.handler = Stopper(x)
         /\ client[x].m_bLockedBySelf => first # {}
         /\ ~client[x].m_bLockedBySelf => \A c \in first: c.do # "Resume"
  BY <1>3, <1>11
<1> QED
  BY <1>1, <1>2, <1>6, <1>12, <1>13, <1>14

(* One holder fewer.                                                       *)
LEMMA OneHolderFewer ==
  ASSUME NEW S \in SUBSET Clients, NEW x \in S
  PROVE  Cardinality(S) = Cardinality(S \ {x}) + 1 /\ Cardinality(S \ {x}) \in Nat
<1>1. IsFiniteSet(S) /\ Cardinality(S) \in Nat /\ Cardinality(S \ {x}) \in Nat
  BY ConstantsAssumption, FS_Subset, ClientsFacts
<1>2. Cardinality(S \ {x}) = Cardinality(S) - 1
  BY <1>1, FS_RemoveElement
<1> QED
  BY <1>1, <1>2

(* A client is destroyed; its lock is given back first.                    *)
LEMMA DestroyClientFollows ==
  ASSUME FollowInv, CollectionInv', DestroyClient
  PROVE  FollowInv'
<1>1. /\ calls # <<>> /\ Top.do = "DestroyClient" /\ handler' = handler
      /\ UNCHANGED <<m_SerialPortHandlerMap, m_HdlcdServerHandlerList, daemon>>
  BY DestroyClientEffect DEF FollowInv
<1>2. CollectionInv /\ daemon # "failed" /\ Members /\ Released /\ InServerList /\ Ports /\ Locks
  BY <1>1, InProgress
<1>3. PICK x \in Clients:
        /\ x = Top.client
        /\ ~client'[x].exists /\ ~client'[x].m_Registered /\ ~client'[x].m_bLockedBySelf
        /\ Stopper(x)' = Stopper(x) /\ Stopper(x) \in Handlers \cup {None}
        /\ client[x].m_bLockedBySelf => Stopper(x) # None
        /\ \A y \in Clients: y # x => client'[y] = client[y] /\ Stopper(y)' = Stopper(y)
        /\ \E N \in SUBSET CallType: \E first \in SUBSET N:
             /\ Replaces(N, first)
             /\ \A c \in N: c.do \in {"Resume", "ReleaseStopper"}
             /\ Stopper(x) # None => \E c \in N: c.do = "ReleaseStopper" /\ c.client = x
             /\ client[x].m_bLockedBySelf =>
                  \A c \in first: c.do = "Resume" /\ c.handler = Stopper(x)
             /\ client[x].m_bLockedBySelf => first # {}
             /\ ~client[x].m_bLockedBySelf => \A c \in first: c.do # "Resume"
  BY <1>2, DestroyClientEffect
<1>4. PICK N \in SUBSET CallType: \E first \in SUBSET N:
        /\ Replaces(N, first)
        /\ \A c \in N: c.do \in {"Resume", "ReleaseStopper"}
        /\ Stopper(x) # None => \E c \in N: c.do = "ReleaseStopper" /\ c.client = x
        /\ client[x].m_bLockedBySelf =>
             \A c \in first: c.do = "Resume" /\ c.handler = Stopper(x)
        /\ client[x].m_bLockedBySelf => first # {}
        /\ ~client[x].m_bLockedBySelf => \A c \in first: c.do # "Resume"
  BY <1>3
<1>5. PICK first \in SUBSET N:
        /\ Replaces(N, first)
        /\ \A c \in N: c.do \in {"Resume", "ReleaseStopper"}
        /\ Stopper(x) # None => \E c \in N: c.do = "ReleaseStopper" /\ c.client = x
        /\ client[x].m_bLockedBySelf =>
             \A c \in first: c.do = "Resume" /\ c.handler = Stopper(x)
        /\ client[x].m_bLockedBySelf => first # {}
        /\ ~client[x].m_bLockedBySelf => \A c \in first: c.do # "Resume"
  BY <1>4
<1>6. /\ \A c \in Pending: c = Top \/ c \in Pending'
      /\ \A c \in Pending': c \in N \/ c \in Pending
      /\ N \subseteq Pending'
  BY <1>1, <1>2, <1>5, KeptFacts DEF Replaces
<1>7. ~client[x].m_Registered
  <2>1. Top \in Pending
    BY <1>1, <1>2, Innermost
  <2> QED
    BY <1>1, <1>2, <1>3, <2>1 DEF Released
<1>8. \A y \in Clients: Stopper(y)' = Stopper(y) /\ client'[y].m_Registered = client[y].m_Registered
  <2>1. client[x].m_Registered \in BOOLEAN /\ client'[x].m_Registered \in BOOLEAN
    BY <1>2 DEF CollectionInv, ObjectTypes, ClientType
  <2> QED
    BY <1>3, <1>7, <2>1
<1>9. Lives'
  <2>1. Members'
    <3>1. \A c \in Pending': c.do = "Attach" => c \in Pending
      BY <1>5, <1>6
    <3>2. \A c \in Pending: c \in Pending' \/ ~(c.do = "StopClient" \/ Stopping(c))
      BY <1>1, <1>6 DEF Stopping
    <3> QED
      BY <1>1, <1>2, <1>8, <3>1, <3>2, MembersLeft
  <2>2. ASSUME NEW y \in Clients, ~client'[y].exists, Stopper(y)' # None
        PROVE  \E c \in Pending': c.do = "ReleaseStopper" /\ c.client = y
    <3>1. CASE y = x
      BY <1>5, <1>6, <1>8, <2>2, <3>1
    <3>2. CASE y # x
      BY <1>1, <1>2, <1>3, <1>6, <2>2, <3>2 DEF Released
    <3> QED
      BY <3>1, <3>2
  <2>3. ASSUME NEW c \in Pending', c.do = "DestroyClient"
        PROVE  ~client'[c.client].m_Registered
    <3>1. c \in Pending
      BY <1>5, <1>6, <2>3
    <3>2. c.client \in Clients
      BY <1>2, <2>3, <3>1, SubsetOfCalls, CallFacts DEF CollectionInv, Ending, Destroying
    <3> QED
      BY <1>2, <1>8, <2>3, <3>1, <3>2 DEF Released
  <2>4. InServerList'
    BY <1>1, <1>2, <1>8 DEF InServerList
  <2> QED
    BY <2>1, <2>2, <2>3, <2>4 DEF Lives, Released
<1>10. SteadyPorts
  <2>1. \A h: ~AtTop("Stop", h)
    BY <1>1 DEF AtTop, Running, Top
  <2>2. \A y, h: Waits(y, h) => Waits(y, h)'
    BY <1>1, <1>6 DEF Waits
  <2> QED
    BY <1>1, <1>8, <2>1, <2>2 DEF SteadyPorts
<1>11. \A h: ~AtTop("Open", h) /\ ~AtTop("Resume", h) /\ ~AtTop("Open", h)'
  BY <1>1, <1>5 DEF AtTop, Running, Top, Replaces, TopIs
<1>12. ASSUME NEW h \in Handlers
       PROVE  Cardinality(Holders(h)) + 0 = Cardinality(Holders(h)') + (IF AtTop("Resume", h)' THEN 1 ELSE 0)
  <2>0. Cardinality(Holders(h)) \in Nat
    BY ClientsFacts DEF Holders
  <2>1. CASE client[x].m_bLockedBySelf /\ Stopper(x) = h
    <3>1. AtTop("Resume", h)'
      BY <1>5, <2>1 DEF Replaces, TopIs
    <3>2. x \in Holders(h) /\ Holders(h)' = Holders(h) \ {x}
      <4>1. \A y \in Clients: y \in Holders(h)' <=> y \in Holders(h) /\ y # x
        BY <1>3 DEF Holders
      <4>2. x \in Holders(h)
        BY <2>1 DEF Holders
      <4>3. Holders(h) \subseteq Clients /\ Holders(h)' \subseteq Clients
        BY DEF Holders
      <4> QED
        BY <4>1, <4>2, <4>3
    <3>3. Cardinality(Holders(h)) = Cardinality(Holders(h) \ {x}) + 1
      BY <3>2, OneHolderFewer DEF Holders
    <3> QED
      BY <2>0, <3>1, <3>2, <3>3
  <2>2. CASE ~(client[x].m_bLockedBySelf /\ Stopper(x) = h)
    <3>1. ~AtTop("Resume", h)'
      BY <1>5, <2>2 DEF Replaces, TopIs
    <3>2. \A y \in Clients: y \in Holders(h)' <=> y \in Holders(h)
      BY <1>3, <2>2 DEF Holders
    <3>3. Holders(h)' = Holders(h)
      BY <3>2 DEF Holders
    <3> QED
      BY <3>1, <3>3
  <2> QED
    BY <2>1, <2>2
<1>13. Locks'
  <2>1. LocksCounted'
    BY <1>1, <1>2, <1>11, <1>12 DEF Locks, LocksCounted
  <2>2. OpenUnlessLocked'
    BY <1>1, <1>2, <1>11 DEF Locks, OpenUnlessLocked
  <2> QED
    BY <2>1, <2>2 DEF Locks
<1>14. SteadyIterations
  BY <1>1, <1>2, <1>5, NoIteration
<1>15. SteadyCounts /\ SteadyBounds
  BY <1>1, <1>3 DEF SteadyCounts, SteadyBounds, Counters
<1> QED
  BY <1>2, <1>9, <1>10, <1>13, <1>14, <1>15, PortsStep, BoundsStep, SubscriptionsStep, InProgress, <1>1 DEF FollowInv

(* A stopper is given back; with the last one the port is stopped.         *)
LEMMA ReleaseStopperFollows ==
  ASSUME FollowInv, CollectionInv', ReleaseStopper
  PROVE  FollowInv'
<1>1. /\ calls # <<>> /\ Top.do = "ReleaseStopper"
      /\ client' = [client EXCEPT ![Top.client].m_SerialPortHandlerStopper = None]
      /\ UNCHANGED <<handler, m_HdlcdServerHandlerList, daemon>>
  BY DEF ReleaseStopper, Running, Top
<1>2. CollectionInv /\ daemon # "failed" /\ Members /\ Released /\ InServerList /\ Ports /\ Locks
  BY <1>1, InProgress
<1>3. PICK x \in Clients: x = Top.client
  BY <1>1, <1>2, Innermost, CallFacts DEF Ending, Destroying
<1>4. PICK h \in Handlers: h = Stopper(x) /\ ~client[x].exists
  <2>1. Stopper(x) \in Handlers \cup {None}
    BY <1>2 DEF CollectionInv, ObjectTypes, ClientType, Stopper
  <2>2. Stopper(x) # None /\ ~client[x].exists
    BY <1>1, <1>2, <1>3, Innermost DEF Justified
  <2> QED
    BY <2>1, <2>2
<1>5. PICK last \in BOOLEAN:
        /\ last <=> (\A y \in Clients \ {x}: Stopper(y) # h) /\ h \notin HeldStoppers(calls)
        /\ m_SerialPortHandlerMap' = IF last THEN Deregistered(h) ELSE m_SerialPortHandlerMap
        /\ Call(IF last THEN ForHandler("Stop", h) ELSE <<>>)
  BY <1>3, <1>4 DEF ReleaseStopper, Top, Stopper
<1>6. PICK old \in ClientType: old = client[x]
  BY <1>2 DEF CollectionInv, ObjectTypes
<1> DEFINE new == [old EXCEPT !.m_SerialPortHandlerStopper = None]
<1>7. /\ new.exists = old.exists /\ new.m_Registered = old.m_Registered
      /\ new.m_eBufferType = old.m_eBufferType
      /\ new.m_SerialPortHandlerStopper = None
      /\ new.m_bLockedBySelf = old.m_bLockedBySelf
  BY DEF ClientType
<1>8. client' = [client EXCEPT ![x] = new]
  BY <1>1, <1>3, <1>6
<1> HIDE DEF new
<1>9. /\ client'[x] = new /\ Stopper(x)' = None
      /\ \A y \in Clients: y # x => client'[y] = client[y] /\ Stopper(y)' = Stopper(y)
  BY <1>2, <1>7, <1>8, ClientReplaced
<1>10. \A y \in Clients: /\ client'[y].exists = client[y].exists
                         /\ client'[y].m_Registered = client[y].m_Registered
                         /\ client'[y].m_eBufferType = client[y].m_eBufferType
                         /\ client'[y].m_bLockedBySelf = client[y].m_bLockedBySelf
  BY <1>6, <1>7, <1>9
<1>11. ~client[x].m_Registered /\ ~client[x].m_bLockedBySelf
  BY <1>2, <1>4 DEF CollectionInv, Objects
<1>12. PICK N \in SUBSET CallType:
         /\ Replaces(N, N)
         /\ \A c \in N: c.do = "Stop"
         /\ last => \E c \in N: c.do = "Stop" /\ c.handler = h
  <2>1. CASE last
    <3>1. PICK a \in CallType: a = OnPort("Stop", h) /\ a.do = "Stop" /\ a.handler = h
      <4>1. OnPort("Stop", h) \in CallType
        BY NewCalls
      <4> QED
        BY <4>1 DEF OnPort
    <3>2. Call(<<a>>)
      BY <1>5, <2>1, <3>1 DEF ForHandler, OnPort
    <3>3. Replaces({a}, {a})
      BY <1>1, <1>2, <3>2, ReplacedShortly
    <3> QED
      BY <3>1, <3>3
  <2>2. CASE ~last
    <3>1. Replaces({}, {})
      BY <1>1, <1>2, <1>5, <2>2, ReplacedShortly
    <3> QED
      BY <2>2, <3>1
  <2> QED
    BY <2>1, <2>2
<1>13. /\ \A c \in Pending: c = Top \/ c \in Pending'
       /\ \A c \in Pending': c \in N \/ c \in Pending
  BY <1>1, <1>2, <1>12, KeptFacts
<1>14. Lives'
  <2>1. Members'
    <3>1. \A c \in Pending': c.do = "Attach" => c \in Pending
      BY <1>12, <1>13
    <3>2. \A c \in Pending: c \in Pending' \/ ~(c.do = "StopClient" \/ Stopping(c))
      BY <1>1, <1>13 DEF Stopping
    <3>3. \A y \in Clients: client'[y].m_Registered => client[y].m_Registered /\ Stopper(y)' = Stopper(y)
      BY <1>9, <1>10, <1>11
    <3> QED
      BY <1>1, <1>2, <3>1, <3>2, <3>3, MembersLeft
  <2>2. ASSUME NEW y \in Clients, ~client'[y].exists, Stopper(y)' # None
        PROVE  \E c \in Pending': c.do = "ReleaseStopper" /\ c.client = y
    <3>1. y # x /\ ~client[y].exists /\ Stopper(y) # None
      BY <1>9, <1>10, <2>2
    <3>2. PICK c \in Pending: c.do = "ReleaseStopper" /\ c.client = y
      BY <1>2, <3>1 DEF Released
    <3> QED
      BY <1>3, <1>13, <3>1, <3>2
  <2>3. ASSUME NEW c \in Pending', c.do = "DestroyClient"
        PROVE  ~client'[c.client].m_Registered
    <3>1. c \in Pending
      BY <1>12, <1>13, <2>3
    <3>2. c.client \in Clients
      BY <1>2, <2>3, <3>1, SubsetOfCalls, CallFacts DEF CollectionInv, Ending, Destroying
    <3> QED
      BY <1>2, <1>10, <2>3, <3>1, <3>2 DEF Released
  <2>4. InServerList'
    BY <1>1, <1>2, <1>10 DEF InServerList
  <2> QED
    BY <2>1, <2>2, <2>3, <2>4 DEF Lives, Released
<1>15. Ports'
  <2>1. \A g: ~AtTop("Stop", g)
    BY <1>1 DEF AtTop, Running, Top
  <2>2. \A y, g: Waits(y, g) => Waits(y, g)'
    BY <1>1, <1>13 DEF Waits
  <2>3. last => AtTop("Stop", h)'
    BY <1>12 DEF Replaces, TopIs
  <2>4. ASSUME NEW g \in Handlers, handler'[g].m_Registered
        PROVE  (\E y \in Clients: Stopper(y)' = g \/ Waits(y, g)') \/ AtTop("Stop", g)'
    <3>1. PICK y \in Clients: Stopper(y) = g \/ Waits(y, g)
      BY <1>1, <1>2, <2>1, <2>4 DEF Ports, Wanted
    <3>2. CASE Waits(y, g) \/ y # x
      BY <1>9, <2>2, <3>1, <3>2
    <3>3. CASE y = x /\ Stopper(y) = g
      <4>1. g = h
        BY <1>4, <3>3
      <4>2. CASE last
        BY <2>3, <4>1, <4>2
      <4>3. CASE \E z \in Clients \ {x}: Stopper(z) = h
        BY <1>9, <4>1, <4>3
      <4>4. CASE h \in HeldStoppers(calls)
        <5>1. PICK c \in Pending: c.do = "Attach" /\ c.handler = h
          BY <4>4 DEF HeldStoppers, Pending, ToSet
        <5>2. c.client \in Clients
          BY <1>2, <5>1, SubsetOfCalls, CallFacts DEF CollectionInv
        <5>3. Waits(c.client, h)
          BY <5>1 DEF Waits
        <5> QED
          BY <2>2, <4>1, <5>2, <5>3
      <4> QED
        BY <1>5, <4>2, <4>3, <4>4
    <3> QED
      BY <3>1, <3>2, <3>3
  <2>5. Wanted'
    BY <2>4 DEF Wanted
  <2>6. \A n \in Names, g \in Handlers:
          m_SerialPortHandlerMap'[n] = g <=> m_SerialPortHandlerMap[n] = g /\ ~(last /\ g = h)
    <3>1. CASE last
      <4>1. m_SerialPortHandlerMap' = Deregistered(h)
        BY <1>5, <3>1
      <4> QED
        BY <3>1, <4>1, ConstantsAssumption DEF Deregistered
    <3>2. CASE ~last
      BY <1>5, <3>2
    <3> QED
      BY <3>1, <3>2
  <2>7. ASSUME NEW n \in Names, NEW g \in Handlers, m_SerialPortHandlerMap'[n] = g
        PROVE  handler'[g].m_Registered /\ handler'[g].m_SerialPortName = n
    <3>1. m_SerialPortHandlerMap[n] = g
      BY <2>6, <2>7
    <3> QED
      BY <1>1, <1>2, <3>1 DEF Ports, Mapped
  <2>8. ASSUME NEW g \in Handlers, handler'[g].m_Registered
        PROVE  /\ handler'[g].m_SerialPortName \in Names
               /\ m_SerialPortHandlerMap'[handler'[g].m_SerialPortName] = g \/ AtTop("Stop", g)'
    <3>1. handler[g].m_SerialPortName \in Names /\ m_SerialPortHandlerMap[handler[g].m_SerialPortName] = g
      BY <1>1, <1>2, <2>1, <2>8 DEF Ports, Mapped
    <3> QED
      BY <1>1, <2>3, <2>6, <3>1
  <2> QED
    BY <2>5, <2>7, <2>8 DEF Ports, Mapped
<1>16. SteadyLocks
  <2>1. ASSUME NEW g \in Handlers
        PROVE  Holders(g)' = Holders(g)
    <3>1. \A y \in Clients: y \in Holders(g)' <=> y \in Holders(g)
      BY <1>9, <1>10, <1>11 DEF Holders
    <3> QED
      BY <3>1 DEF Holders
  <2>2. \A g \in Handlers: handler'[g].m_Registered => handler[g].m_Registered /\ PortKept(g)
    BY <1>1, SamePorts DEF PortsKept
  <2> QED
    BY <1>1, <1>12, <2>1, <2>2, SteadyLocksToo
<1>17. SteadyIterations
  BY <1>1, <1>2, <1>12, NoIteration
<1>18. SteadyCounts /\ SteadyBounds
  BY <1>1, <1>10 DEF SteadyCounts, SteadyBounds, Counters
<1> QED
  BY <1>2, <1>14, <1>15, <1>16, <1>17, <1>18, LocksStep, BoundsStep, SubscriptionsStep, InProgress, <1>1 DEF FollowInv

(* A client is attached to its port.                                       *)
LEMMA AttachedFollows ==
  ASSUME FollowInv, CollectionInv', calls # <<>>, Top.do = "Attach",
         handler[Top.handler].m_Registered,
         client' = [client EXCEPT ![Top.client].m_SerialPortHandlerStopper = Top.handler],
         Call(ForHandler("Propagate", Top.handler)),
         UNCHANGED <<handler, m_SerialPortHandlerMap, m_HdlcdServerHandlerList, daemon>>
  PROVE  FollowInv'
<1>1. CollectionInv /\ daemon # "failed" /\ Members /\ Released /\ InServerList /\ Ports /\ Locks
  BY InProgress
<1>2. PICK x \in Clients: x = Top.client
  BY <1>1, Innermost, CallFacts
<1>3. PICK h \in Handlers: h = Top.handler
  BY <1>1, Innermost, CallFacts
<1>4. ToSet(Rest) = {} /\ Pending = {Top}
  <2>1. Rest = <<>> /\ Pending = {Top} \cup ToSet(Rest)
    BY <1>1, Under, Innermost DEF AtBottom
  <2> QED
    BY <2>1, NoCalls
<1>5. Stopper(x) = None /\ client[x].exists /\ client[x].m_Registered /\ Listed(h, x)
  BY <1>1, <1>2, <1>3, Innermost DEF Justified
<1>6. ~client[x].m_bLockedBySelf
  BY <1>1, <1>5 DEF CollectionInv, Objects
<1>7. PICK old \in ClientType: old = client[x]
  BY <1>1 DEF CollectionInv, ObjectTypes
<1> DEFINE new == [old EXCEPT !.m_SerialPortHandlerStopper = h]
<1>8. /\ new.exists = old.exists /\ new.m_Registered = old.m_Registered
      /\ new.m_eBufferType = old.m_eBufferType
      /\ new.m_SerialPortHandlerStopper = h
      /\ new.m_bLockedBySelf = old.m_bLockedBySelf
  BY DEF ClientType
<1>9. client' = [client EXCEPT ![x] = new]
  BY <1>2, <1>3, <1>7
<1> HIDE DEF new
<1>10. /\ client'[x] = new /\ Stopper(x)' = h
       /\ \A y \in Clients: y # x => client'[y] = client[y] /\ Stopper(y)' = Stopper(y)
  BY <1>1, <1>8, <1>9, ClientReplaced
<1>11. \A y \in Clients: /\ client'[y].exists = client[y].exists
                         /\ client'[y].m_Registered = client[y].m_Registered
                         /\ client'[y].m_eBufferType = client[y].m_eBufferType
                         /\ client'[y].m_bLockedBySelf = client[y].m_bLockedBySelf
  BY <1>7, <1>8, <1>10
<1>12. PICK a \in CallType: a = OnPort("Propagate", h) /\ a.do = "Propagate"
  <2>1. OnPort("Propagate", h) \in CallType
    BY NewCalls
  <2> QED
    BY <2>1 DEF OnPort
<1>13. Replaces({a}, {a})
  <2>1. Call(<<a>>)
    BY <1>3, <1>12 DEF ForHandler, OnPort
  <2> QED
    BY <1>1, <2>1, ReplacedShortly
<1>14. Pending' = {a}
  BY <1>4, <1>13 DEF Replaces
<1>15. Lives'
  <2>1. Members'
    <3> SUFFICES ASSUME NEW y \in Clients, NEW g \in Handlers, Member(y, g)'
                 PROVE  Listed(g, y)' /\ handler'[g].m_Registered
      BY DEF Members
    <3>1. client'[y].m_Registered /\ Stopper(y)' = g
      BY <1>12, <1>14 DEF Member, Waits
    <3>2. CASE y = x
      <4>1. g = h
        BY <1>10, <3>1, <3>2
      <4> QED
        BY <1>3, <1>5, <3>2, <4>1 DEF Listed
    <3>3. CASE y # x
      <4>1. Member(y, g)
        BY <1>10, <1>11, <3>1, <3>3 DEF Member
      <4>2. ~AwaitsStop(y, g)
        BY <1>4 DEF AwaitsStop, Stopping
      <4> QED
        BY <1>1, <4>1, <4>2 DEF Members, Listed
    <3> QED
      BY <3>2, <3>3
  <2>2. ASSUME NEW y \in Clients, ~client'[y].exists, Stopper(y)' # None
        PROVE  FALSE
    <3>1. ~client[y].exists /\ y # x
      BY <1>5, <1>11, <2>2
    <3>2. Stopper(y) # None
      BY <1>10, <2>2, <3>1
    <3> QED
      BY <1>1, <1>4, <3>1, <3>2 DEF Released
  <2>3. \A c \in Pending': c.do # "DestroyClient"
    BY <1>12, <1>14
  <2>4. InServerList'
    BY <1>1, <1>11 DEF InServerList
  <2> QED
    BY <2>1, <2>2, <2>3, <2>4 DEF Lives, Released
<1>16. Ports'
  <2>1. \A g: ~AtTop("Stop", g)
    BY DEF AtTop, Running, Top
  <2>2. ASSUME NEW g \in Handlers, handler'[g].m_Registered
        PROVE  \E y \in Clients: Stopper(y)' = g
    <3>1. PICK y \in Clients: Stopper(y) = g \/ Waits(y, g)
      BY <1>1, <2>1, <2>2 DEF Ports, Wanted
    <3>2. CASE Stopper(y) = g
      <4>1. y # x
        BY <1>5, <3>2, ConstantsAssumption
      <4> QED
        BY <1>10, <3>2, <4>1
    <3>3. CASE Waits(y, g)
      <4>1. g = h
        BY <1>3, <1>4, <3>3 DEF Waits
      <4> QED
        BY <1>10, <4>1
    <3> QED
      BY <3>1, <3>2, <3>3
  <2>3. Wanted'
    BY <2>2 DEF Wanted
  <2>4. Mapped'
    BY <1>1, <2>1 DEF Ports, Mapped
  <2> QED
    BY <2>3, <2>4 DEF Ports
<1>17. SteadyLocks
  <2>1. ASSUME NEW g \in Handlers
        PROVE  Holders(g)' = Holders(g)
    <3>1. \A y \in Clients: y \in Holders(g)' <=> y \in Holders(g)
      BY <1>6, <1>10, <1>11 DEF Holders
    <3> QED
      BY <3>1 DEF Holders
  <2>2. \A g \in Handlers: handler'[g].m_Registered => handler[g].m_Registered /\ PortKept(g)
    BY SamePorts DEF PortsKept
  <2> QED
    BY <1>12, <1>13, <2>1, <2>2, SteadyLocksToo
<1>18. SteadyIterations
  BY <1>1, <1>12, <1>13, NoIteration
<1>19. SteadyCounts /\ SteadyBounds
  BY <1>11 DEF SteadyCounts, SteadyBounds, Counters
<1> QED
  BY <1>1, <1>15, <1>16, <1>17, <1>18, <1>19, LocksStep, BoundsStep, SubscriptionsStep, InProgress DEF FollowInv

(* A client is attached, or goes with its port.                            *)
LEMMA AttachFollows ==
  ASSUME FollowInv, CollectionInv', Attach
  PROVE  FollowInv'
<1>1. calls # <<>> /\ Top.do = "Attach"
      /\ UNCHANGED <<handler, m_SerialPortHandlerMap, m_HdlcdServerHandlerList, daemon>>
  BY DEF Attach, Running, Top, collections
<1>2. CASE /\ handler[Top.handler].m_Registered
           /\ client' = [client EXCEPT ![Top.client].m_SerialPortHandlerStopper = Top.handler]
           /\ Call(ForHandler("Propagate", Top.handler))
  BY <1>1, <1>2, AttachedFollows
<1>3. CASE /\ ~handler[Top.handler].m_Registered
           /\ UNCHANGED client
           /\ Call(ForHandler("Stop", Top.handler) \o ForClient("DestroyClient", Top.client))
  <2>1. CollectionInv /\ Members
    BY <1>1, InProgress
  <2>2. PICK x \in Clients: x = Top.client
    BY <1>1, <2>1, Innermost, CallFacts
  <2>3. PICK h \in Handlers: h = Top.handler
    BY <1>1, <2>1, Innermost, CallFacts
  <2>4. Pending = {Top}
    <3>1. Rest = <<>> /\ Pending = {Top} \cup ToSet(Rest)
      BY <1>1, <2>1, Under, Innermost DEF AtBottom
    <3> QED
      BY <3>1, NoCalls
  <2>5. ~client[x].m_Registered
    <3>1. Waits(x, h)
      BY <1>1, <2>2, <2>3, <2>4 DEF Waits
    <3>2. ~AwaitsStop(x, h)
      BY <1>1, <2>4 DEF AwaitsStop, Stopping
    <3> QED
      BY <1>3, <2>1, <2>3, <3>1, <3>2 DEF Members, Member
  <2>6. PICK a \in CallType: a = OnPort("Stop", h) /\ a.do = "Stop"
    <3>1. OnPort("Stop", h) \in CallType
      BY NewCalls
    <3> QED
      BY <3>1 DEF OnPort
  <2>7. PICK b \in CallType: b = OnClient("DestroyClient", x) /\ b.do = "DestroyClient" /\ b.client = x
    <3>1. OnClient("DestroyClient", x) \in CallType
      BY NewCalls
    <3> QED
      BY <3>1 DEF OnClient
  <2>8. Call(<<a>> \o <<b>>)
    BY <1>3, <2>2, <2>3, <2>6, <2>7 DEF ForHandler, ForClient, OnPort, OnClient
  <2>9. Replaces({a, b}, {a})
    BY <1>1, <2>1, <2>6, <2>7, <2>8, ReplacedShortly
  <2> QED
    BY <1>1, <1>3, <2>5, <2>6, <2>7, <2>9, QuietFollows DEF Elsewhere
<1> QED
  BY <1>2, <1>3 DEF Attach, Top

-----------------------------------------------------------------------------
(* Handlers.                                                               *)

(* Between two handlers nothing is pending.                                *)
LEMMA AtRest ==
  ASSUME FollowInv, calls = <<>>, daemon # "failed"
  PROVE  /\ CollectionInv /\ Bounded /\ Subscriptions
         /\ Lives /\ Members /\ Released /\ InServerList /\ Ports /\ Locks
         /\ Pending = {} /\ ~s_bCyclicCallGuard
         /\ \A do, h: ~AtTop(do, h)
         /\ \A x, h: ~Waits(x, h) /\ ~AwaitsStop(x, h)
<1>1. CollectionInv
  BY DEF FollowInv
<1>2. Pending = {} /\ ~s_bCyclicCallGuard
  BY <1>1, Idle
<1>3. \A do, h: ~AtTop(do, h)
  BY DEF AtTop, Running
<1>4. \A x, h: ~Waits(x, h) /\ ~AwaitsStop(x, h)
  BY <1>2 DEF Waits, AwaitsStop
<1> QED
  BY <1>1, <1>2, <1>3, <1>4 DEF FollowInv, Lives

(* A handler begins, and no object changes.                                *)
LEMMA BeginFollows ==
  ASSUME FollowInv, CollectionInv', calls = <<>>, daemon # "failed",
         NEW N, NEW first \in SUBSET N, Begins(N, first),
         \A c \in N: c.do \notin {"ForEach", "Attach", "DestroyClient"},
         \A c \in first: c.do \notin {"Open", "Resume"},
         UNCHANGED <<client, handler, m_SerialPortHandlerMap, m_HdlcdServerHandlerList>>
  PROVE  FollowInv'
<1>1. Pending = {}
  BY AtRest
<1>2. SameLives /\ \A h: Holders(h)' = Holders(h)
  BY SameClients
<1>3. SteadyLives /\ SteadyPorts
  BY <1>1, <1>2, SteadyBeginning
<1>4. SteadyLocks
  BY <1>2, SamePorts, SteadyLocksBeginning DEF PortsKept
<1>5. SteadyIterations
  BY <1>1, NoneBegins
<1> QED
  BY <1>3, <1>4, <1>5, SameSteady, SteadyStep

(* A connection is closed.                                                 *)
LEMMA OnClosedFollows ==
  ASSUME FollowInv, CollectionInv', NEW x \in Clients, OnClosed(x)
  PROVE  FollowInv'
<1>1. /\ daemon = "running" /\ calls = <<>> /\ calls' = ForClient("StopClient", x)
      /\ UNCHANGED <<client, handler, m_SerialPortHandlerMap, m_HdlcdServerHandlerList>>
  BY DEF OnClosed, Handle, objects, collections
<1>2. PICK a \in CallType: a = OnClient("StopClient", x) /\ a.do = "StopClient"
  <2>1. OnClient("StopClient", x) \in CallType
    BY NewCalls
  <2> QED
    BY <2>1 DEF OnClient
<1>3. calls' = <<a>>
  BY <1>1, <1>2 DEF ForClient, OnClient
<1>4. Begins({a}, {a})
  BY <1>3, Beginning
<1> QED
  BY <1>1, <1>2, <1>4, BeginFollows

(* A port is stopped on request, or after an error.                        *)
LEMMA StopRequestFollows ==
  ASSUME FollowInv, CollectionInv', NEW h \in Handlers, StopRequest(h)
  PROVE  FollowInv'
<1>1. /\ daemon = "running" /\ calls = <<>> /\ calls' = ForHandler("Stop", h)
      /\ UNCHANGED <<client, handler, m_SerialPortHandlerMap, m_HdlcdServerHandlerList>>
  BY DEF StopRequest, Handle, objects, collections
<1>2. PICK a \in CallType: a = OnPort("Stop", h) /\ a.do = "Stop"
  <2>1. OnPort("Stop", h) \in CallType
    BY NewCalls
  <2> QED
    BY <2>1 DEF OnPort
<1>3. calls' = <<a>>
  BY <1>1, <1>2 DEF ForHandler, OnPort
<1>4. Begins({a}, {a})
  BY <1>3, Beginning
<1> QED
  BY <1>1, <1>2, <1>4, BeginFollows

(* The station delivers, queries or changes its state.                     *)
LEMMA StationCallsFollows ==
  ASSUME FollowInv, CollectionInv', NEW h \in Handlers, StationCalls(h)
  PROVE  FollowInv'
<1>1. /\ daemon = "running" /\ calls = <<>>
      /\ \/ \E t \in Sessions: calls' = Deliver(h, t)
         \/ \E do \in {"Propagate", "Query"}: calls' = ForHandler(do, h)
      /\ UNCHANGED <<client, handler, m_SerialPortHandlerMap, m_HdlcdServerHandlerList>>
  BY DEF StationCalls, Handle, objects, collections
<1>2. PICK a \in CallType: a.do \in {"Deliver", "Propagate", "Query"} /\ calls' = <<a>>
  <2>1. ASSUME NEW t \in Sessions, calls' = Deliver(h, t)
        PROVE  \E a \in CallType: a.do \in {"Deliver", "Propagate", "Query"} /\ calls' = <<a>>
    <3>1. Delivery(h, t) \in CallType
      BY NewCalls, ConstantsAssumption
    <3> QED
      BY <2>1, <3>1 DEF Delivery, Deliver
  <2>2. ASSUME NEW do \in {"Propagate", "Query"}, calls' = ForHandler(do, h)
        PROVE  \E a \in CallType: a.do \in {"Deliver", "Propagate", "Query"} /\ calls' = <<a>>
    <3>1. OnPort(do, h) \in CallType
      BY NewCalls
    <3> QED
      BY <2>2, <3>1 DEF OnPort, ForHandler
  <2> QED
    BY <1>1, <2>1, <2>2
<1>3. Begins({a}, {a})
  BY <1>2, Beginning
<1> QED
  BY <1>1, <1>2, <1>3, BeginFollows

(* The event loop ends.                                                    *)
LEMMA SignalFollows ==
  ASSUME FollowInv, CollectionInv', Signal
  PROVE  FollowInv'
<1>1. /\ daemon = "running" /\ calls = <<>> /\ calls' = <<>>
      /\ UNCHANGED <<client, handler, m_SerialPortHandlerMap, m_HdlcdServerHandlerList>>
  BY DEF Signal, Handle, objects, collections
<1>2. Begins({}, {})
  BY <1>1, Beginning
<1> QED
  BY <1>1, <1>2, BeginFollows

(* main stops the clients.                                                 *)
LEMMA ShutdownFollows ==
  ASSUME FollowInv, CollectionInv', Shutdown
  PROVE  FollowInv'
<1>1. /\ daemon = "shutdown" /\ calls = <<>>
      /\ calls' = <<>> \/ \E x \in Clients: calls' = ForClient("StopClient", x)
      /\ UNCHANGED <<client, handler, m_SerialPortHandlerMap, m_HdlcdServerHandlerList>>
  BY DEF Shutdown, objects, collections, FollowInv, CollectionInv, ObjectTypes
<1>2. CASE calls' = <<>>
  <2>1. Begins({}, {})
    BY <1>2, Beginning
  <2> QED
    BY <1>1, <2>1, BeginFollows
<1>3. ASSUME NEW x \in Clients, calls' = ForClient("StopClient", x)
      PROVE  FollowInv'
  <2>1. PICK a \in CallType: a = OnClient("StopClient", x) /\ a.do = "StopClient"
    <3>1. OnClient("StopClient", x) \in CallType
      BY NewCalls
    <3> QED
      BY <3>1 DEF OnClient
  <2>2. calls' = <<a>>
    BY <1>3, <2>1 DEF ForClient, OnClient
  <2>3. Begins({a}, {a})
    BY <2>2, Beginning
  <2> QED
    BY <1>1, <2>1, <2>3, BeginFollows
<1> QED
  BY <1>1, <1>2, <1>3

(* A connection is accepted.                                               *)
LEMMA DoAcceptFollows ==
  ASSUME FollowInv, CollectionInv', DoAccept
  PROVE  FollowInv'
<1>1. /\ daemon = "running" /\ daemon' = daemon /\ calls = <<>> /\ calls' = <<>>
      /\ UNCHANGED <<handler, m_SerialPortHandlerMap>>
  BY DEF DoAccept, Handle
<1>2. PICK x \in UnusedClients:
        /\ client' = [client EXCEPT ![x] = [NoClient EXCEPT !.exists = TRUE, !.m_Registered = TRUE]]
        /\ m_HdlcdServerHandlerList' = m_HdlcdServerHandlerList \cup {x}
  <2>1. (CHOOSE y \in UnusedClients: TRUE) \in UnusedClients
    BY DEF DoAccept
  <2> QED
    BY <2>1 DEF DoAccept
<1>3. /\ CollectionInv /\ Pending = {} /\ Members /\ Released /\ InServerList /\ Ports /\ Locks
      /\ Bounded /\ Subscriptions
      /\ \A do, h: ~AtTop(do, h)
      /\ \A y, h: ~Waits(y, h) /\ ~AwaitsStop(y, h)
  BY <1>1, AtRest
<1>4. x \in Clients /\ ~client[x].exists /\ \A h \in Handlers: ~Listed(h, x)
  <2>1. x \in Clients /\ ~client[x].exists /\ \A h \in Handlers: ~Contains(handler[h].clients, x)
    BY DEF UnusedClients
  <2>2. \A h \in Handlers: DOMAIN handler[h].clients = 1..Len(handler[h].clients)
    BY <1>3, ListFacts
  <2> QED
    BY <2>1, <2>2 DEF Contains, Listed
<1> DEFINE new == [NoClient EXCEPT !.exists = TRUE, !.m_Registered = TRUE]
<1>5. /\ new.exists = TRUE /\ new.m_Registered = TRUE /\ new.m_SerialPortHandlerStopper = None
      /\ new.m_bLockedBySelf = FALSE
  BY DEF NoClient
<1>6. client' = [client EXCEPT ![x] = new]
  BY <1>2
<1> HIDE DEF new
<1>7. /\ client'[x] = new /\ Stopper(x)' = None
      /\ \A y \in Clients: y # x => client'[y] = client[y] /\ Stopper(y)' = Stopper(y)
  BY <1>3, <1>4, <1>5, <1>6, ClientReplaced
<1>8. Stopper(x) = None
  BY <1>3, <1>4 DEF Released
<1>9. Begins({}, {})
  BY <1>1, Beginning
<1>10. Pending' = {} /\ \A do \in {"Stop", "Open", "Resume"}: \A h: ~AtTop(do, h)'
  BY <1>9 DEF Begins, TopIs
<1>11. Lives'
  <2>1. Members'
    <3> SUFFICES ASSUME NEW y \in Clients, NEW g \in Handlers, Member(y, g)'
                 PROVE  Listed(g, y)' /\ handler'[g].m_Registered
      BY DEF Members
    <3>1. client'[y].m_Registered /\ Stopper(y)' = g
      BY <1>10 DEF Member, Waits
    <3>2. y # x
      BY <1>7, <3>1, ConstantsAssumption
    <3>3. Member(y, g)
      BY <1>7, <3>1, <3>2 DEF Member
    <3> QED
      BY <1>1, <1>3, <3>3 DEF Members, Listed
  <2>2. \A y \in Clients: ~client'[y].exists => Stopper(y)' = None
    BY <1>3, <1>7 DEF Released
  <2>3. InServerList'
    <3>1. \A y \in Clients: client'[y].m_Registered <=> client[y].m_Registered \/ y = x
      BY <1>5, <1>7
    <3> QED
      BY <1>2, <1>3, <3>1 DEF InServerList
  <2> QED
    BY <1>10, <2>1, <2>2, <2>3 DEF Lives, Released
<1>12. Ports'
  <2>1. ASSUME NEW g \in Handlers, handler'[g].m_Registered
        PROVE  \E y \in Clients: Stopper(y)' = g
    <3>1. PICK y \in Clients: Stopper(y) = g
      BY <1>1, <1>3, <2>1 DEF Ports, Wanted
    <3>2. y # x
      BY <1>8, <3>1, ConstantsAssumption
    <3> QED
      BY <1>7, <3>1, <3>2
  <2>2. Wanted'
    BY <2>1 DEF Wanted
  <2>3. Mapped'
    BY <1>1, <1>3 DEF Ports, Mapped
  <2> QED
    BY <2>2, <2>3 DEF Ports
<1>13. SteadyLocks
  <2>1. ASSUME NEW g \in Handlers
        PROVE  Holders(g)' = Holders(g)
    <3>1. Stopper(x) # g /\ Stopper(x)' # g
      BY <1>7, <1>8, ConstantsAssumption
    <3>2. \A y \in Clients: y \in Holders(g)' <=> y \in Holders(g)
      BY <1>7, <3>1 DEF Holders
    <3> QED
      BY <3>2 DEF Holders
  <2>2. PortsKept
    BY <1>1, SamePorts
  <2> QED
    BY <1>3, <1>10, <2>1, <2>2 DEF SteadyLocks, PortsKept, PortKept
<1>14. SteadyIterations
  BY <1>1, <1>3, <1>9, NoneBegins
<1>15. SteadyCounts /\ SteadyBounds
  BY <1>1, <1>4, <1>7 DEF SteadyCounts, SteadyBounds, Counters, Listed
<1> QED
  BY <1>3, <1>11, <1>12, <1>13, <1>14, <1>15, LocksStep, BoundsStep, SubscriptionsStep DEF FollowInv

(* Who holds a lock after one is taken or given back.                      *)
LEMMA HoldersChange ==
  ASSUME CollectionInv, NEW x \in Clients, NEW locked \in BOOLEAN, LockChanged(x, locked),
         NEW h \in Handlers, Stopper(x) = h
  PROVE  /\ SameLives /\ \A y \in Clients: client'[y].m_eBufferType = client[y].m_eBufferType
         /\ \A g \in Handlers: Holders(g)' = IF g # h THEN Holders(g)
                                           ELSE IF locked THEN Holders(h) \cup {x} ELSE Holders(h) \ {x}
<1>1. SameLives
  BY LockChangedFacts
<1>2. PICK old \in ClientType: old = client[x]
  BY DEF CollectionInv, ObjectTypes
<1> DEFINE new == [old EXCEPT !.m_bLockedBySelf = locked]
<1>3. new.m_bLockedBySelf = locked /\ new.m_eBufferType = old.m_eBufferType
  BY DEF ClientType
<1>4. client' = [client EXCEPT ![x] = new]
  BY <1>2 DEF LockChanged
<1> HIDE DEF new
<1>5. client'[x] = new /\ \A y \in Clients: y # x => client'[y] = client[y]
  BY <1>4, ClientReplaced
<1>6. \A y \in Clients: client'[y].m_eBufferType = client[y].m_eBufferType
  BY <1>2, <1>3, <1>5
<1>7. \A y \in Clients: Stopper(y)' = Stopper(y)
  BY <1>1 DEF SameLives
<1>8. \A g \in Handlers: Holders(g) \subseteq Clients /\ Holders(g)' \subseteq Clients
  BY DEF Holders
<1>9. ASSUME NEW g \in Handlers
      PROVE  Holders(g)' = IF g # h THEN Holders(g)
                           ELSE IF locked THEN Holders(h) \cup {x} ELSE Holders(h) \ {x}
  <2>1. CASE g # h
    <3>1. \A y \in Clients: y \in Holders(g)' <=> y \in Holders(g)
      BY <1>5, <1>7, <2>1 DEF Holders
    <3> QED
      BY <1>8, <2>1, <3>1
  <2>2. CASE g = h
    <3>1. \A y \in Clients: y \in Holders(g)' <=> IF y = x THEN locked ELSE y \in Holders(h)
      BY <1>3, <1>5, <1>7, <2>2 DEF Holders
    <3>2. Holders(g)' \subseteq Clients /\ Holders(h) \subseteq Clients
      BY <1>8
    <3>3. CASE locked
      BY <2>2, <3>1, <3>2, <3>3
    <3>4. CASE ~locked
      BY <2>2, <3>1, <3>2, <3>4
    <3> QED
      BY <3>3, <3>4
  <2> QED
    BY <2>1, <2>2
<1> QED
  BY <1>1, <1>6, <1>9

(* A client is a member of a port that is registered when nothing goes on. *)
LEMMA AttachedPort ==
  ASSUME FollowInv, calls = <<>>, daemon # "failed", NEW x \in Clients, client[x].m_Registered, Stopper(x) # None
  PROVE  Stopper(x) \in Handlers /\ handler[Stopper(x)].m_Registered /\ Listed(Stopper(x), x)
<1>1. CollectionInv /\ Members /\ \A h: ~AwaitsStop(x, h)
  BY AtRest
<1>2. PICK h \in Handlers: h = Stopper(x)
  BY <1>1 DEF CollectionInv, ObjectTypes, ClientType, Stopper
<1>3. Member(x, h)
  BY <1>2 DEF Member
<1> QED
  BY <1>1, <1>2, <1>3 DEF Members

(* A client gives back its lock, and the port will count it.               *)
LEMMA ReleaseLockFollows ==
  ASSUME FollowInv, CollectionInv', NEW x \in Clients, ReleaseLock(x)
  PROVE  FollowInv'
<1>1. /\ daemon = "running" /\ daemon' = daemon /\ calls = <<>> /\ calls' = ForHandler("Resume", Stopper(x))
      /\ LockChanged(x, FALSE) /\ client[x].m_bLockedBySelf
      /\ UNCHANGED <<handler, m_SerialPortHandlerMap, m_HdlcdServerHandlerList>>
  BY DEF ReleaseLock, Handle, Attached, LockChanged, Stopper, collections
<1>2. PICK h \in Handlers: h = Stopper(x)
  BY <1>1, AttachedPort DEF LockChanged
<1>3. CollectionInv /\ Pending = {} /\ Locks /\ \A do, g: ~AtTop(do, g)
  BY <1>1, AtRest
<1>4. /\ SameLives /\ \A y \in Clients: client'[y].m_eBufferType = client[y].m_eBufferType
      /\ \A g \in Handlers: Holders(g)' = IF g # h THEN Holders(g) ELSE Holders(h) \ {x}
  <2>1. PICK locked \in BOOLEAN: locked = FALSE
    OBVIOUS
  <2>2. LockChanged(x, locked) /\ Stopper(x) = h
    BY <1>1, <1>2, <2>1
  <2>3. /\ SameLives /\ \A y \in Clients: client'[y].m_eBufferType = client[y].m_eBufferType
        /\ \A g \in Handlers: Holders(g)' = IF g # h THEN Holders(g)
                                             ELSE IF locked THEN Holders(h) \cup {x} ELSE Holders(h) \ {x}
    BY <1>3, <2>2, HoldersChange
  <2> QED
    BY <2>1, <2>3
<1>5. PICK a \in CallType: a = OnPort("Resume", h) /\ a.do = "Resume" /\ a.handler = h
  <2>1. OnPort("Resume", h) \in CallType
    BY NewCalls
  <2> QED
    BY <2>1 DEF OnPort
<1>6. Begins({a}, {a})
  <2>1. calls' = <<a>>
    BY <1>1, <1>2, <1>5 DEF ForHandler, OnPort
  <2> QED
    BY <2>1, Beginning
<1>7. SteadyLives /\ SteadyPorts
  BY <1>1, <1>3, <1>4, <1>5, <1>6, SteadyBeginning
<1>8. SteadyIterations
  BY <1>1, <1>3, <1>5, <1>6, NoneBegins
<1>9. SteadyCounts /\ SteadyBounds
  BY <1>1, <1>4 DEF SteadyCounts, SteadyBounds, Counters, SameLives
<1>10. \A g: ~AtTop("Open", g)' /\ (AtTop("Resume", g)' <=> g = h)
  BY <1>5, <1>6 DEF Begins, TopIs
<1>11. ASSUME NEW g \in Handlers
       PROVE  Cardinality(Holders(g)) + 0 = Cardinality(Holders(g)') + (IF AtTop("Resume", g)' THEN 1 ELSE 0)
  <2>0. Cardinality(Holders(g)) \in Nat
    BY ClientsFacts DEF Holders
  <2>1. CASE g = h
    <3>1. x \in Holders(h) /\ Holders(h) \in SUBSET Clients
      BY <1>1, <1>2 DEF Holders
    <3>2. Cardinality(Holders(h)) = Cardinality(Holders(h) \ {x}) + 1
      BY <3>1, OneHolderFewer
    <3> QED
      <4>1. Holders(g)' = Holders(h) \ {x}
        BY <1>4, <2>1
      <4>2. AtTop("Resume", g)'
        BY <1>10, <2>1
      <4>3. Cardinality(Holders(g)) = Cardinality(Holders(h) \ {x}) + 1
        BY <2>1, <3>2
      <4> QED
        BY <2>0, <4>1, <4>2, <4>3
  <2>2. CASE g # h
    BY <1>4, <1>10, <2>2
  <2> QED
    BY <2>1, <2>2
<1>12. Locks'
  <2>1. LocksCounted'
    BY <1>1, <1>3, <1>11 DEF Locks, LocksCounted
  <2>2. OpenUnlessLocked'
    BY <1>1, <1>3, <1>10 DEF Locks, OpenUnlessLocked
  <2> QED
    BY <2>1, <2>2 DEF Locks
<1> QED
  BY <1>1, <1>3, <1>7, <1>8, <1>9, <1>12, AtRest, LivesStep, PortsStep, BoundsStep, SubscriptionsStep DEF FollowInv

(* A client locks its port.                                                *)
LEMMA AcquireLockFollows ==
  ASSUME FollowInv, CollectionInv', NEW x \in Clients, AcquireLock(x)
  PROVE  FollowInv'
<1>1. /\ daemon = "running" /\ daemon' = daemon /\ calls = <<>>
      /\ calls' = (IF handler[Stopper(x)].open THEN ForHandler("Propagate", Stopper(x)) ELSE <<>>)
                  \o ForHandler("Propagate", Stopper(x))
      /\ handler' = [handler EXCEPT ![Stopper(x)].m_NbrOfLocks = @ + 1, ![Stopper(x)].open = FALSE]
      /\ LockChanged(x, TRUE) /\ ~client[x].m_bLockedBySelf
      /\ UNCHANGED <<m_SerialPortHandlerMap, m_HdlcdServerHandlerList>>
  BY DEF AcquireLock, Handle, Attached, LockChanged, Stopper, collections
<1>2. PICK h \in Handlers: h = Stopper(x) /\ handler[h].m_Registered
  BY <1>1, AttachedPort DEF LockChanged
<1>3. CollectionInv /\ Bounded /\ Pending = {} /\ Locks /\ \A do, g: ~AtTop(do, g)
  BY <1>1, AtRest
<1>4. /\ SameLives /\ \A y \in Clients: client'[y].m_eBufferType = client[y].m_eBufferType
      /\ \A g \in Handlers: Holders(g)' = IF g # h THEN Holders(g) ELSE Holders(h) \cup {x}
  <2>1. PICK locked \in BOOLEAN: locked = TRUE
    OBVIOUS
  <2>2. LockChanged(x, locked) /\ Stopper(x) = h
    BY <1>1, <1>2, <2>1
  <2>3. /\ SameLives /\ \A y \in Clients: client'[y].m_eBufferType = client[y].m_eBufferType
        /\ \A g \in Handlers: Holders(g)' = IF g # h THEN Holders(g)
                                             ELSE IF locked THEN Holders(h) \cup {x} ELSE Holders(h) \ {x}
    BY <1>3, <2>2, HoldersChange
  <2> QED
    BY <2>1, <2>3
<1>5. PICK old \in PortType: old = handler[h]
  BY <1>3 DEF CollectionInv, ObjectTypes
<1>6. PICK locks \in Int: locks = old.m_NbrOfLocks + 1
  BY DEF PortType
<1> DEFINE new == [old EXCEPT !.m_NbrOfLocks = locks, !.open = FALSE]
<1>7. /\ new.m_Registered = old.m_Registered /\ new.m_SerialPortName = old.m_SerialPortName
      /\ new.open = FALSE /\ new.m_NbrOfLocks = locks
      /\ new.clients = old.clients /\ new.m_BufferTypeSubscribers = old.m_BufferTypeSubscribers
  BY DEF PortType
<1>8. handler' = [handler EXCEPT ![h] = new]
  BY <1>1, <1>2, <1>5, <1>6
<1> HIDE DEF new
<1>9. /\ handler'[h] = new /\ \A g \in Handlers: g # h => handler'[g] = handler[g]
      /\ \A g \in Handlers: /\ handler'[g].m_SerialPortName = handler[g].m_SerialPortName
                            /\ handler'[g].clients = handler[g].clients
                            /\ Counters(g)' = Counters(g)
  BY <1>3, <1>5, <1>7, <1>8, PortReplaced
<1>10. \A g \in Handlers: /\ handler'[g].m_Registered = handler[g].m_Registered
                          /\ g # h => /\ handler'[g].open = handler[g].open
                                      /\ handler'[g].m_NbrOfLocks = handler[g].m_NbrOfLocks
  BY <1>5, <1>7, <1>9
<1>11. PICK a \in CallType: a = OnPort("Propagate", h) /\ a.do = "Propagate"
  <2>1. OnPort("Propagate", h) \in CallType
    BY NewCalls
  <2> QED
    BY <2>1 DEF OnPort
<1>12. Begins({a}, {a})
  <2>1. CASE handler[h].open
    <3>1. calls' = <<a>> \o <<a>>
      BY <1>1, <1>2, <1>11, <2>1 DEF ForHandler, OnPort
    <3>2. Begins({a, a}, {a})
      BY <1>11, <3>1, Beginning
    <3> QED
      BY <3>2
  <2>2. CASE ~handler[h].open
    <3>1. calls' = <<>> \o <<a>>
      BY <1>1, <1>2, <1>11, <2>2 DEF ForHandler, OnPort
    <3>2. <<>> \o <<a>> = <<a>>
      BY <1>11, OneCall, NoCalls, JoinFacts
    <3> QED
      BY <1>11, <3>1, <3>2, Beginning
  <2> QED
    BY <2>1, <2>2
<1>13. SteadyLives /\ SteadyPorts
  <2>1. \A g \in Handlers: /\ handler'[g].m_Registered = handler[g].m_Registered
                           /\ handler'[g].m_SerialPortName = handler[g].m_SerialPortName
                           /\ handler'[g].clients = handler[g].clients
    BY <1>9, <1>10
  <2>2. PICK N: Begins(N, N) /\ \A c \in N: c.do \notin {"Attach", "DestroyClient"}
    <3>1. \A c \in {a}: c.do \notin {"Attach", "DestroyClient"}
      BY <1>11
    <3> QED
      BY <1>12, <3>1
  <2>3. calls = <<>> /\ UNCHANGED <<m_SerialPortHandlerMap, m_HdlcdServerHandlerList>>
    BY <1>1
  <2> QED
    BY <1>3, <1>4, <2>1, <2>2, <2>3, SteadyBeginning
<1>14. SteadyIterations
  BY <1>1, <1>3, <1>11, <1>12, NoneBegins
<1>15. SteadyCounts
  BY <1>4, <1>9, <1>10, SteadySubscriptions
<1>16. \A g: ~AtTop("Open", g)' /\ ~AtTop("Resume", g)'
  BY <1>11, <1>12 DEF Begins, TopIs
<1>17. PICK held \in Nat: held = Cardinality(Holders(h))
  BY ClientsFacts DEF Holders
<1>18. Cardinality(Holders(h) \cup {x}) = held + 1 /\ held + 1 <= Cardinality(Clients)
  <2>1. x \notin Holders(h) /\ IsFiniteSet(Holders(h)) /\ Holders(h) \cup {x} \in SUBSET Clients
    BY <1>1, ConstantsAssumption, FS_Subset DEF Holders
  <2>2. Cardinality(Holders(h) \cup {x}) = held + 1
    BY <1>17, <2>1, FS_AddElement
  <2> QED
    BY <2>1, <2>2, ClientsFacts
<1>19. locks = held + 1
  <2>1. handler[h].m_NbrOfLocks = held + 0
    BY <1>2, <1>3, <1>17 DEF Locks, LocksCounted
  <2> QED
    BY <1>5, <1>6, <1>17, <2>1
<1>20. Bounded'
  <2>1. SteadyBoundsBut(h)
    BY <1>9, <1>10 DEF SteadyBoundsBut
  <2>2. handler'[h].m_NbrOfLocks \in 0..Cardinality(Clients)
    BY <1>7, <1>9, <1>17, <1>18, <1>19, ClientsFacts
  <2> QED
    BY <1>3, <2>1, <2>2, BoundsBut
<1>21. Locks'
  <2>1. LocksCounted'
    <3> SUFFICES ASSUME NEW g \in Handlers, handler'[g].m_Registered
                 PROVE  handler'[g].m_NbrOfLocks = Cardinality(Holders(g)') + 0
      BY <1>16 DEF LocksCounted
    <3>1. CASE g = h
      <4>1. Holders(g)' = Holders(h) \cup {x}
        BY <1>4, <3>1
      <4>2. handler'[g].m_NbrOfLocks = held + 1
        BY <1>7, <1>9, <1>19, <3>1
      <4> QED
        BY <1>17, <1>18, <4>1, <4>2
    <3>2. CASE g # h
      <4>1. handler[g].m_NbrOfLocks = Cardinality(Holders(g)) + 0
        BY <1>3, <1>10 DEF Locks, LocksCounted
      <4> QED
        BY <1>4, <1>10, <3>2, <4>1
    <3> QED
      BY <3>1, <3>2
  <2>2. OpenUnlessLocked'
    <3> SUFFICES ASSUME NEW g \in Handlers, handler'[g].m_Registered
                 PROVE  handler'[g].open <=> handler'[g].m_NbrOfLocks = 0
      BY <1>16 DEF OpenUnlessLocked
    <3>1. CASE g = h
      BY <1>7, <1>9, <1>17, <1>19, <3>1
    <3>2. CASE g # h
      BY <1>3, <1>10, <3>2 DEF Locks, OpenUnlessLocked
    <3> QED
      BY <3>1, <3>2
  <2> QED
    BY <2>1, <2>2 DEF Locks
<1> QED
  BY <1>1, <1>3, <1>13, <1>14, <1>15, <1>20, <1>21, AtRest, LivesStep, PortsStep, SubscriptionsStep DEF FollowInv

-----------------------------------------------------------------------------
(* A client is entered in the list of a port.                              *)

\* Client x is entered with a buffer type in h; list and counts are what the
\* port has before that, which is nothing when it is new.
Enters(x, type, h, port, list, counts) ==
  /\ calls = <<>> /\ daemon = "running" /\ daemon' = daemon
  /\ m_HdlcdServerHandlerList' = m_HdlcdServerHandlerList
  /\ client[x].m_Registered /\ Stopper(x) = None
  /\ client' = [client EXCEPT ![x].m_eBufferType = type]
  /\ handler' = [handler EXCEPT ![h] = port]
  /\ port.m_Registered /\ port.clients = Append(list, x)
  /\ port.m_BufferTypeSubscribers = [counts EXCEPT ![type] = @ + 1]
  /\ IF handler[h].m_Registered THEN list = handler[h].clients /\ counts = Counters(h)
                                ELSE list = <<>> /\ counts = NoSubscribers

(* Only the buffer type of one client changes.                             *)
LEMMA SessionTypes ==
  ASSUME CollectionInv, NEW x \in Clients, NEW type \in BufferTypes,
         client' = [client EXCEPT ![x].m_eBufferType = type]
  PROVE  /\ SameLives /\ \A h \in Handlers: Holders(h)' = Holders(h)
         /\ client'[x].m_eBufferType = type
         /\ \A y \in Clients: y # x => client'[y].m_eBufferType = client[y].m_eBufferType
<1>1. SameLives /\ \A y \in Clients: client'[y].m_bLockedBySelf = client[y].m_bLockedBySelf
  BY SessionFacts
<1>2. PICK old \in ClientType: old = client[x]
  BY DEF CollectionInv, ObjectTypes
<1> DEFINE new == [old EXCEPT !.m_eBufferType = type]
<1>3. new.m_eBufferType = type
  BY DEF ClientType
<1>4. client' = [client EXCEPT ![x] = new]
  BY <1>2
<1> HIDE DEF new
<1>5. client'[x] = new /\ \A y \in Clients: y # x => client'[y] = client[y]
  BY <1>4, ClientReplaced
<1>6. ASSUME NEW h \in Handlers
      PROVE  Holders(h)' = Holders(h)
  <2>1. \A y \in Clients: y \in Holders(h)' <=> y \in Holders(h)
    BY <1>1 DEF Holders, SameLives
  <2> QED
    BY <2>1 DEF Holders
<1> QED
  BY <1>1, <1>3, <1>5, <1>6

(* What changes with the entry.                                            *)
LEMMA EnteredFacts ==
  ASSUME CollectionInv, NEW x \in Clients, NEW type \in BufferTypes, NEW h \in Handlers, NEW port \in PortType,
         NEW list \in Seq(Clients), NEW counts, Enters(x, type, h, port, list, counts)
  PROVE  /\ handler'[h] = port /\ \A g \in Handlers: g # h => handler'[g] = handler[g]
         /\ \A g \in Handlers: ~Listed(g, x)
         /\ \A g \in Handlers: g # h => \A y: Listed(g, y)' <=> Listed(g, y)
         /\ \A y: Listed(h, y)' <=> y = x \/ \E i \in DOMAIN list: list[i] = y
         /\ handler[h].m_Registered => \A y: Listed(h, y) => Listed(h, y)'
         /\ Len(handler'[h].clients) = Len(list) + 1 /\ Len(list) \in Nat
<1>1. handler'[h] = port /\ \A g \in Handlers: g # h => handler'[g] = handler[g]
  BY DEF Enters, CollectionInv, ObjectTypes
<1>2. \A g \in Handlers: ~Listed(g, x)
  <2>1. client[x].exists /\ calls = <<>> /\ daemon # "failed"
    BY DEF Enters, CollectionInv, Objects
  <2> QED
    BY <2>1, Idle, ConstantsAssumption DEF Enters
<1> DEFINE longer == Append(list, x)
<1>3. /\ longer \in Seq(Clients) /\ Len(longer) = Len(list) + 1 /\ Len(list) \in Nat
      /\ DOMAIN longer = 1..(Len(list) + 1) /\ DOMAIN list = 1..Len(list)
      /\ longer[Len(list) + 1] = x
      /\ \A i \in DOMAIN list: longer[i] = list[i]
  BY AppendProperties, LenProperties
<1> HIDE DEF longer
<1>4. handler'[h].clients = longer
  BY <1>1 DEF longer, Enters
<1>5. ASSUME NEW y
      PROVE  (\E i \in DOMAIN longer: longer[i] = y) <=> y = x \/ \E i \in DOMAIN list: list[i] = y
  <2>1. \A i \in DOMAIN longer: (i \in DOMAIN list /\ longer[i] = list[i]) \/ longer[i] = x
    BY <1>3
  <2>2. Len(list) + 1 \in DOMAIN longer /\ DOMAIN list \subseteq DOMAIN longer
    BY <1>3
  <2> QED
    BY <1>3, <2>1, <2>2
<1>6. \A y: Listed(h, y)' <=> y = x \/ \E i \in DOMAIN list: list[i] = y
  BY <1>4, <1>5 DEF Listed
<1>7. \A g \in Handlers: g # h => \A y: Listed(g, y)' <=> Listed(g, y)
  BY <1>1 DEF Listed
<1>8. ASSUME handler[h].m_Registered, NEW y, Listed(h, y)
      PROVE  Listed(h, y)'
  <2>1. list = handler[h].clients
    BY <1>8 DEF Enters
  <2>2. \E i \in DOMAIN list: list[i] = y
    BY <1>8, <2>1 DEF Listed
  <2> QED
    BY <1>6, <2>2
<1> QED
  BY <1>1, <1>2, <1>3, <1>4, <1>6, <1>7, <1>8

(* The client that was entered waits to be attached.                       *)
LEMMA EnteredLives ==
  ASSUME FollowInv, NEW x \in Clients, NEW type \in BufferTypes, NEW h \in Handlers, NEW port \in PortType,
         NEW list \in Seq(Clients), NEW counts, Enters(x, type, h, port, list, counts),
         NEW b, b.do = "Attach", b.client = x, b.handler = h,
         NEW N, Pending' = N, b \in N, \A c \in N: c = b \/ c.do \in {"Propagate", "Open"}
  PROVE  Lives' /\ Wanted' /\ \A y, g: Waits(y, g)' <=> y = x /\ g = h
<1>1. calls = <<>> /\ daemon # "failed"
  BY DEF Enters
<1>2. /\ CollectionInv /\ Members /\ Released /\ InServerList /\ Wanted /\ Mapped /\ Pending = {}
      /\ \A do, g: ~AtTop(do, g)
      /\ \A y, g: ~Waits(y, g) /\ ~AwaitsStop(y, g)
  BY <1>1, AtRest DEF Ports
<1>3. SameLives
  BY <1>2, SessionTypes DEF Enters
<1>4. /\ handler'[h] = port /\ \A g \in Handlers: g # h => handler'[g] = handler[g]
      /\ \A g \in Handlers: g # h => \A y: Listed(g, y)' <=> Listed(g, y)
      /\ handler[h].m_Registered => \A y: Listed(h, y) => Listed(h, y)'
      /\ Listed(h, x)' /\ handler'[h].m_Registered
  <2>1. /\ handler'[h] = port /\ \A g \in Handlers: g # h => handler'[g] = handler[g]
        /\ \A g \in Handlers: g # h => \A y: Listed(g, y)' <=> Listed(g, y)
        /\ handler[h].m_Registered => \A y: Listed(h, y) => Listed(h, y)'
        /\ \A y: Listed(h, y)' <=> y = x \/ \E i \in DOMAIN list: list[i] = y
    BY <1>2, EnteredFacts
  <2>2. port.m_Registered
    BY DEF Enters
  <2> QED
    BY <2>1, <2>2
<1>5. \A y, g: Waits(y, g)' <=> y = x /\ g = h
  BY DEF Waits
<1>6. Members'
  <2> SUFFICES ASSUME NEW y \in Clients, NEW g \in Handlers, Member(y, g)'
               PROVE  Listed(g, y)' /\ handler'[g].m_Registered
    BY DEF Members
  <2>1. CASE y = x /\ g = h
    BY <1>4, <2>1
  <2>2. CASE ~(y = x /\ g = h)
    <3>1. client[y].m_Registered /\ Stopper(y) = g
      BY <1>3, <1>5, <2>2 DEF Member, SameLives
    <3>2. Listed(g, y) /\ handler[g].m_Registered
      BY <1>2, <3>1 DEF Members, Member
    <3>3. CASE g = h
      BY <1>4, <3>2, <3>3
    <3>4. CASE g # h
      BY <1>4, <3>2, <3>4
    <3> QED
      BY <3>3, <3>4
  <2> QED
    BY <2>1, <2>2
<1>7. Released'
  <2>1. \A y \in Clients: ~client'[y].exists => Stopper(y)' = None
    BY <1>2, <1>3 DEF Released, SameLives
  <2>2. \A c \in Pending': c.do # "DestroyClient"
    OBVIOUS
  <2> QED
    BY <2>1, <2>2 DEF Released
<1>8. InServerList'
  BY <1>2, <1>3 DEF InServerList, SameLives, Enters
<1>9. Wanted'
  <2> SUFFICES ASSUME NEW g \in Handlers, handler'[g].m_Registered
               PROVE  \E y \in Clients: Stopper(y)' = g \/ Waits(y, g)'
    BY DEF Wanted
  <2>1. CASE g = h
    BY <1>5, <2>1
  <2>2. CASE g # h
    <3>1. handler[g].m_Registered
      BY <1>4, <2>2
    <3>2. \E y \in Clients: Stopper(y) = g
      BY <1>2, <3>1 DEF Wanted
    <3> QED
      BY <1>3, <3>2 DEF SameLives
  <2> QED
    BY <2>1, <2>2
<1> QED
  BY <1>5, <1>6, <1>7, <1>8, <1>9 DEF Lives

(* The counters count the entry.                                           *)
LEMMA EnteredSubscriptions ==
  ASSUME FollowInv, CollectionInv', NEW x \in Clients, NEW type \in BufferTypes, NEW h \in Handlers,
         NEW port \in PortType, NEW list \in Seq(Clients), NEW counts \in [BufferTypes -> Nat],
         Enters(x, type, h, port, list, counts),
         \A c \in Pending': c.do # "ForEach", \A g: ~AtTop("ForEach", g)',
         port.m_NbrOfLocks \in 0..Cardinality(Clients)
  PROVE  Subscriptions' /\ Bounded'
<1>1. calls = <<>> /\ daemon # "failed"
  BY DEF Enters
<1>2. CollectionInv /\ Bounded /\ Subscriptions /\ Pending = {} /\ \A do, g: ~AtTop(do, g)
  BY <1>1, AtRest
<1>3. SameLives /\ client'[x].m_eBufferType = type
      /\ \A y \in Clients: y # x => client'[y].m_eBufferType = client[y].m_eBufferType
  BY <1>2, SessionTypes DEF Enters
<1>4. /\ handler'[h] = port /\ \A g \in Handlers: g # h => handler'[g] = handler[g]
      /\ \A g \in Handlers: ~Listed(g, x)
      /\ \A g \in Handlers: g # h => \A y: Listed(g, y)' <=> Listed(g, y)
      /\ \A y: Listed(h, y)' <=> y = x \/ \E i \in DOMAIN list: list[i] = y
      /\ Len(handler'[h].clients) = Len(list) + 1 /\ Len(list) \in Nat
  BY <1>2, EnteredFacts
<1>5. /\ \A g \in Handlers: ~Counting(g) /\ ~Counting(g)' /\ ~WillCount(g) /\ ~WillCount(g)'
      /\ Recounts'
  <2>1. ~(Running("ForEach"))'
    <3>1. ASSUME calls' # <<>>, Top'.do = "ForEach"
          PROVE  FALSE
      <4>1. PICK g: g = Top'.handler
        OBVIOUS
      <4>2. AtTop("ForEach", g)'
        BY <3>1, <4>1 DEF AtTop, Running, Top
      <4> QED
        BY <4>2
    <3> QED
      BY <3>1 DEF Running, Top
  <2> QED
    BY <1>2, <2>1 DEF Counting, WillCount, Recounts
<1>6. Total(counts) = Len(list)
  <2>1. CASE handler[h].m_Registered
    BY <1>2, <1>5, <2>1 DEF Enters, Subscriptions, Balanced
  <2>2. CASE ~handler[h].m_Registered
    BY <2>2 DEF Enters, Total, NoSubscribers, BufferTypes
  <2> QED
    BY <2>1, <2>2
<1> DEFINE more == [counts EXCEPT ![type] = @ + 1]
<1>7. /\ Total(more) = Total(counts) + 1 /\ more[type] = counts[type] + 1
      /\ \A t \in BufferTypes: counts[t] \in Nat /\ (t # type => more[t] = counts[t])
  BY TotalFacts
<1>8. Counters(h)' = more
  BY <1>4 DEF Enters, Counters
<1> HIDE DEF more
<1>9. Total(Counters(h))' = Len(handler'[h].clients)
  <2>1. Total(Counters(h))' = Total(more)
    BY <1>8 DEF Total
  <2> QED
    BY <1>4, <1>6, <1>7, <2>1
<1>10. \A g \in Handlers: g # h => Counters(g)' = Counters(g) /\ Total(Counters(g))' = Total(Counters(g))
  BY <1>4 DEF Counters, Total
<1>11. Bounded'
  <2>1. Len(handler'[h].clients) <= Cardinality(Clients)
    <3>1. PICK longer \in Seq(Clients): longer = handler'[h].clients
      BY <1>4 DEF PortType
    <3>2. \A i, j \in DOMAIN longer: longer[i] = longer[j] => i = j
      BY <3>1 DEF CollectionInv, Lists
    <3> QED
      BY <3>1, <3>2, ListLength
  <2>2. ASSUME NEW g \in Handlers
        PROVE  handler'[g].m_NbrOfLocks \in 0..Cardinality(Clients) /\ Total(Counters(g))' <= Cardinality(Clients)
    <3>1. CASE g = h
      <4>1. Total(Counters(g))' = Len(handler'[h].clients)
        BY <1>9, <3>1
      <4> QED
        BY <1>4, <2>1, <3>1, <4>1
    <3>2. CASE g # h
      BY <1>2, <1>4, <1>10, <3>2 DEF Bounded
    <3> QED
      BY <3>1, <3>2
  <2> QED
    BY <2>2 DEF Bounded
<1>12. ASSUME NEW g \in Handlers, handler'[g].m_Registered
       PROVE  Balanced(g)' /\ Subscribed(g)'
  <2>1. CASE g # h
    <3>1. handler[g].m_Registered /\ Balanced(g) /\ Subscribed(g) /\ handler'[g] = handler[g]
      BY <1>2, <1>4, <1>12, <2>1 DEF Subscriptions
    <3>2. Balanced(g)'
      BY <1>5, <1>10, <2>1, <3>1 DEF Balanced
    <3>3. ASSUME NEW t \in BufferTypes
          PROVE  Counters(g)'[t] >= Cardinality(LiveOf(g, t, Clients)')
      <4>1. \A y \in Clients: y \in LiveOf(g, t, Clients)' <=> y \in LiveOf(g, t, Clients)
        BY <1>3, <1>4, <2>1 DEF LiveOf, SameLives
      <4>2. LiveOf(g, t, Clients)' = LiveOf(g, t, Clients)
        BY <4>1 DEF LiveOf
      <4>3. Counters(g)[t] >= Cardinality(LiveOf(g, t, Clients))
        BY <1>5, <3>1 DEF Subscribed
      <4> QED
        BY <1>10, <2>1, <4>2, <4>3
    <3> QED
      BY <1>5, <3>2, <3>3 DEF Subscribed
  <2>2. CASE g = h
    <3>1. Balanced(h)'
      BY <1>9 DEF Balanced
    <3>2. ASSUME NEW t \in BufferTypes
          PROVE  Counters(h)'[t] >= Cardinality(LiveOf(h, t, Clients)')
      <4> DEFINE S == {y \in Clients: (\E i \in DOMAIN list: list[i] = y) /\ client[y].exists /\ client[y].m_eBufferType = t}
                 T == LiveOf(h, t, Clients)'
      <4>1. T \subseteq S \cup (IF t = type THEN {x} ELSE {})
        BY <1>3, <1>4 DEF LiveOf, SameLives
      <4>2. S \in SUBSET Clients /\ T \in SUBSET Clients
        BY DEF LiveOf
      <4>3. counts[t] >= Cardinality(S)
        <5>1. CASE handler[h].m_Registered
          <6>1. S = LiveOf(h, t, Clients)
            BY <5>1 DEF Enters, LiveOf, Listed
          <6>2. Counters(h)[t] >= Cardinality(LiveOf(h, t, Clients))
            BY <1>2, <1>5, <5>1 DEF Subscriptions, Subscribed
          <6> QED
            BY <5>1, <6>1, <6>2 DEF Enters
        <5>2. CASE ~handler[h].m_Registered
          <6>1. DOMAIN list = {}
            BY <5>2 DEF Enters
          <6>2. S = {}
            BY <6>1
          <6>3. IsFiniteSet(S) /\ Cardinality(S) = 0
            <7>1. IsFiniteSet(S)
              BY <4>2, ConstantsAssumption, FS_Subset
            <7> HIDE DEF S
            <7> QED
              BY <6>2, <7>1, FS_EmptySet
          <6> QED
            BY <1>7, <6>3
        <5> QED
          BY <5>1, <5>2
      <4> HIDE DEF S, T
      <4>4. CASE t = type
        <5>1. Cardinality(T) <= Cardinality(S) + 1 /\ Cardinality(T) \in Nat /\ Cardinality(S) \in Nat
          BY <4>1, <4>2, <4>4, OneMoreLive
        <5>2. Counters(h)'[t] = counts[t] + 1
          BY <1>7, <1>8, <4>4
        <5> QED
          BY <1>7, <4>3, <5>1, <5>2 DEF T
      <4>5. CASE t # type
        <5>1. T \subseteq S
          BY <4>1, <4>5
        <5>2. Cardinality(T) <= Cardinality(S) /\ Cardinality(S) \in Nat /\ Cardinality(T) \in Nat
          BY <4>2, <5>1, FewerLive
        <5>3. Counters(h)'[t] = counts[t]
          BY <1>7, <1>8, <4>5
        <5> QED
          BY <1>7, <4>3, <5>2, <5>3 DEF T
      <4> QED
        BY <4>4, <4>5
    <3>3. Subscribed(h)'
      BY <1>5, <3>2 DEF Subscribed
    <3> QED
      BY <2>2, <3>1, <3>3
  <2> QED
    BY <2>1, <2>2
<1> QED
  BY <1>5, <1>11, <1>12 DEF Subscriptions

\* new is old with an entry more: x, with a session of the type.
HasEntryMore(new, old, x, type) ==
  /\ new.clients = Append(old.clients, x)
  /\ new.m_BufferTypeSubscribers = [old.m_BufferTypeSubscribers EXCEPT ![type] = @ + 1]
  /\ new.m_Registered = old.m_Registered /\ new.open = old.open
  /\ new.m_SerialPortName = old.m_SerialPortName /\ new.m_NbrOfLocks = old.m_NbrOfLocks

(* This is what Added notes of a port.                                     *)
LEMMA AddedToo ==
  ASSUME NEW old \in PortType, NEW x \in Clients, NEW type \in BufferTypes
  PROVE  Added(old, x, type) \in PortType /\ HasEntryMore(Added(old, x, type), old, x, type)
<1>1. PICK counts: counts = [old.m_BufferTypeSubscribers EXCEPT ![type] = @ + 1]
  OBVIOUS
<1>2. PICK list: list = Append(old.clients, x)
  OBVIOUS
<1>3. Added(old, x, type) = [old EXCEPT !.m_BufferTypeSubscribers = counts, !.clients = list]
  BY <1>1, <1>2 DEF Added, PortType
<1>4. /\ [old EXCEPT !.m_BufferTypeSubscribers = counts, !.clients = list].m_SerialPortName = old.m_SerialPortName
      /\ [old EXCEPT !.m_BufferTypeSubscribers = counts, !.clients = list].m_NbrOfLocks = old.m_NbrOfLocks
      /\ [old EXCEPT !.m_BufferTypeSubscribers = counts, !.clients = list].m_BufferTypeSubscribers = counts
  BY DEF PortType
<1>5. /\ Added(old, x, type).m_SerialPortName = old.m_SerialPortName
      /\ Added(old, x, type).m_NbrOfLocks = old.m_NbrOfLocks
      /\ Added(old, x, type).m_BufferTypeSubscribers = counts
  BY <1>3, <1>4
<1>6. /\ Added(old, x, type) \in PortType
      /\ Added(old, x, type).clients = Append(old.clients, x)
      /\ Added(old, x, type).m_Registered = old.m_Registered
      /\ Added(old, x, type).open = old.open
  BY AddedFacts
<1> QED
  BY <1>1, <1>5, <1>6 DEF HasEntryMore

(* The names keep their ports when only other parts of the ports change.   *)
LEMMA MappedKept ==
  ASSUME Mapped, m_SerialPortHandlerMap' = m_SerialPortHandlerMap,
         \A g \in Handlers: ~AtTop("Stop", g),
         \A g \in Handlers: /\ handler'[g].m_Registered = handler[g].m_Registered
                            /\ handler'[g].m_SerialPortName = handler[g].m_SerialPortName
  PROVE  Mapped'
<1>1. \A n \in Names, g \in Handlers: m_SerialPortHandlerMap'[n] = g =>
        handler'[g].m_Registered /\ handler'[g].m_SerialPortName = n
  BY DEF Mapped
<1>2. ASSUME NEW g \in Handlers, handler'[g].m_Registered
      PROVE  /\ handler'[g].m_SerialPortName \in Names
             /\ m_SerialPortHandlerMap'[handler'[g].m_SerialPortName] = g
  <2>1. handler[g].m_Registered /\ ~AtTop("Stop", g)
    BY <1>2
  <2>2. /\ handler[g].m_SerialPortName \in Names
        /\ m_SerialPortHandlerMap[handler[g].m_SerialPortName] = g
    BY <2>1 DEF Mapped
  <2> QED
    BY <2>2
<1> QED
  BY <1>1, <1>2 DEF Mapped

\* The session header of x, when h has the name.
FindsPort(x, type, h) ==
  /\ AwaitsHeader(x) /\ client' = [client EXCEPT ![x].m_eBufferType = type]
  /\ handler' = [handler EXCEPT ![h] = Added(@, x, type)]
  /\ Handle((IF handler[h].open THEN ForHandler("Propagate", h) ELSE <<>>)
            \o <<[do |-> "Attach", handler |-> h, client |-> x]>>)
  /\ UNCHANGED <<m_SerialPortHandlerMap, m_HdlcdServerHandlerList, daemon>>

(* A client finds the port that has the name.                              *)
LEMMA EntersPort ==
  ASSUME FollowInv, CollectionInv', NEW x \in Clients, NEW type \in BufferTypes, NEW h \in Handlers,
         NEW name \in Names, m_SerialPortHandlerMap[name] = h, FindsPort(x, type, h)
  PROVE  FollowInv'
<1>1. /\ daemon = "running" /\ daemon' = daemon /\ calls = <<>>
      /\ calls' = (IF handler[h].open THEN ForHandler("Propagate", h) ELSE <<>>)
                  \o <<[do |-> "Attach", handler |-> h, client |-> x]>>
      /\ client[x].m_Registered /\ Stopper(x) = None
      /\ UNCHANGED <<m_SerialPortHandlerMap, m_HdlcdServerHandlerList>>
  BY DEF FindsPort, Handle, AwaitsHeader, Stopper
<1>2. CollectionInv /\ Bounded /\ Mapped /\ Locks /\ Pending = {} /\ \A do, g: ~AtTop(do, g)
  BY <1>1, AtRest DEF Ports
<1>3. handler[h].m_Registered
  BY <1>2 DEF Mapped
<1>4. PICK old \in PortType: old = handler[h]
  BY <1>2 DEF CollectionInv, ObjectTypes
<1>5. PICK list \in Seq(Clients): list = old.clients
  BY DEF PortType
<1>6. PICK counts \in [BufferTypes -> Nat]: counts = old.m_BufferTypeSubscribers
  BY DEF PortType
<1>7. PICK port \in PortType:
        /\ handler' = [handler EXCEPT ![h] = port]
        /\ port.m_Registered = old.m_Registered /\ port.open = old.open
        /\ port.m_SerialPortName = old.m_SerialPortName /\ port.m_NbrOfLocks = old.m_NbrOfLocks
        /\ port.clients = Append(list, x)
        /\ port.m_BufferTypeSubscribers = [counts EXCEPT ![type] = @ + 1]
  <2> DEFINE new == Added(old, x, type)
  <2>1. handler' = [handler EXCEPT ![h] = new]
    BY <1>4 DEF FindsPort
  <2>2. new \in PortType /\ HasEntryMore(new, old, x, type)
    BY AddedToo
  <2> HIDE DEF new
  <2> QED
    BY <1>5, <1>6, <2>1, <2>2 DEF HasEntryMore
<1>8. Enters(x, type, h, port, list, counts)
  <2>1. client' = [client EXCEPT ![x].m_eBufferType = type]
    BY DEF FindsPort
  <2> QED
    BY <1>1, <1>3, <1>4, <1>5, <1>6, <1>7, <2>1 DEF Enters, Counters
<1>9. PICK b \in CallType: b = Attaching(h, x) /\ b.do = "Attach" /\ b.handler = h /\ b.client = x
  <2>1. Attaching(h, x) \in CallType
    BY NewCalls
  <2> QED
    BY <2>1 DEF Attaching
<1>10. PICK a \in CallType: a = OnPort("Propagate", h) /\ a.do = "Propagate"
  <2>1. OnPort("Propagate", h) \in CallType
    BY NewCalls
  <2> QED
    BY <2>1 DEF OnPort
<1>11. Begins({a, b}, {a}) \/ Begins({b}, {b})
  <2>1. CASE handler[h].open
    <3>1. calls' = <<a>> \o <<b>>
      BY <1>1, <1>9, <1>10, <2>1 DEF ForHandler, OnPort, Attaching
    <3> QED
      BY <1>9, <1>10, <3>1, Beginning
  <2>2. CASE ~handler[h].open
    <3>1. calls' = <<>> \o <<b>>
      BY <1>1, <1>9, <2>2 DEF Attaching
    <3>2. <<>> \o <<b>> = <<b>>
      BY <1>9, OneCall, NoCalls, JoinFacts
    <3> QED
      BY <1>9, <3>1, <3>2, Beginning
  <2> QED
    BY <2>1, <2>2
<1>12. PICK N \in SUBSET {a, b}: \E first \in SUBSET N: Begins(N, first) /\ b \in N /\ first # {}
  BY <1>11
<1>13. PICK first \in SUBSET N: Begins(N, first) /\ b \in N /\ first # {}
  BY <1>12
<1>14. Pending' = N /\ \A c \in N: c = b \/ c.do \in {"Propagate", "Open"}
  BY <1>10, <1>13 DEF Begins
<1>15. Lives' /\ Wanted'
  BY <1>8, <1>9, <1>13, <1>14, EnteredLives
<1>16. /\ handler'[h] = port /\ \A g \in Handlers: g # h => handler'[g] = handler[g]
  BY <1>2, <1>8, EnteredFacts
<1>17. /\ \A g \in Handlers: /\ handler'[g].m_Registered = handler[g].m_Registered
                             /\ handler'[g].m_SerialPortName = handler[g].m_SerialPortName
                             /\ PortKept(g)
  BY <1>4, <1>7, <1>16 DEF PortKept
<1>18. Mapped'
  BY <1>1, <1>2, <1>17, MappedKept
<1>19. Locks'
  <2>1. \A g \in Handlers: Holders(g)' = Holders(g)
    BY <1>2, <1>8, SessionTypes DEF Enters
  <2>2. \A c \in first: c.do \notin {"Open", "Resume"}
    BY <1>9, <1>10, <1>13
  <2>3. SteadyLocks
    BY <1>1, <1>13, <1>17, <2>1, <2>2, SteadyLocksBeginning
  <2> QED
    BY <1>2, <2>3, LocksStep
<1>20. Subscriptions' /\ Bounded'
  <2>1. \A c \in Pending': c.do # "ForEach"
    BY <1>9, <1>10, <1>13, <1>14
  <2>2. \A g: ~AtTop("ForEach", g)'
    BY <1>9, <1>10, <1>13 DEF Begins, TopIs, AtTop, Running, Top
  <2>3. port.m_NbrOfLocks \in 0..Cardinality(Clients)
    BY <1>2, <1>4, <1>7 DEF Bounded
  <2> QED
    BY <1>8, <2>1, <2>2, <2>3, EnteredSubscriptions
<1> QED
  BY <1>15, <1>18, <1>19, <1>20 DEF FollowInv, Ports

\* The session header of x, when no port has the name, and h is unused.
GetsNewPort(x, name, type, h) ==
  /\ AwaitsHeader(x) /\ client' = [client EXCEPT ![x].m_eBufferType = type]
  /\ handler' = [handler EXCEPT ![h] =
       Added([NoHandler EXCEPT !.m_Registered = TRUE, !.m_SerialPortName = name], x, type)]
  /\ m_SerialPortHandlerMap' = [m_SerialPortHandlerMap EXCEPT ![name] = h]
  /\ Handle(ForHandler("Open", h) \o <<[do |-> "Attach", handler |-> h, client |-> x]>>)
  /\ UNCHANGED <<m_HdlcdServerHandlerList, daemon>>

(* A client gets a new port, which is opened before the client is attached. *)
LEMMA EntersNewPort ==
  ASSUME FollowInv, CollectionInv', NEW x \in Clients, NEW type \in BufferTypes, NEW h \in UnusedHandlers,
         NEW name \in Names, m_SerialPortHandlerMap[name] = None, GetsNewPort(x, name, type, h)
  PROVE  FollowInv'
<1>1. /\ daemon = "running" /\ daemon' = daemon /\ calls = <<>>
      /\ calls' = ForHandler("Open", h) \o <<[do |-> "Attach", handler |-> h, client |-> x]>>
      /\ client[x].m_Registered /\ Stopper(x) = None
      /\ client' = [client EXCEPT ![x].m_eBufferType = type]
      /\ m_HdlcdServerHandlerList' = m_HdlcdServerHandlerList
  BY DEF GetsNewPort, Handle, AwaitsHeader, Stopper
<1>2. /\ CollectionInv /\ Bounded /\ Members /\ Mapped /\ Locks /\ Pending = {} /\ \A do, g: ~AtTop(do, g)
      /\ \A y, g: ~AwaitsStop(y, g)
  BY <1>1, AtRest DEF Ports
<1>3. h \in Handlers /\ ~handler[h].m_Registered
  BY DEF UnusedHandlers
<1>4. PICK counts \in [BufferTypes -> Nat]: counts = NoSubscribers
  BY DEF NoSubscribers
<1>5. PICK list \in Seq(Clients): list = <<>>
  <2>1. <<>> \in Seq(Clients)
    OBVIOUS
  <2> QED
    BY <2>1
<1>6. PICK old \in PortType:
        /\ old = [NoHandler EXCEPT !.m_Registered = TRUE, !.m_SerialPortName = name]
        /\ old.m_Registered /\ ~old.open /\ old.m_SerialPortName = name /\ old.m_NbrOfLocks = 0
        /\ old.clients = list /\ old.m_BufferTypeSubscribers = counts
  <2>1. PICK base \in PortType: /\ base = NoHandler /\ ~base.open /\ base.m_NbrOfLocks = 0
                               /\ base.clients = list /\ base.m_BufferTypeSubscribers = counts
    <3>1. /\ NoHandler \in PortType /\ ~NoHandler.open /\ NoHandler.m_NbrOfLocks = 0
          /\ NoHandler.clients = list /\ NoHandler.m_BufferTypeSubscribers = counts
      BY <1>4, <1>5 DEF NoHandler, PortType
    <3> QED
      BY <3>1
  <2> DEFINE new == [base EXCEPT !.m_Registered = TRUE, !.m_SerialPortName = name]
  <2>2. /\ new \in PortType /\ new.m_Registered /\ new.m_SerialPortName = name
        /\ new.open = base.open /\ new.m_NbrOfLocks = base.m_NbrOfLocks
        /\ new.clients = base.clients /\ new.m_BufferTypeSubscribers = base.m_BufferTypeSubscribers
    BY DEF PortType
  <2>3. new = [NoHandler EXCEPT !.m_Registered = TRUE, !.m_SerialPortName = name]
    BY <2>1
  <2> HIDE DEF new
  <2> QED
    BY <2>1, <2>2, <2>3
<1>7. PICK port \in PortType:
        /\ handler' = [handler EXCEPT ![h] = port]
        /\ port.m_Registered /\ ~port.open
        /\ port.m_SerialPortName = name /\ port.m_NbrOfLocks = 0
        /\ port.clients = Append(list, x)
        /\ port.m_BufferTypeSubscribers = [counts EXCEPT ![type] = @ + 1]
  <2> DEFINE new == Added(old, x, type)
  <2>1. handler' = [handler EXCEPT ![h] = new]
    BY <1>6 DEF GetsNewPort
  <2>2. new \in PortType /\ HasEntryMore(new, old, x, type)
    BY AddedToo
  <2> HIDE DEF new
  <2> QED
    BY <1>6, <2>1, <2>2 DEF HasEntryMore
<1>8. Enters(x, type, h, port, list, counts)
  BY <1>1, <1>3, <1>4, <1>5, <1>7 DEF Enters
<1>9. PICK b \in CallType: b = Attaching(h, x) /\ b.do = "Attach" /\ b.handler = h /\ b.client = x
  <2>1. Attaching(h, x) \in CallType
    BY <1>3, NewCalls
  <2> QED
    BY <2>1 DEF Attaching
<1>10. PICK a \in CallType: a = OnPort("Open", h) /\ a.do = "Open" /\ a.handler = h
  <2>1. OnPort("Open", h) \in CallType
    BY <1>3, NewCalls
  <2> QED
    BY <2>1 DEF OnPort
<1>11. Begins({a, b}, {a})
  <2>1. calls' = <<a>> \o <<b>>
    BY <1>1, <1>9, <1>10 DEF ForHandler, OnPort, Attaching
  <2> QED
    BY <1>9, <1>10, <2>1, Beginning
<1>12. Pending' = {a, b} /\ \A c \in {a, b}: c = b \/ c.do \in {"Propagate", "Open"}
  BY <1>10, <1>11 DEF Begins
<1>13. Lives' /\ Wanted'
  <2>1. PICK N: N = {a, b}
    OBVIOUS
  <2>2. Pending' = N /\ b \in N /\ \A c \in N: c = b \/ c.do \in {"Propagate", "Open"}
    BY <1>12, <2>1
  <2>3. b.do = "Attach" /\ b.client = x /\ b.handler = h
    BY <1>9
  <2>4. h \in Handlers
    BY <1>3
  <2> QED
    BY <1>8, <2>2, <2>3, <2>4, EnteredLives
<1>14. handler'[h] = port /\ \A g \in Handlers: g # h => handler'[g] = handler[g]
  BY <1>2, <1>3, <1>8, EnteredFacts
<1>15. \A g: (AtTop("Open", g)' <=> g = h) /\ ~AtTop("Resume", g)'
  BY <1>10, <1>11 DEF Begins, TopIs
<1>16. Mapped'
  <2>1. \A n \in Names: m_SerialPortHandlerMap'[n] = IF n = name THEN h ELSE m_SerialPortHandlerMap[n]
    BY <1>2 DEF CollectionInv, ObjectTypes, GetsNewPort
  <2>2. ASSUME NEW n \in Names, NEW g \in Handlers, m_SerialPortHandlerMap'[n] = g
        PROVE  handler'[g].m_Registered /\ handler'[g].m_SerialPortName = n
    <3>1. CASE n = name
      BY <1>7, <1>14, <2>1, <2>2, <3>1
    <3>2. CASE n # name
      <4>1. handler[g].m_Registered /\ handler[g].m_SerialPortName = n
        BY <1>2, <2>1, <2>2, <3>2 DEF Mapped
      <4>2. g # h
        BY <1>3, <4>1
      <4> QED
        BY <1>14, <4>1, <4>2
    <3> QED
      BY <3>1, <3>2
  <2>3. ASSUME NEW g \in Handlers, handler'[g].m_Registered
        PROVE  /\ handler'[g].m_SerialPortName \in Names
               /\ m_SerialPortHandlerMap'[handler'[g].m_SerialPortName] = g
    <3>1. CASE g = h
      BY <1>7, <1>14, <2>1, <3>1
    <3>2. CASE g # h
      <4>1. PICK n: n = handler[g].m_SerialPortName
        OBVIOUS
      <4>2. n \in Names /\ m_SerialPortHandlerMap[n] = g /\ handler'[g].m_SerialPortName = n
        BY <1>2, <1>14, <2>3, <3>2, <4>1 DEF Mapped
      <4>3. n # name
        BY <4>2, ConstantsAssumption
      <4> QED
        BY <2>1, <4>2, <4>3
    <3> QED
      BY <3>1, <3>2
  <2> QED
    BY <2>2, <2>3 DEF Mapped
<1>17. \A g \in Handlers: Holders(g)' = Holders(g)
  BY <1>2, <1>8, SessionTypes DEF Enters
<1>18. Holders(h) = {}
  <2> SUFFICES ASSUME NEW y \in Clients, Stopper(y) = h, client[y].m_bLockedBySelf
               PROVE  FALSE
    BY DEF Holders
  <2>1. client[y].exists
    BY <1>2 DEF CollectionInv, Objects
  <2>2. client[y].m_Registered
    BY <1>1, <1>2, <2>1, Idle
  <2>3. Member(y, h)
    BY <2>2 DEF Member
  <2> QED
    BY <1>2, <1>3, <2>3 DEF Members
<1>19. Locks'
  <2>1. LocksCounted'
    <3> SUFFICES ASSUME NEW g \in Handlers, handler'[g].m_Registered
                 PROVE  handler'[g].m_NbrOfLocks = Cardinality(Holders(g)') + 0
      BY <1>15 DEF LocksCounted
    <3>1. CASE g = h
      <4>1. Holders(g)' = {}
        BY <1>3, <1>17, <1>18, <3>1
      <4> QED
        BY <1>7, <1>14, <3>1, <4>1, FS_EmptySet
    <3>2. CASE g # h
      <4>1. handler[g].m_NbrOfLocks = Cardinality(Holders(g)) + 0
        BY <1>2, <1>14, <3>2 DEF Locks, LocksCounted
      <4> QED
        BY <1>14, <1>17, <3>2, <4>1
    <3> QED
      BY <3>1, <3>2
  <2>2. OpenUnlessLocked'
    <3> SUFFICES ASSUME NEW g \in Handlers, handler'[g].m_Registered
                 PROVE  /\ handler'[g].open <=> handler'[g].m_NbrOfLocks = 0 /\ g # h
                        /\ g = h => handler'[g].m_NbrOfLocks = 0
      BY <1>15 DEF OpenUnlessLocked
    <3>1. CASE g = h
      BY <1>7, <1>14, <3>1
    <3>2. CASE g # h
      BY <1>2, <1>14, <3>2 DEF Locks, OpenUnlessLocked
    <3> QED
      BY <3>1, <3>2
  <2> QED
    BY <2>1, <2>2 DEF Locks
<1>20. Subscriptions' /\ Bounded'
  <2>1. \A c \in Pending': c.do # "ForEach"
    BY <1>9, <1>10, <1>12
  <2>2. \A g: ~AtTop("ForEach", g)'
    BY <1>10, <1>11 DEF Begins, TopIs, AtTop, Running, Top
  <2>3. port.m_NbrOfLocks \in 0..Cardinality(Clients)
    BY <1>7, ClientsFacts
  <2> QED
    BY <1>3, <1>8, <2>1, <2>2, <2>3, EnteredSubscriptions
<1> QED
  BY <1>13, <1>16, <1>19, <1>20 DEF FollowInv, Ports

(* A session header attaches a client to a port, which may be new.         *)
LEMMA OnFrameFollows ==
  ASSUME FollowInv, CollectionInv', NEW x \in Clients, NEW name \in Names, NEW type \in Sessions,
         OnFrame(x, name, type)
  PROVE  FollowInv'
<1>1. type \in BufferTypes
  BY ConstantsAssumption
<1>2. m_SerialPortHandlerMap[name] \in Handlers \cup {None}
  BY DEF FollowInv, CollectionInv, ObjectTypes
<1>3. /\ AwaitsHeader(x) /\ client' = [client EXCEPT ![x].m_eBufferType = type]
      /\ UNCHANGED <<m_HdlcdServerHandlerList, daemon>>
  BY DEF OnFrame
<1>4. CASE m_SerialPortHandlerMap[name] # None
  <2>1. PICK h \in Handlers: m_SerialPortHandlerMap[name] = h
    BY <1>2, <1>4
  <2>2. /\ handler' = [handler EXCEPT ![h] = Added(@, x, type)]
        /\ Handle((IF handler[h].open THEN ForHandler("Propagate", h) ELSE <<>>)
                  \o <<[do |-> "Attach", handler |-> h, client |-> x]>>)
        /\ UNCHANGED m_SerialPortHandlerMap
    BY <1>4, <2>1 DEF OnFrame
  <2>3. FindsPort(x, type, h)
    BY <1>3, <2>2 DEF FindsPort
  <2> QED
    BY <1>1, <2>1, <2>3, EntersPort
<1>5. CASE m_SerialPortHandlerMap[name] = None
  <2>1. PICK h \in UnusedHandlers:
          /\ handler' = [handler EXCEPT ![h] =
               Added([NoHandler EXCEPT !.m_Registered = TRUE, !.m_SerialPortName = name], x, type)]
          /\ m_SerialPortHandlerMap' = [m_SerialPortHandlerMap EXCEPT ![name] = h]
          /\ Handle(ForHandler("Open", h) \o <<[do |-> "Attach", handler |-> h, client |-> x]>>)
    <3>1. UnusedHandlers # {}
      BY <1>5 DEF OnFrame
    <3>2. (CHOOSE g \in UnusedHandlers: TRUE) \in UnusedHandlers
      BY <3>1
    <3> QED
      BY <1>5, <3>2 DEF OnFrame
  <2>2. GetsNewPort(x, name, type, h)
    BY <1>3, <2>1 DEF GetsNewPort
  <2> QED
    BY <1>1, <1>5, <2>2, EntersNewPort
<1> QED
  BY <1>4, <1>5

-----------------------------------------------------------------------------
(* The locks of a port that is not registered any more.                    *)

\* They are forgotten when the iteration has ended that stops its clients.
Iterated(h) == \E c \in Pending: c.do = "ForEach" /\ c.handler = h
Forgotten == \A h \in Handlers: handler[h].m_Registered \/ handler[h].m_NbrOfLocks = 0 \/ Iterated(h)

Forgetting ==
  \A h \in Handlers:
    \/ handler'[h].m_Registered \/ handler'[h].m_NbrOfLocks = 0 \/ Iterated(h)'
    \/ /\ handler'[h].m_Registered = handler[h].m_Registered
       /\ handler'[h].m_NbrOfLocks = handler[h].m_NbrOfLocks
       /\ Iterated(h) => Iterated(h)'

(* Sequences of calls that the actions make.                               *)
LEMMA Sequences ==
  /\ \A do \in {"Propagate", "Query", "Open", "Resume", "Stop"}, h \in Handlers: ForHandler(do, h) \in Seq(CallType)
  /\ \A do \in {"StopClient", "DestroyClient", "ReleaseStopper"}, x \in Clients: ForClient(do, x) \in Seq(CallType)
  /\ \A t \in BufferTypes, h \in Handlers: Deliver(h, t) \in Seq(CallType)
  /\ \A s, t \in Seq(CallType): s \o t \in Seq(CallType)
  /\ <<>> \in Seq(CallType)
<1>1. ASSUME NEW do \in {"Propagate", "Query", "Open", "Resume", "Stop"}, NEW h \in Handlers
      PROVE  ForHandler(do, h) \in Seq(CallType)
  <2>1. PICK a \in CallType: a = OnPort(do, h)
    BY NewCalls
  <2> QED
    BY <2>1, OneCall DEF ForHandler, OnPort
<1>2. ASSUME NEW do \in {"StopClient", "DestroyClient", "ReleaseStopper"}, NEW x \in Clients
      PROVE  ForClient(do, x) \in Seq(CallType)
  <2>1. PICK a \in CallType: a = OnClient(do, x)
    BY NewCalls
  <2> QED
    BY <2>1, OneCall DEF ForClient, OnClient
<1>3. ASSUME NEW t \in BufferTypes, NEW h \in Handlers
      PROVE  Deliver(h, t) \in Seq(CallType)
  <2>1. PICK a \in CallType: a = Delivery(h, t)
    BY NewCalls
  <2> QED
    BY <2>1, OneCall DEF Deliver, Delivery
<1>4. \A s, t \in Seq(CallType): s \o t \in Seq(CallType)
  BY JoinFacts
<1> QED
  BY <1>1, <1>2, <1>3, <1>4, NoCalls

(* What is under the innermost call stays, and its calls are made.         *)
LEMMA RestStays ==
  ASSUME CollectionInv, calls # <<>>, NEW inner \in Seq(CallType), Call(inner)
  PROVE  /\ ToSet(inner) \subseteq Pending'
         /\ Top.do # "ForEach" => \A h: Iterated(h) => Iterated(h)'
<1>1. Pending' = ToSet(inner) \cup ToSet(Rest)
  BY Replaced DEF Replaces
<1>2. \A c \in Pending: c = Top \/ c \in ToSet(Rest)
  BY Innermost
<1> QED
  BY <1>1, <1>2 DEF Iterated

(* An iteration goes on.                                                   *)
LEMMA IterationForgets ==
  ASSUME CollectionInv, VisitQuietly \/ VisitToQuery \/ VisitToStop \/ PassOutdated
  PROVE  Forgetting
<1>1. Running("ForEach") /\ calls # <<>> /\ Top.do = "ForEach"
  BY DEF VisitQuietly, VisitToQuery, VisitToStop, VisitCalling, PassOutdated, PassAndRemove, MeetsClient, MeetsOutdated, Running, Top
<1>2. PICK h \in Handlers: h = Top.handler
  BY <1>1, TopIteration
<1>3. /\ PortsKept
      /\ \E N, first: \E o \in N: Replaces(N, first) /\ o.do = "ForEach" /\ o.handler = h
  <2>1. CASE VisitQuietly
    <3>1. PICK o: o = Onwards
      OBVIOUS
    <3>2. Replaces({o}, {o}) /\ PortsKept /\ Top.next \in Clients
      BY <2>1, <3>1, VisitQuietlyEffect
    <3>3. o.do = "ForEach" /\ o.handler = h
      BY <1>1, <1>2, <3>1, <3>2, OnwardsFacts
    <3> QED
      BY <3>2, <3>3
  <2>2. CASE VisitToQuery
    <3>1. PortsKept
      BY <2>2, VisitToQueryEffect, SamePorts
    <3>2. PICK a, o \in CallType: \E N \in SUBSET CallType:
            Replaces(N, {a}) /\ o \in N /\ o.do = "ForEach" /\ o.handler = Top.handler
      BY <2>2, VisitToQueryEffect
    <3> QED
      BY <1>2, <3>1, <3>2
  <2>3. CASE VisitToStop
    <3>1. PortsKept
      BY <2>3, VisitToStopEffect, SamePorts
    <3>2. PICK a, l, o \in CallType:
            /\ Replaces({a, l, o}, {a})
            /\ a.do = "StopClient" /\ a.client = Top.next /\ l.do = "LeaveClient"
            /\ o.do = "ForEach" /\ o.handler = Top.handler /\ o.function = Top.function
            /\ o.rebuild = Top.rebuild /\ o.seen = Top.seen \cup {Top.next}
      BY <2>3, VisitToStopEffect
    <3>3. o \in {a, l, o}
      OBVIOUS
    <3> QED
      BY <1>2, <3>1, <3>2, <3>3
  <2>4. CASE PassOutdated
    <3>1. PortsKept
      BY <1>2, <2>4, PassOutdatedEffect
    <3>2. PICK o \in CallType: Replaces({o}, {o}) /\ o.do = "ForEach" /\ o.handler = h
      BY <1>2, <2>4, PassOutdatedEffect
    <3> QED
      BY <3>1, <3>2
  <2> QED
    BY <2>1, <2>2, <2>3, <2>4
<1>4. ASSUME NEW N, NEW first, NEW o \in N, Replaces(N, first), o.do = "ForEach", o.handler = h,
             NEW g \in Handlers, Iterated(g)
      PROVE  Iterated(g)'
  <2>1. o \in Pending'
    BY <1>4 DEF Replaces
  <2>2. \A c \in Pending: c = Top \/ c \in Pending'
    BY <1>1, <1>4, KeptFacts
  <2> QED
    BY <1>2, <1>4, <2>1, <2>2 DEF Iterated
<1> QED
  BY <1>3, <1>4 DEF Forgetting, PortsKept, PortKept

(* An iteration ends, or counts.                                           *)
LEMMA EndForgets ==
  ASSUME CollectionInv, EndForEach
  PROVE  Forgetting
<1>1. Running("ForEach") /\ calls # <<>>
  BY DEF EndForEach, EndAndCount, Running
<1>2. handler \in [Handlers -> PortType]
  BY <1>1, TopIteration
<1>3. PICK h \in Handlers: h = Top.handler
  BY <1>1, TopIteration
<1>4. ASSUME NEW inner \in Seq(CallType), Call(inner), NEW g \in Handlers, g # h, Iterated(g)
      PROVE  Iterated(g)'
  <2>1. \A c \in Pending: c = Top \/ c \in Pending'
    BY <1>1, <1>4, Replaced, Innermost DEF Replaces
  <2> QED
    BY <1>3, <1>4, <2>1 DEF Iterated
<1>5. CASE Top.rebuild
  <2>1. Call(ForEach(h, "count")) /\ handler' = [handler EXCEPT ![h].m_BufferTypeSubscribers = NoSubscribers]
    BY <1>3, <1>5 DEF EndForEach, EndAndCount, Top
  <2>2. PICK it \in CallType: /\ ForEach(h, "count") = <<it>>
                              /\ it.do = "ForEach" /\ it.handler = h /\ it.function = "count"
                              /\ Complete(it)
                              /\ it.seen = {} /\ it.rebuild = FALSE
    <3>1. "count" \in Functions
      BY DEF Functions
    <3>2. PICK it \in CallType: IterationOf(it, h, "count")
      BY <3>1, BeginningIteration
    <3> QED
      BY <3>2 DEF IterationOf
  <2>3. <<it>> \in Seq(CallType) /\ ToSet(<<it>>) = {it}
    BY OneCall
  <2>4. it \in Pending'
    BY <1>1, <2>1, <2>2, <2>3, RestStays
  <2>5. Iterated(h)'
    BY <2>2, <2>4 DEF Iterated
  <2>6. \A g \in Handlers: g # h => handler'[g] = handler[g]
    BY <1>2, <2>1
  <2> QED
    BY <1>4, <2>1, <2>2, <2>3, <2>5, <2>6 DEF Forgetting
<1>6. CASE ~Top.rebuild
  <2>1. /\ Call(<<>>)
        /\ handler' = IF handler[h].m_Registered THEN handler ELSE [handler EXCEPT ![h] = NoHandler]
    BY <1>3, <1>6 DEF EndForEach, EndAndCount, Top
  <2>2. NoHandler.m_NbrOfLocks = 0
    BY DEF NoHandler
  <2>3. handler'[h].m_Registered \/ handler'[h].m_NbrOfLocks = 0
    BY <1>2, <2>1, <2>2
  <2>4. \A g \in Handlers: g # h => handler'[g] = handler[g]
    BY <1>2, <2>1
  <2> QED
    BY <1>4, <2>1, <2>3, <2>4, Sequences DEF Forgetting
<1> QED
  BY <1>5, <1>6

(* The other calls make calls.                                             *)
LEMMA OtherCalls ==
  ASSUME CollectionInv,
         BeginForEach \/ LeaveClient \/ StopClient \/ DestroyClient \/ ReleaseStopper \/ Attach
  PROVE  /\ calls # <<>> /\ Top.do # "ForEach" /\ handler' = handler
         /\ \E inner \in Seq(CallType): Call(inner)
<1>1. CASE BeginForEach
  <2>1. /\ calls # <<>> /\ Top.do \in {"Propagate", "Query", "Deliver"}
        /\ \/ Call(<<>>)
           \/ \E f \in {"update", "query", "deliver"}: Call(ForEach(Top.handler, f))
        /\ handler' = handler
    BY <1>1 DEF BeginForEach, Running, Top
  <2>2. PICK h \in Handlers: h = Top.handler
    BY <2>1, Innermost, CallFacts
  <2>3. \A f \in {"update", "query", "deliver"}: ForEach(h, f) \in Seq(CallType)
    <3> SUFFICES ASSUME NEW f \in Functions
                 PROVE  ForEach(h, f) \in Seq(CallType)
      BY DEF Functions
    <3>1. PICK it \in CallType: /\ ForEach(h, f) = <<it>>
                                /\ it.do = "ForEach" /\ it.handler = h /\ it.function = f
                                /\ Complete(it)
                                /\ it.seen = {} /\ it.rebuild = FALSE
      BY ForEachFacts
    <3> QED
      BY <3>1, OneCall
  <2> QED
    BY <2>1, <2>2, <2>3, Sequences
<1>2. CASE LeaveClient
  <2>1. /\ calls # <<>> /\ Top.do = "LeaveClient" /\ handler' = handler
        /\ Call(<<>>) \/ Call(ForClient("DestroyClient", Top.client))
    BY <1>2 DEF LeaveClient, Running, Top, DestroyIfUnused, objects
  <2>2. Top.client \in Clients
    BY <2>1, Innermost, CallFacts DEF Ending
  <2> QED
    BY <2>1, <2>2, Sequences
<1>3. CASE StopClient
  <2>1. /\ calls # <<>> /\ Top.do = "StopClient" /\ handler' = handler
        /\ Call(<<>>) \/ Call(ForClient("DestroyClient", Top.client))
    BY <1>3 DEF StopClient, Running, Top, DestroyIfUnused
  <2>2. Top.client \in Clients
    BY <2>1, Innermost, CallFacts DEF Ending
  <2> QED
    BY <2>1, <2>2, Sequences
<1>4. CASE DestroyClient
  <2>1. /\ calls # <<>> /\ Top.do = "DestroyClient" /\ handler' = handler
        /\ Call((IF client[Top.client].m_bLockedBySelf THEN ForHandler("Resume", Stopper(Top.client)) ELSE <<>>)
                \o (IF Stopper(Top.client) # None THEN ForClient("ReleaseStopper", Top.client) ELSE <<>>))
    BY <1>4 DEF DestroyClient, Running, Top, Stopper
  <2>2. PICK x \in Clients: x = Top.client
    BY <2>1, Innermost, CallFacts DEF Ending, Destroying
  <2>3. client[x].m_bLockedBySelf => Stopper(x) \in Handlers
    BY DEF CollectionInv, ObjectTypes, ClientType, Objects, Stopper
  <2> DEFINE s == IF client[x].m_bLockedBySelf THEN ForHandler("Resume", Stopper(x)) ELSE <<>>
             t == IF Stopper(x) # None THEN ForClient("ReleaseStopper", x) ELSE <<>>
  <2>4. s \in Seq(CallType) /\ t \in Seq(CallType)
    BY <2>3, Sequences
  <2>5. Call(s \o t)
    BY <2>1, <2>2
  <2> HIDE DEF s, t
  <2> QED
    BY <2>1, <2>4, <2>5, Sequences
<1>5. CASE ReleaseStopper
  <2>1. /\ calls # <<>> /\ Top.do = "ReleaseStopper" /\ handler' = handler
        /\ Call(<<>>) \/ Call(ForHandler("Stop", Stopper(Top.client)))
    BY <1>5 DEF ReleaseStopper, Running, Top, Stopper
  <2>2. PICK x \in Clients: x = Top.client
    BY <2>1, Innermost, CallFacts DEF Ending, Destroying
  <2>3. Stopper(x) # None
    BY <2>1, <2>2, Innermost DEF Justified
  <2>4. Stopper(x) \in Handlers
    BY <2>3 DEF CollectionInv, ObjectTypes, ClientType, Stopper
  <2> QED
    BY <2>1, <2>2, <2>4, Sequences
<1>6. CASE Attach
  <2>1. /\ calls # <<>> /\ Top.do = "Attach" /\ handler' = handler
        /\ \/ Call(ForHandler("Propagate", Top.handler))
           \/ Call(ForHandler("Stop", Top.handler) \o ForClient("DestroyClient", Top.client))
    BY <1>6 DEF Attach, Running, Top
  <2>2. PICK x \in Clients, h \in Handlers: x = Top.client /\ h = Top.handler
    BY <2>1, Innermost, CallFacts
  <2>3. ForHandler("Propagate", h) \in Seq(CallType) /\ ForHandler("Stop", h) \o ForClient("DestroyClient", x) \in Seq(CallType)
    BY Sequences
  <2> QED
    BY <2>1, <2>2, <2>3
<1> QED
  BY <1>1, <1>2, <1>3, <1>4, <1>5, <1>6

(* The calls about a port: one that is not registered any more stops its   *)
(* clients, and the lock counter changes while it is registered.           *)
LEMMA PortCallForgets ==
  ASSUME CollectionInv, OpenSerialPort \/ ResumeSerialPort \/ StopHandler, daemon' # "failed"
  PROVE  Forgetting
<1>1. calls # <<>> /\ Top.do \in {"Open", "Resume", "Stop"}
  BY DEF OpenSerialPort, ResumeSerialPort, StopHandler, Running, Top
<1>2. PICK h \in Handlers: h = Top.handler
  BY <1>1, UnderPort
<1>3. PICK old \in PortType: old = handler[h]
  BY DEF CollectionInv, ObjectTypes
<1>4. \A inner \in Seq(CallType): Call(inner) => \A g: Iterated(g) => Iterated(g)'
  BY <1>1, RestStays
<1>5. CASE handler' = handler /\ \E inner \in Seq(CallType): Call(inner)
  BY <1>4, <1>5 DEF Forgetting
<1>6. ASSUME NEW new, handler' = [handler EXCEPT ![h] = new],
             new.m_Registered \/ Iterated(h)',
             NEW inner \in Seq(CallType), Call(inner)
      PROVE  Forgetting
  <2>1. handler'[h] = new /\ \A g \in Handlers: g # h => handler'[g] = handler[g]
    BY <1>6 DEF CollectionInv, ObjectTypes
  <2> QED
    BY <1>4, <1>6, <2>1 DEF Forgetting
<1>7. ASSUME handler' = [handler EXCEPT ![h].m_Registered = FALSE, ![h].open = FALSE],
             Call(ForEach(h, "stop"))
      PROVE  Forgetting
  <2>1. PICK it \in CallType: /\ ForEach(h, "stop") = <<it>>
                              /\ it.do = "ForEach" /\ it.handler = h /\ it.function = "stop"
                              /\ Complete(it)
                              /\ it.seen = {} /\ it.rebuild = FALSE
    <3>1. "stop" \in Functions
      BY DEF Functions
    <3>2. PICK it \in CallType: IterationOf(it, h, "stop")
      BY <3>1, BeginningIteration
    <3> QED
      BY <3>2 DEF IterationOf
  <2>2. <<it>> \in Seq(CallType) /\ ToSet(<<it>>) = {it}
    BY OneCall
  <2>3. it \in Pending'
    BY <1>1, <1>7, <2>1, <2>2, RestStays
  <2>4. Iterated(h)'
    BY <2>1, <2>3 DEF Iterated
  <2> DEFINE new == [old EXCEPT !.m_Registered = FALSE, !.open = FALSE]
  <2>5. handler' = [handler EXCEPT ![h] = new]
    BY <1>3, <1>7
  <2> HIDE DEF new
  <2> QED
    BY <1>6, <1>7, <2>1, <2>2, <2>4, <2>5
<1>8. CASE OpenSerialPort
  <2>1. \/ handler' = [handler EXCEPT ![h].open = TRUE] /\ Call(DeliverSent(h) \o ForHandler("Propagate", h))
        \/ handler' = [handler EXCEPT ![h].m_Registered = FALSE, ![h].open = FALSE] /\ Call(ForEach(h, "stop"))
    BY <1>2, <1>8 DEF OpenSerialPort, Top
  <2>2. handler[h].m_Registered
    BY <1>1, <1>2, <1>8, Innermost DEF Justified, OpenSerialPort, Running, Top
  <2>3. CASE handler' = [handler EXCEPT ![h].open = TRUE] /\ Call(DeliverSent(h) \o ForHandler("Propagate", h))
    <3>1. DeliverSent(h) \in Seq(CallType) /\ ForHandler("Propagate", h) \in Seq(CallType)
      BY Sequences DEF DeliverSent, BufferTypes
    <3>2. DeliverSent(h) \o ForHandler("Propagate", h) \in Seq(CallType)
      BY <3>1, Sequences
    <3> DEFINE new == [old EXCEPT !.open = TRUE]
    <3>3. new.m_Registered = old.m_Registered
      BY DEF PortType
    <3>4. handler' = [handler EXCEPT ![h] = new]
      BY <1>3, <2>3
    <3> HIDE DEF new
    <3> QED
      BY <1>3, <1>6, <2>2, <2>3, <3>2, <3>3, <3>4
  <2> QED
    BY <1>7, <2>1, <2>3
<1>9. CASE ResumeSerialPort
  <2>1. CASE ~handler[h].m_Registered
    BY <1>2, <1>5, <1>9, <2>1, Sequences DEF ResumeSerialPort, Top
  <2>2. CASE handler[h].m_Registered
    <3>1. /\ handler' = [handler EXCEPT ![h].m_NbrOfLocks = @ - 1]
          /\ Call(ForHandler("Open", h)) \/ Call(ForHandler("Propagate", h))
      BY <1>2, <1>9, <2>2 DEF ResumeSerialPort, Top
    <3> DEFINE new == [old EXCEPT !.m_NbrOfLocks = @ - 1]
    <3>2. new.m_Registered = old.m_Registered
      BY DEF PortType
    <3>3. handler' = [handler EXCEPT ![h] = new]
      BY <1>3, <3>1
    <3> HIDE DEF new
    <3>4. \E inner \in Seq(CallType): Call(inner)
      BY <3>1, Sequences
    <3> QED
      BY <1>3, <1>6, <2>2, <3>2, <3>3, <3>4
  <2> QED
    BY <2>1, <2>2
<1>10. CASE StopHandler
  <2>1. CASE ~handler[h].m_Registered
    BY <1>2, <1>5, <1>10, <2>1, Sequences DEF StopHandler, Top
  <2>2. CASE handler[h].m_Registered
    <3>1. handler' = [handler EXCEPT ![h].m_Registered = FALSE, ![h].open = FALSE] /\ Call(ForEach(h, "stop"))
      BY <1>2, <1>10, <2>2 DEF StopHandler, Top
    <3> QED
      BY <1>7, <3>1
  <2> QED
    BY <2>1, <2>2
<1> QED
  BY <1>8, <1>9, <1>10

(* A handler starts when no iteration is in progress; a lock is taken of a *)
(* port that is registered.                                                *)
LEMMA StartForgets ==
  ASSUME FollowInv, NextHandler \/ Shutdown
  PROVE  Forgetting
<1>1. calls = <<>> /\ daemon # "failed"
  BY DEF NextHandler, Shutdown, DoAccept, OnClosed, AcquireLock, ReleaseLock, OnFrame, StopRequest, StationCalls, Signal, Handle
<1>2. CollectionInv /\ Pending = {}
  BY <1>1, AtRest
<1>3. \A g: ~Iterated(g)
  BY <1>2 DEF Iterated
<1>4. ASSUME NEW h \in Handlers, NEW new, handler' = [handler EXCEPT ![h] = new], new.m_Registered
      PROVE  Forgetting
  <2>1. handler'[h] = new /\ \A g \in Handlers: g # h => handler'[g] = handler[g]
    BY <1>2, <1>4 DEF CollectionInv, ObjectTypes
  <2> QED
    BY <1>3, <1>4, <2>1 DEF Forgetting
<1>5. CASE handler' = handler
  BY <1>3, <1>5 DEF Forgetting
<1>6. ASSUME NEW x \in Clients, AcquireLock(x)
      PROVE  Forgetting
  <2>1. client[x].m_Registered /\ Stopper(x) # None
    BY <1>6 DEF AcquireLock, Attached, Stopper
  <2>2. PICK h \in Handlers: h = Stopper(x) /\ handler[h].m_Registered
    BY <1>1, <2>1, AttachedPort
  <2>3. PICK old \in PortType: old = handler[h]
    BY <1>2 DEF CollectionInv, ObjectTypes
  <2> DEFINE new == [old EXCEPT !.m_NbrOfLocks = @ + 1, !.open = FALSE]
  <2>4. new.m_Registered = old.m_Registered
    BY DEF PortType
  <2>5. handler' = [handler EXCEPT ![h] = new]
    BY <1>6, <2>2, <2>3 DEF AcquireLock, Stopper
  <2> HIDE DEF new
  <2> QED
    BY <1>4, <2>2, <2>3, <2>4, <2>5
<1>7. ASSUME NEW x \in Clients, NEW name \in Names, NEW type \in Sessions, OnFrame(x, name, type)
      PROVE  Forgetting
  <2>1. type \in BufferTypes /\ m_SerialPortHandlerMap[name] \in Handlers \cup {None}
    BY <1>2, ConstantsAssumption DEF CollectionInv, ObjectTypes
  <2>2. CASE m_SerialPortHandlerMap[name] # None
    <3>1. PICK h \in Handlers: m_SerialPortHandlerMap[name] = h
      BY <2>1, <2>2
    <3>2. handler[h].m_Registered
      BY <1>1, <3>1, AtRest DEF Ports, Mapped
    <3>3. PICK old \in PortType: old = handler[h]
      BY <1>2 DEF CollectionInv, ObjectTypes
    <3> DEFINE new == Added(old, x, type)
    <3>4. new.m_Registered = old.m_Registered
      BY <2>1, AddedFacts
    <3>5. handler' = [handler EXCEPT ![h] = new]
      BY <1>7, <2>2, <3>1, <3>3 DEF OnFrame
    <3> HIDE DEF new
    <3> QED
      BY <1>4, <3>2, <3>3, <3>4, <3>5
  <2>3. CASE m_SerialPortHandlerMap[name] = None
    <3>1. PICK h \in UnusedHandlers:
            handler' = [handler EXCEPT ![h] =
              Added([NoHandler EXCEPT !.m_Registered = TRUE, !.m_SerialPortName = name], x, type)]
      <4>1. UnusedHandlers # {}
        BY <1>7, <2>3 DEF OnFrame
      <4>2. (CHOOSE g \in UnusedHandlers: TRUE) \in UnusedHandlers
        BY <4>1
      <4> QED
        BY <1>7, <2>3, <4>2 DEF OnFrame
    <3>2. h \in Handlers
      BY DEF UnusedHandlers
    <3>3. PICK old \in PortType: old = [NoHandler EXCEPT !.m_Registered = TRUE, !.m_SerialPortName = name] /\ old.m_Registered
      <4>1. PICK base \in PortType: base = NoHandler
        <5>1. NoSubscribers \in [BufferTypes -> Nat]
          BY DEF NoSubscribers
        <5>2. <<>> \in Seq(Clients)
          OBVIOUS
        <5>3. NoHandler \in PortType
          BY <5>1, <5>2 DEF NoHandler, PortType
        <5> QED
          BY <5>3
      <4>2. /\ [base EXCEPT !.m_Registered = TRUE, !.m_SerialPortName = name] \in PortType
            /\ [base EXCEPT !.m_Registered = TRUE, !.m_SerialPortName = name].m_Registered
        BY DEF PortType
      <4> QED
        BY <4>1, <4>2
    <3> DEFINE new == Added(old, x, type)
    <3>4. new.m_Registered = old.m_Registered
      BY <2>1, AddedFacts
    <3>5. handler' = [handler EXCEPT ![h] = new]
      BY <3>1, <3>3
    <3> HIDE DEF new
    <3> QED
      BY <1>4, <3>2, <3>3, <3>4, <3>5
  <2> QED
    BY <2>2, <2>3
<1>8. CASE DoAccept \/ Signal \/ Shutdown
  BY <1>5, <1>8 DEF DoAccept, Signal, Shutdown, objects
<1>9. ASSUME NEW x \in Clients, OnClosed(x) \/ ReleaseLock(x)
      PROVE  Forgetting
  BY <1>5, <1>9 DEF OnClosed, ReleaseLock, objects
<1>10. ASSUME NEW h \in Handlers, StopRequest(h) \/ StationCalls(h)
       PROVE  Forgetting
  BY <1>5, <1>10 DEF StopRequest, StationCalls, objects
<1> QED
  BY <1>6, <1>7, <1>8, <1>9, <1>10 DEF NextHandler

-----------------------------------------------------------------------------
(* The invariant holds, and with it the properties.                        *)

(* At first there is neither a client nor a port.                          *)
LEMMA InitFollows ==
  ASSUME Init
  PROVE  FollowInv /\ Forgotten
<1>1. CollectionInv
  BY InitInv
<1>2. /\ client = [x \in Clients |-> NoClient] /\ handler = [h \in Handlers |-> NoHandler]
      /\ m_SerialPortHandlerMap = [n \in Names |-> None] /\ m_HdlcdServerHandlerList = {}
      /\ calls = <<>> /\ daemon = "running"
  BY DEF Init
<1>3. \A x \in Clients: ~client[x].m_Registered /\ Stopper(x) = None
  BY <1>2 DEF NoClient, Stopper
<1>4. \A h \in Handlers: /\ ~handler[h].m_Registered /\ handler[h].m_NbrOfLocks = 0
                         /\ Counters(h) = NoSubscribers
  BY <1>2 DEF NoHandler, Counters
<1>5. Pending = {}
  BY <1>2, NoCalls DEF Pending
<1>6. Cardinality(Clients) \in Nat /\ Total(NoSubscribers) = 0
  BY ClientsFacts DEF Total, NoSubscribers, BufferTypes
<1>7. Bounded
  BY <1>4, <1>6 DEF Bounded
<1>8. Subscriptions
  BY <1>2, <1>4 DEF Subscriptions, Recounts, Running
<1>9. Lives
  BY <1>2, <1>3, <1>5 DEF Lives, Members, Member, Released, InServerList
<1>10. Ports
  BY <1>2, <1>4, ConstantsAssumption DEF Ports, Wanted, Mapped
<1>11. Locks
  BY <1>4 DEF Locks, LocksCounted, OpenUnlessLocked
<1> QED
  BY <1>1, <1>4, <1>7, <1>8, <1>9, <1>10, <1>11 DEF FollowInv, Forgotten

(* A call goes on.                                                         *)
LEMMA ContinueFollows ==
  ASSUME FollowInv, CollectionInv', Continue
  PROVE  FollowInv'
<1>1. CASE VisitQuietly
  BY <1>1, VisitQuietlyFollows
<1>2. CASE VisitToQuery
  BY <1>2, VisitToQueryFollows
<1>3. CASE VisitToStop
  BY <1>3, VisitToStopFollows
<1>4. CASE LeaveClient
  BY <1>4, LeaveClientFollows
<1>5. CASE PassOutdated
  BY <1>5, PassOutdatedFollows
<1>6. CASE EndForEach
  BY <1>6, EndForEachFollows
<1>7. CASE BeginForEach
  BY <1>7, BeginForEachFollows
<1>8. CASE OpenSerialPort
  BY <1>8, OpenSerialPortFollows
<1>9. CASE ResumeSerialPort
  BY <1>9, ResumeSerialPortFollows
<1>10. CASE StopHandler
  BY <1>10, StopHandlerFollows
<1>11. CASE StopClient
  BY <1>11, StopClientFollows
<1>12. CASE DestroyClient
  BY <1>12, DestroyClientFollows
<1>13. CASE ReleaseStopper
  BY <1>13, ReleaseStopperFollows
<1>14. CASE Attach
  BY <1>14, AttachFollows
<1> QED
  BY <1>1, <1>2, <1>3, <1>4, <1>5, <1>6, <1>7, <1>8, <1>9, <1>10, <1>11, <1>12, <1>13, <1>14 DEF Continue

(* A handler starts.                                                       *)
LEMMA NextHandlerFollows ==
  ASSUME FollowInv, CollectionInv', NextHandler
  PROVE  FollowInv'
<1>1. CASE DoAccept
  BY <1>1, DoAcceptFollows
<1>2. ASSUME NEW x \in Clients, OnClosed(x) \/ AcquireLock(x) \/ ReleaseLock(x)
      PROVE  FollowInv'
  BY <1>2, OnClosedFollows, AcquireLockFollows, ReleaseLockFollows
<1>3. ASSUME NEW x \in Clients, NEW name \in Names, NEW type \in Sessions, OnFrame(x, name, type)
      PROVE  FollowInv'
  BY <1>3, OnFrameFollows
<1>4. ASSUME NEW h \in Handlers, StopRequest(h) \/ StationCalls(h)
      PROVE  FollowInv'
  BY <1>4, StopRequestFollows, StationCallsFollows
<1>5. CASE Signal
  BY <1>5, SignalFollows
<1> QED
  BY <1>1, <1>2, <1>3, <1>4, <1>5 DEF NextHandler

(* A step that changes nothing.                                            *)
LEMMA StutterFollows ==
  ASSUME UNCHANGED vars
  PROVE  FollowInv /\ CollectionInv' => FollowInv'
<1>1. UNCHANGED <<client, handler, m_SerialPortHandlerMap, m_HdlcdServerHandlerList, s_bCyclicCallGuard, calls, daemon>>
  BY DEF vars, objects, collections
<1>2. \A h: Holders(h)' = Holders(h) /\ Counters(h)' = Counters(h) /\ Total(Counters(h))' = Total(Counters(h))
  BY <1>1 DEF Holders, Stopper, Counters, Total
<1>3. \A do, h: AtTop(do, h)' <=> AtTop(do, h)
  BY <1>1 DEF AtTop, Running, Top
<1>4. Pending' = Pending /\ \A x, h: Waits(x, h)' <=> Waits(x, h)
  BY <1>1 DEF Waits, Pending
<1>5. Lives => Lives'
  BY <1>1, <1>4 DEF Lives, Members, Member, AwaitsStop, Released, InServerList, Listed, Stopper
<1>6. Ports => Ports'
  BY <1>1, <1>3, <1>4 DEF Ports, Wanted, Mapped, Stopper
<1>7. Locks => Locks'
  <2>1. LocksCounted => LocksCounted'
    BY <1>1, <1>2, <1>3 DEF LocksCounted
  <2>2. OpenUnlessLocked => OpenUnlessLocked'
    BY <1>1, <1>3 DEF OpenUnlessLocked
  <2> QED
    BY <2>1, <2>2 DEF Locks
<1>8. Bounded => Bounded'
  BY <1>1, <1>2 DEF Bounded
<1>9. Subscriptions => Subscriptions'
  <2>1. Top' = Top /\ Running("ForEach") = (Running("ForEach"))'
    BY <1>1 DEF Running, Top
  <2>2. \A h: (Counting(h)' <=> Counting(h)) /\ (WillCount(h)' <=> WillCount(h))
    BY <1>3, <1>4, <2>1 DEF Counting, WillCount
  <2>3. \A h: Balanced(h) => Balanced(h)'
    BY <1>1, <1>2, <2>2 DEF Balanced
  <2>4. \A h: Subscribed(h) => Subscribed(h)'
    BY <1>1, <1>2, <2>1, <2>2 DEF Subscribed, LiveOf, Listed
  <2>5. Recounts => Recounts'
    BY <1>1 DEF Recounts, Running, Top, Passed, Counters, Total
  <2> QED
    BY <1>1, <2>3, <2>4, <2>5 DEF Subscriptions
<1> QED
  BY <1>1, <1>5, <1>6, <1>7, <1>8, <1>9 DEF FollowInv

(* Clients, ports, locks and subscriptions keep count of each other, also  *)
(* in the middle of the calls.                                             *)
THEOREM FollowInvariance == Spec => []FollowInv
<1>1. Init => FollowInv
  BY InitFollows
<1>2. FollowInv => CollectionInv
  BY DEF FollowInv
<1>3. CollectionInv /\ [Next]_vars => CollectionInv'
  BY ContinueInv, NextHandlerInv, ShutdownInv, StutterInv DEF Next
<1>4. FollowInv /\ CollectionInv' /\ [Next]_vars => FollowInv'
  BY ContinueFollows, NextHandlerFollows, ShutdownFollows, StutterFollows DEF Next
<1> QED
  BY <1>1, <1>2, <1>3, <1>4, PTL DEF Spec

ForgottenUnlessFailed == daemon # "failed" => Forgotten

(* The lock counter of a port that has stopped its clients is zero.        *)
THEOREM LocksForgotten == Spec => []ForgottenUnlessFailed
<1>1. Init => ForgottenUnlessFailed
  BY InitFollows DEF ForgottenUnlessFailed
<1>2. ASSUME FollowInv, ForgottenUnlessFailed, Next, daemon' # "failed"
      PROVE  Forgotten'
  <2>1. CollectionInv
    BY <1>2 DEF FollowInv
  <2>2. Forgetting
    <3>1. CASE Continue
      <4>1. CASE BeginForEach \/ LeaveClient \/ StopClient \/ DestroyClient \/ ReleaseStopper \/ Attach
        <5>1. /\ calls # <<>> /\ Top.do # "ForEach" /\ handler' = handler
              /\ \E inner \in Seq(CallType): Call(inner)
          BY <2>1, <4>1, OtherCalls
        <5> QED
          BY <2>1, <5>1, RestStays DEF Forgetting
      <4> QED
        BY <1>2, <2>1, <3>1, <4>1, IterationForgets, EndForgets, PortCallForgets DEF Continue
    <3> QED
      BY <1>2, <3>1, StartForgets DEF Next
  <2>3. daemon # "failed"
    <3>1. CASE Continue
      <4>1. calls # <<>>
        BY <3>1 DEF Continue, VisitQuietly, VisitToQuery, VisitToStop, VisitCalling, PassOutdated, PassAndRemove, MeetsClient,
                    MeetsOutdated, EndForEach, EndAndCount, LeaveClient, BeginForEach, OpenSerialPort, ResumeSerialPort,
                    StopHandler, StopClient, DestroyClient, ReleaseStopper, Attach, Iterating, Running
      <4> QED
        BY <2>1, <4>1, Innermost
    <3>2. CASE NextHandler \/ Shutdown
      BY <3>2 DEF NextHandler, Shutdown, DoAccept, OnClosed, AcquireLock, ReleaseLock, OnFrame, StopRequest, StationCalls,
                  Signal, Handle
    <3> QED
      BY <1>2, <3>1, <3>2 DEF Next
  <2> QED
    BY <1>2, <2>2, <2>3 DEF ForgottenUnlessFailed, Forgotten, Forgetting
<1>3. ForgottenUnlessFailed /\ UNCHANGED vars => ForgottenUnlessFailed'
  BY DEF ForgottenUnlessFailed, Forgotten, Iterated, Pending, vars, objects
<1>4. FollowInv /\ ForgottenUnlessFailed /\ [Next]_vars => ForgottenUnlessFailed'
  BY <1>2, <1>3 DEF ForgottenUnlessFailed
<1> QED
  BY <1>1, <1>4, FollowInvariance, PTL DEF Spec

(* Locks and subscriptions are not more than there are clients.            *)
LEMMA FollowTypes ==
  FollowInv => TypeOK
<1> SUFFICES ASSUME FollowInv
             PROVE  TypeOK
  OBVIOUS
<1>1. CollectionInv /\ Bounded /\ handler \in [Handlers -> PortType]
  BY DEF FollowInv, CollectionInv, ObjectTypes
<1>2. ASSUME NEW h \in Handlers
      PROVE  handler[h] \in HandlerType
  <2>1. PICK port \in PortType: port = handler[h]
    BY <1>1
  <2>2. PICK counts \in [BufferTypes -> Nat]: counts = port.m_BufferTypeSubscribers
    BY DEF PortType
  <2>3. Total(counts) <= Cardinality(Clients) /\ port.m_NbrOfLocks \in 0..Cardinality(Clients)
    BY <1>1, <2>1, <2>2 DEF Bounded, Counters
  <2>4. ASSUME NEW t \in BufferTypes
        PROVE  counts[t] \in 0..Cardinality(Clients)
    <3>1. counts[t] \in Nat /\ counts[t] <= Total(counts) /\ Total(counts) \in Nat
      BY TotalFacts
    <3> QED
      BY <2>3, <3>1, ClientsFacts
  <2>5. counts \in [BufferTypes -> 0..Cardinality(Clients)]
    BY <2>4
  <2> QED
    BY <2>1, <2>2, <2>3, <2>5 DEF PortType, HandlerType
<1> QED
  BY <1>1, <1>2 DEF TypeOK, CollectionInv, ObjectTypes

(* The entries of a list that exist are the clients the buffers are for.   *)
LEMMA EntriesFacts ==
  ASSUME CollectionInv, NEW h \in Handlers
  PROVE  /\ LiveEntries(h) = {x \in Clients: Listed(h, x) /\ client[x].exists}
         /\ \A t: {x \in LiveEntries(h): client[x].m_eBufferType = t} = LiveOf(h, t, Clients)
<1>1. \A x: x \in ToSet(handler[h].clients) <=> Listed(h, x)
  BY DEF ToSet, Listed
<1>2. \A x: Listed(h, x) => x \in Clients
  BY ListFacts DEF Listed
<1> QED
  BY <1>1, <1>2 DEF LiveEntries, LiveOf

(* The counters agree with the list.                                       *)
LEMMA FollowSubscribers ==
  FollowInv => SubscribersAreCounted
<1> SUFFICES ASSUME FollowInv, NEW h \in Handlers, handler[h].m_Registered
             PROVE  LET subscribers == handler[h].m_BufferTypeSubscribers
                        own == {it \in Iterations: it.handler = h}
                    IN /\ \/ \E it \in own: it.function = "count"
                          \/ \A t \in BufferTypes:
                               subscribers[t] >= Cardinality({x \in LiveEntries(h): client[x].m_eBufferType = t})
                       /\ own = {} => Total(subscribers) = Len(handler[h].clients)
  BY DEF SubscribersAreCounted, UnusedHandlers
<1>1. CollectionInv /\ Balanced(h) /\ Subscribed(h)
  BY DEF FollowInv, Subscriptions
<1>2. \A c: c \in Iterations <=> c \in Pending /\ c.do = "ForEach"
  BY DEF Iterations, Pending, ToSet
<1>3. Counting(h) => Top \in Iterations /\ Top.handler = h /\ Top.function = "count"
  BY <1>1, <1>2, Innermost DEF Counting, AtTop, Running, Top
<1>4. WillCount(h) => \E c \in Iterations: c.handler = h
  BY <1>2 DEF WillCount
<1>5. ~Counting(h) => \A t \in BufferTypes:
        handler[h].m_BufferTypeSubscribers[t] >= Cardinality({x \in LiveEntries(h): client[x].m_eBufferType = t})
  BY <1>1, EntriesFacts DEF Subscribed, Counters
<1> QED
  BY <1>1, <1>3, <1>4, <1>5 DEF Balanced, Counters

(* Between two handlers nothing is on its way.                             *)
LEMMA FollowPorts ==
  FollowInv /\ ForgottenUnlessFailed => PortsFollowClients
<1> SUFFICES ASSUME FollowInv, ForgottenUnlessFailed, calls = <<>>, daemon # "failed"
             PROVE  PortsFollowClients
  BY DEF PortsFollowClients
<1>1. /\ CollectionInv /\ Members /\ Released /\ InServerList /\ Wanted /\ Mapped /\ LocksCounted /\ OpenUnlessLocked
      /\ Pending = {} /\ ~s_bCyclicCallGuard /\ Forgotten
      /\ \A do, h: ~AtTop(do, h)
      /\ \A x, h: ~Waits(x, h) /\ ~AwaitsStop(x, h)
  BY AtRest DEF Ports, Locks, ForgottenUnlessFailed
<1>2. /\ \A x \in Clients: client[x].exists => client[x].m_Registered
      /\ \A x \in Clients, h \in Handlers: client[x].exists /\ Listed(h, x) => Stopper(x) = h
  BY <1>1, Idle
<1>3. \A x \in Clients, h \in Handlers: Stopper(x) = h =>
        client[x].exists /\ handler[h].m_Registered /\ Listed(h, x)
  <2> SUFFICES ASSUME NEW x \in Clients, NEW h \in Handlers, Stopper(x) = h
               PROVE  client[x].exists /\ handler[h].m_Registered /\ Listed(h, x)
    OBVIOUS
  <2>1. client[x].exists
    BY <1>1, ConstantsAssumption DEF Released
  <2>2. Member(x, h)
    BY <1>2, <2>1 DEF Member
  <2> QED
    BY <1>1, <2>1, <2>2 DEF Members
<1>4. ASSUME NEW h \in Handlers
      PROVE  LET attached == {x \in Clients: client[x].m_SerialPortHandlerStopper = h}
             IN /\ handler[h].m_Registered <=> attached # {}
                /\ attached = LiveEntries(h)
                /\ \A n \in Names: m_SerialPortHandlerMap[n] = h <=> handler[h].m_Registered /\ handler[h].m_SerialPortName = n
                /\ handler[h].m_NbrOfLocks = Cardinality({x \in attached: client[x].m_bLockedBySelf})
                /\ handler[h].m_Registered => handler[h].open = (handler[h].m_NbrOfLocks = 0)
  <2> DEFINE attached == {x \in Clients: client[x].m_SerialPortHandlerStopper = h}
  <2>1. \A x: x \in attached <=> x \in Clients /\ Stopper(x) = h
    BY DEF Stopper
  <2>2. Holders(h) = {x \in attached: client[x].m_bLockedBySelf}
    BY DEF Holders, Stopper
  <2> HIDE DEF attached
  <2>3. handler[h].m_Registered <=> attached # {}
    BY <1>1, <1>3, <2>1 DEF Wanted
  <2>4. attached = LiveEntries(h)
    <3>1. LiveEntries(h) = {x \in Clients: Listed(h, x) /\ client[x].exists}
      BY <1>1, EntriesFacts
    <3>2. \A x: x \in attached <=> x \in LiveEntries(h)
      BY <1>2, <1>3, <2>1, <3>1
    <3> QED
      BY <3>2
  <2>5. \A n \in Names: m_SerialPortHandlerMap[n] = h <=> handler[h].m_Registered /\ handler[h].m_SerialPortName = n
    BY <1>1 DEF Mapped
  <2>6. handler[h].m_NbrOfLocks = Cardinality(Holders(h))
    <3>1. CASE handler[h].m_Registered
      <4>1. handler[h].m_NbrOfLocks = Cardinality(Holders(h)) + 0
        BY <1>1, <3>1 DEF LocksCounted
      <4>2. Cardinality(Holders(h)) \in Nat
        BY ClientsFacts DEF Holders
      <4> QED
        BY <4>1, <4>2
    <3>2. CASE ~handler[h].m_Registered
      <4>1. handler[h].m_NbrOfLocks = 0
        BY <1>1, <3>2 DEF Forgotten, Iterated
      <4>2. Holders(h) = {}
        BY <1>3, <3>2 DEF Holders
      <4> QED
        BY <4>1, <4>2, FS_EmptySet
    <3> QED
      BY <3>1, <3>2
  <2>7. handler[h].m_Registered => handler[h].open = (handler[h].m_NbrOfLocks = 0)
    <3>1. handler[h].open \in BOOLEAN
      BY <1>1 DEF CollectionInv, ObjectTypes, PortType
    <3>2. handler[h].m_Registered => (handler[h].open <=> handler[h].m_NbrOfLocks = 0)
      BY <1>1 DEF OpenUnlessLocked
    <3> QED
      BY <3>1, <3>2
  <2> QED
    BY <2>2, <2>3, <2>4, <2>5, <2>6, <2>7 DEF attached
<1>5. ASSUME NEW x \in Clients
      PROVE  client[x].exists = (x \in m_HdlcdServerHandlerList)
  <2>1. client[x].exists \in BOOLEAN
    BY <1>1 DEF CollectionInv, ObjectTypes, ClientType
  <2>2. client[x].m_Registered => client[x].exists
    BY <1>1 DEF CollectionInv, Objects
  <2>3. client[x].exists <=> x \in m_HdlcdServerHandlerList
    BY <1>1, <1>2, <2>2 DEF InServerList
  <2> QED
    BY <2>1, <2>3
<1> QED
  BY <1>1, <1>4, <1>5 DEF PortsFollowClients

(* The objects, the lists and the calls have their types; neither a lock   *)
(* counter nor a counter of subscribers exceeds the number of clients.     *)
THEOREM CollectionTypeCorrect == Spec => []TypeOK
BY FollowInvariance, FollowTypes, PTL

(* RequiresBufferType denies no buffer that a client waits for, and the    *)
(* counters count the list when no iteration is in progress.               *)
THEOREM SubscribersCounted == Spec => []SubscribersAreCounted
BY FollowInvariance, FollowSubscribers, PTL

(* Between two handlers the registered ports are those that clients are    *)
(* attached to, their names lead to them, and they are open unless a       *)
(* client has locked them.                                                 *)
THEOREM PortsAndClientsFollow == Spec => []PortsFollowClients
BY FollowInvariance, LocksForgotten, FollowPorts, PTL
=============================================================================
