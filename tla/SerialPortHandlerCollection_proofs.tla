----------------- MODULE SerialPortHandlerCollection_proofs -----------------
(***************************************************************************)
(* Nobody is passed over by the iterations over the clients of a port, for *)
(* every number of clients, ports and names.  The invariant describes the  *)
(* stack of calls: which call may be above which, and which calls may be   *)
(* under way together.                                                     *)
(***************************************************************************)
EXTENDS SerialPortHandlerCollection, SequenceTheorems, TLAPS

Stopper(x) == client[x].m_SerialPortHandlerStopper

Listed(h, x) == \E i \in DOMAIN handler[h].clients: handler[h].clients[i] = x

-----------------------------------------------------------------------------
(* The calls, by what they may lead to.                                    *)

Stopping(c) == c.do = "ForEach" /\ c.function = "stop"
Querying(c) == c.do = "ForEach" /\ c.function \in {"query", "enqueue"}

\* Nobody is called back but the endpoints.
Quiet(c) ==
  \/ c.do \in {"Propagate", "Deliver"}
  \/ c.do = "ForEach" /\ c.function \in {"update", "deliver", "count"}

AboutPort(c) == c.do \in {"Open", "Resume", "Stop"} \/ Stopping(c)
Destroying(c) == c.do \in {"DestroyClient", "ReleaseStopper"}
Ending(c) == c.do \in {"StopClient", "LeaveClient"} \/ Destroying(c)

(* c may be right above d on the stack: d made the call, or comes next in  *)
(* what called both.                                                       *)
MayCall(c, d) ==
  \/ Stopping(d) /\ (Destroying(c) \/ c.do = "Stop" \/ (c.do = "LeaveClient" /\ c.locked))
  \/ d.do = "ForEach" /\ d.function = "enqueue" /\ c.do = "LeaveClient" /\ c.locked
  \/ d.do = "LeaveClient" /\ (Quiet(c) \/ (c.do = "StopClient" /\ c.client = d.client))
  \/ d.do \in {"Attach", "ReleaseStopper"} /\ (Quiet(c) \/ Stopping(c) \/ c.do \in {"Open", "Resume"})
  \/ d.do \in {"Propagate", "Deliver"} /\ Quiet(c)
  \/ d.do = "DestroyClient" /\ c.do = "Stop"

InOrder(s) ==
  \A i \in DOMAIN s:
    IF i = Len(s) THEN s[i].do # "LeaveClient" ELSE MayCall(s[i], s[i + 1])

(* There is one iteration that stops clients, and nothing else is done     *)
(* with a client that is being destroyed.                                  *)
Exclude(c, d) ==
  /\ ~(Stopping(c) /\ Stopping(d))
  /\ Destroying(c) /\ (Ending(d) \/ d.do = "Attach") => c.client # d.client

Distinct(s) == \A i, j \in DOMAIN s: i # j => Exclude(s[i], s[j])

Chain(s) == InOrder(s) /\ Distinct(s)

(* While a port is opened or stopped, nothing else is under way than what  *)
(* its clients have to do with that; nothing is stopped while a client is  *)
(* asked for a packet and what it has sent is delivered.                   *)
Concerns(h, c) ==
  \/ (AboutPort(c) \/ c.do = "Attach") /\ c.handler = h
  \/ Ending(c) /\ Stopper(c.client) \in {None, h}

Sends(c) ==
  \/ Quiet(c) \/ Querying(c)
  \/ c.do = "LeaveClient" /\ client[c.client].m_Registered

Agree(c, d) ==
  /\ AboutPort(c) => Concerns(c.handler, d)
  /\ Querying(c) => Sends(d)
  /\ c.do = "DestroyClient" /\ d.do = "Stop" => ~handler[d.handler].m_Registered

\* What holds of the objects a call is about.
Justified(c) ==
  /\ c.do \in {"Open", "Query"} \/ Querying(c) => handler[c.handler].m_Registered
  /\ Stopping(c) => ~handler[c.handler].m_Registered
  /\ c.do = "ReleaseStopper" => ~client[c.client].exists /\ Stopper(c.client) # None
  /\ c.do = "Attach" =>
       /\ client[c.client].exists /\ Stopper(c.client) = None
       /\ handler[c.handler].m_Registered =>
            client[c.client].m_Registered /\ Listed(c.handler, c.client)

Pending == ToSet(calls)

Together == \A c, d \in Pending: Agree(c, d)
CallsJustified == \A c \in Pending: Justified(c)
GuardLocked == s_bCyclicCallGuard <=> \E c \in Pending: c.do = "LeaveClient"

\* A client that is not registered any more, or entered and not attached, is in use.
InUse(x, dos) == \E c \in Pending: c.do \in dos /\ c.client = x

Used ==
  \A x \in Clients: client[x].exists =>
    /\ client[x].m_Registered \/ InUse(x, {"DestroyClient", "LeaveClient", "Attach"})
    /\ \A h \in Handlers: Listed(h, x) => Stopper(x) = h \/ InUse(x, {"DestroyClient", "Attach"})

Stack == Chain(calls) /\ Together /\ CallsJustified /\ GuardLocked /\ Used

-----------------------------------------------------------------------------
(* The objects.                                                            *)

Lists ==
  /\ \A h \in Handlers: \A i, j \in DOMAIN handler[h].clients:
       handler[h].clients[i] = handler[h].clients[j] => i = j
  /\ \A x \in Clients, g, h \in Handlers: Listed(g, x) /\ Listed(h, x) => g = h
  /\ \A x \in Clients, h \in Handlers: Listed(h, x) => Stopper(x) \in {None, h}

Objects ==
  /\ \A x \in Clients:
       /\ client[x].m_Registered => client[x].exists
       /\ client[x].m_bLockedBySelf => client[x].exists /\ Stopper(x) # None
  /\ \A h \in Handlers: handler[h].open => handler[h].m_Registered

\* An iteration that has passed over nobody.
Complete(it) ==
  LET list == handler[it.handler].clients
  IN \/ /\ it.next = None
        /\ \A i \in DOMAIN list: client[list[i]].exists => list[i] \in it.seen
     \/ \E n \in DOMAIN list:
          /\ it.next = list[n]
          /\ \A i \in 1..(n - 1): client[list[i]].exists => list[i] \in it.seen

NobodyMissed == \A c \in Pending: c.do = "ForEach" => Complete(c)

\* The types, without the bounds of the counters.
PortType ==
  [m_Registered: BOOLEAN,
   m_SerialPortName: Names \cup {None},
   open: BOOLEAN,
   m_NbrOfLocks: Int,
   clients: Seq(Clients),
   m_BufferTypeSubscribers: [BufferTypes -> Nat]]

ObjectTypes ==
  /\ client \in [Clients -> ClientType]
  /\ handler \in [Handlers -> PortType]
  /\ m_SerialPortHandlerMap \in [Names -> Handlers \cup {None}]
  /\ m_HdlcdServerHandlerList \subseteq Clients
  /\ s_bCyclicCallGuard \in BOOLEAN

CollectionInv ==
  /\ ObjectTypes /\ calls \in Seq(CallType)
  /\ daemon \in {"running", "shutdown", "stopped", "failed"}
  /\ Lists /\ Objects /\ NobodyMissed
  /\ daemon = "failed" => calls = <<>>
  /\ daemon # "failed" => Stack

-----------------------------------------------------------------------------
(* Stacks.                                                                 *)

MayBegin(c, s) == IF s = <<>> THEN c.do # "LeaveClient" ELSE MayCall(c, s[1])

(* A call on top of a stack.                                               *)
LEMMA TopFacts ==
  ASSUME NEW C, NEW s \in Seq(C), NEW c \in C, NEW t, t = <<c>> \o s
  PROVE  /\ t \in Seq(C) /\ Len(t) = Len(s) + 1 /\ t # <<>>
         /\ DOMAIN t = 1..(Len(s) + 1) /\ DOMAIN s = 1..Len(s) /\ Len(s) \in Nat
         /\ t[1] = c
         /\ \A i \in DOMAIN s: t[i + 1] = s[i]
         /\ \A i \in DOMAIN t: i # 1 => i - 1 \in DOMAIN s /\ t[i] = s[i - 1]
<1>1. <<c>> \in Seq(C) /\ Len(<<c>>) = 1 /\ <<c>>[1] = c
  OBVIOUS
<1>2. /\ t \in Seq(C) /\ Len(t) = 1 + Len(s)
      /\ \A i \in 1..(1 + Len(s)): t[i] = IF i <= 1 THEN <<c>>[i] ELSE s[i - 1]
  BY <1>1, ConcatProperties
<1>3. DOMAIN t = 1..(Len(s) + 1) /\ DOMAIN s = 1..Len(s) /\ Len(s) \in Nat
  BY <1>2, LenProperties
<1>4. t # <<>> /\ t[1] = c
  BY <1>1, <1>2, <1>3
<1>5. \A i \in DOMAIN s: t[i + 1] = s[i]
  BY <1>2, <1>3
<1>6. \A i \in DOMAIN t: i # 1 => i - 1 \in DOMAIN s /\ t[i] = s[i - 1]
  BY <1>2, <1>3
<1> QED
  BY <1>2, <1>3, <1>4, <1>5, <1>6

(* A stack without its top.                                                *)
LEMMA TailFacts ==
  ASSUME NEW C, NEW s \in Seq(C), s # <<>>
  PROVE  s[1] \in C /\ Tail(s) \in Seq(C) /\ s = <<s[1]>> \o Tail(s)
<1>1. /\ s[1] \in C /\ Tail(s) \in Seq(C) /\ Len(Tail(s)) = Len(s) - 1
      /\ \A i \in 1..Len(Tail(s)): Tail(s)[i] = s[i + 1]
  BY HeadTailProperties
<1> DEFINE t == <<s[1]>> \o Tail(s)
<1>2. /\ t \in Seq(C) /\ Len(t) = Len(Tail(s)) + 1 /\ t[1] = s[1]
      /\ \A i \in DOMAIN t: i # 1 => i - 1 \in DOMAIN Tail(s) /\ t[i] = Tail(s)[i - 1]
      /\ DOMAIN t = 1..(Len(Tail(s)) + 1)
  BY <1>1, TopFacts
<1> HIDE DEF t
<1>3. Len(t) = Len(s) /\ \A i \in 1..Len(t): t[i] = s[i]
  <2>1. Len(s) \in Nat /\ Len(t) = Len(s) /\ DOMAIN Tail(s) = 1..Len(Tail(s))
    BY <1>1, <1>2, LenProperties
  <2>2. \A i \in DOMAIN t: i # 1 => (i - 1) + 1 = i
    BY <1>1, <1>2, <2>1
  <2> QED
    BY <1>1, <1>2, <2>1, <2>2
<1>4. t = s
  BY <1>2, <1>3, SeqEqual
<1> QED
  BY <1>1, <1>4 DEF t

(* What is on a stack with a call on top, and when it is a chain.          *)
LEMMA Pushed ==
  ASSUME NEW s \in Seq(CallType), NEW c \in CallType, NEW t, t = <<c>> \o s
  PROVE  /\ t \in Seq(CallType) /\ t # <<>> /\ t[1] = c
         /\ ToSet(t) = {c} \cup ToSet(s)
         /\ ToSet(s) \subseteq CallType
         /\ Chain(t) <=> /\ Chain(s) /\ MayBegin(c, s)
                         /\ \A d \in ToSet(s): Exclude(c, d) /\ Exclude(d, c)
<1>1. /\ t \in Seq(CallType) /\ Len(t) = Len(s) + 1 /\ t # <<>> /\ t[1] = c
      /\ DOMAIN t = 1..(Len(s) + 1) /\ DOMAIN s = 1..Len(s) /\ Len(s) \in Nat
  BY TopFacts
<1>2. \A i \in DOMAIN s: i + 1 \in DOMAIN t /\ i + 1 # 1 /\ t[i + 1] = s[i]
  <2>1. \A i \in DOMAIN s: t[i + 1] = s[i]
    BY TopFacts
  <2> QED
    BY <1>1, <2>1
<1>3. \A i \in DOMAIN t: i # 1 => i - 1 \in DOMAIN s /\ t[i] = s[i - 1]
  BY TopFacts
<1>4. 1 \in DOMAIN t
  BY <1>1
<1>5. ToSet(t) = {c} \cup ToSet(s)
  <2>1. \A i \in DOMAIN t: t[i] = c \/ \E j \in DOMAIN s: t[i] = s[j]
    BY <1>1, <1>3
  <2>2. \A j \in DOMAIN s: \E i \in DOMAIN t: s[j] = t[i]
    BY <1>2
  <2> QED
    BY <1>1, <1>4, <2>1, <2>2 DEF ToSet
<1>6. ToSet(s) \subseteq CallType
  BY <1>1 DEF ToSet
<1>7. InOrder(t) <=> InOrder(s) /\ MayBegin(c, s)
  <2>1. s = <<>> <=> Len(s) = 0
    BY EmptySeq
  <2>2. ASSUME InOrder(t)
        PROVE  InOrder(s) /\ MayBegin(c, s)
    <3>1. \A i \in DOMAIN s: IF i = Len(s) THEN s[i].do # "LeaveClient" ELSE MayCall(s[i], s[i + 1])
      <4> SUFFICES ASSUME NEW i \in DOMAIN s
                   PROVE  IF i = Len(s) THEN s[i].do # "LeaveClient" ELSE MayCall(s[i], s[i + 1])
        OBVIOUS
      <4>1. i + 1 \in DOMAIN t /\ t[i + 1] = s[i]
        BY <1>2
      <4>2. IF i + 1 = Len(t) THEN t[i + 1].do # "LeaveClient" ELSE MayCall(t[i + 1], t[(i + 1) + 1])
        BY <2>2, <4>1 DEF InOrder
      <4>3. i + 1 = Len(t) <=> i = Len(s)
        BY <1>1
      <4>4. i # Len(s) => i + 1 \in DOMAIN s
        BY <1>1
      <4>5. i # Len(s) => t[(i + 1) + 1] = s[i + 1]
        BY <1>2, <4>4
      <4> QED
        BY <4>1, <4>2, <4>3, <4>5
    <3>2. IF 1 = Len(t) THEN c.do # "LeaveClient" ELSE MayCall(c, t[1 + 1])
      BY <1>1, <1>4, <2>2 DEF InOrder
    <3>3. 1 = Len(t) <=> s = <<>>
      BY <1>1, <2>1
    <3>4. s # <<>> => 1 \in DOMAIN s
      BY <1>1, <2>1
    <3>5. s # <<>> => t[1 + 1] = s[1]
      BY <1>2, <3>4
    <3> QED
      BY <3>1, <3>2, <3>3, <3>5 DEF InOrder, MayBegin
  <2>3. ASSUME InOrder(s), MayBegin(c, s)
        PROVE  InOrder(t)
    <3> SUFFICES ASSUME NEW i \in DOMAIN t
                 PROVE  IF i = Len(t) THEN t[i].do # "LeaveClient" ELSE MayCall(t[i], t[i + 1])
      BY DEF InOrder
    <3>1. CASE i = 1
      <4>1. i = Len(t) <=> s = <<>>
        BY <1>1, <2>1, <3>1
      <4>2. s # <<>> => 1 \in DOMAIN s
        BY <1>1, <2>1
      <4>3. s # <<>> => t[i + 1] = s[1]
        BY <1>2, <3>1, <4>2
      <4> QED
        BY <1>1, <2>3, <3>1, <4>1, <4>3 DEF MayBegin
    <3>2. CASE i # 1
      <4>1. i - 1 \in DOMAIN s /\ t[i] = s[i - 1]
        BY <1>3, <3>2
      <4>2. IF i - 1 = Len(s) THEN s[i - 1].do # "LeaveClient" ELSE MayCall(s[i - 1], s[(i - 1) + 1])
        BY <2>3, <4>1 DEF InOrder
      <4>3. (i = Len(t) <=> i - 1 = Len(s)) /\ (i - 1) + 1 = i
        BY <1>1
      <4>4. i # Len(t) => i \in DOMAIN s
        BY <1>1
      <4>5. i # Len(t) => t[i + 1] = s[i]
        BY <1>2, <4>4
      <4> QED
        BY <4>1, <4>2, <4>3, <4>5
    <3> QED
      BY <3>1, <3>2
  <2> QED
    BY <2>2, <2>3
<1>8. Distinct(t) <=> /\ Distinct(s)
                      /\ \A d \in ToSet(s): Exclude(c, d) /\ Exclude(d, c)
  <2>1. ASSUME Distinct(t)
        PROVE  Distinct(s) /\ \A d \in ToSet(s): Exclude(c, d) /\ Exclude(d, c)
    <3>1. ASSUME NEW i \in DOMAIN s, NEW j \in DOMAIN s, i # j
          PROVE  Exclude(s[i], s[j])
      <4>1. /\ i + 1 \in DOMAIN t /\ t[i + 1] = s[i]
            /\ j + 1 \in DOMAIN t /\ t[j + 1] = s[j]
        BY <1>2
      <4>2. i + 1 # j + 1
        BY <1>1, <3>1
      <4> QED
        BY <2>1, <4>1, <4>2 DEF Distinct
    <3>2. ASSUME NEW i \in DOMAIN s
          PROVE  Exclude(c, s[i]) /\ Exclude(s[i], c)
      BY <1>1, <1>2, <1>4, <2>1 DEF Distinct
    <3> QED
      BY <3>1, <3>2 DEF Distinct, ToSet
  <2>2. ASSUME Distinct(s), \A d \in ToSet(s): Exclude(c, d) /\ Exclude(d, c)
        PROVE  Distinct(t)
    <3> SUFFICES ASSUME NEW i \in DOMAIN t, NEW j \in DOMAIN t, i # j
                 PROVE  Exclude(t[i], t[j])
      BY DEF Distinct
    <3>1. \A k \in DOMAIN s: s[k] \in ToSet(s)
      BY DEF ToSet
    <3>2. CASE i = 1
      BY <1>1, <1>3, <2>2, <3>1, <3>2
    <3>3. CASE j = 1
      BY <1>1, <1>3, <2>2, <3>1, <3>3
    <3>4. CASE i # 1 /\ j # 1
      <4>1. i - 1 \in DOMAIN s /\ t[i] = s[i - 1] /\ j - 1 \in DOMAIN s /\ t[j] = s[j - 1]
        BY <1>3, <3>4
      <4>2. i - 1 # j - 1
        BY <1>1
      <4> QED
        BY <2>2, <4>1, <4>2 DEF Distinct
    <3> QED
      BY <3>2, <3>3, <3>4
  <2> QED
    BY <2>1, <2>2
<1> QED
  BY <1>1, <1>5, <1>6, <1>7, <1>8 DEF Chain

(* The empty stack.                                                        *)
LEMMA NoCalls == <<>> \in Seq(CallType) /\ ToSet(<<>>) = {} /\ Chain(<<>>)
  BY DEF ToSet, Chain, InOrder, Distinct

(* The calls of what is at the bottom of a stack have nothing under them.  *)
AtBottom(c) == c.do \in {"Attach", "Query"} \/ Querying(c)

(* What may be under a call on a stack.                                    *)
LEMMA UnderCall ==
  ASSUME NEW c, NEW d
  PROVE  /\ MayCall(c, d) => d.do \notin {"StopClient", "Stop", "Open", "Resume", "Query"}
         /\ MayCall(c, d) => ~AtBottom(c)
         /\ MayCall(c, d) /\ d.do = "ForEach" => Stopping(d) \/ (d.function = "enqueue" /\ c.do = "LeaveClient")
         /\ MayCall(c, d) /\ d.do = "DestroyClient" => c.do = "Stop"
         /\ MayCall(c, d) /\ c.do = "LeaveClient" => Stopping(d) \/ Querying(d)
  BY DEF MayCall, AtBottom, Stopping, Querying, Destroying, Quiet


-----------------------------------------------------------------------------
(* Types of calls.                                                         *)

(* What the kind of a call says about the call.                            *)
LEMMA CallFacts ==
  ASSUME NEW c \in CallType
  PROVE  /\ c.do = "ForEach" => /\ c.handler \in Handlers /\ c.function \in Functions
                                /\ c.next \in Clients \cup {None}
                                /\ c.rebuild \in BOOLEAN /\ c.seen \subseteq Clients
         /\ Ending(c) \/ c.do = "Attach" => c.client \in Clients
         /\ AboutPort(c) \/ c.do \in {"Attach", "Propagate", "Query", "Deliver"} => c.handler \in Handlers
         /\ c.do = "Deliver" => c.type \in BufferTypes
         /\ \/ Quiet(c) \/ Querying(c) \/ AboutPort(c) \/ Ending(c) \/ c.do \in {"Attach", "Query"}
  BY DEF CallType, Ending, AboutPort, Destroying, Stopping, Quiet, Querying, Functions

OnPort(do, h) == [do |-> do, handler |-> h]
OnClient(do, x) == [do |-> do, client |-> x]
Delivery(h, t) == [do |-> "Deliver", handler |-> h, type |-> t]
Leaving(x, locked) == [do |-> "LeaveClient", client |-> x, locked |-> locked]
Attaching(h, x) == [do |-> "Attach", handler |-> h, client |-> x]
Iteration(h, function, next, rebuild, seen) ==
  [do |-> "ForEach", handler |-> h, function |-> function, next |-> next,
   rebuild |-> rebuild, seen |-> seen]

(* The calls that the actions make.                                        *)
LEMMA NewCalls ==
  /\ \A do \in {"Propagate", "Query", "Open", "Resume", "Stop"}, h \in Handlers: OnPort(do, h) \in CallType
  /\ \A do \in {"StopClient", "DestroyClient", "ReleaseStopper"}, x \in Clients: OnClient(do, x) \in CallType
  /\ \A t \in BufferTypes, h \in Handlers: Delivery(h, t) \in CallType
  /\ \A locked \in BOOLEAN, x \in Clients: Leaving(x, locked) \in CallType
  /\ \A h \in Handlers, x \in Clients: Attaching(h, x) \in CallType
  /\ \A h \in Handlers, function \in Functions, next \in Clients \cup {None}, rebuild \in BOOLEAN, seen \in SUBSET Clients:
       Iteration(h, function, next, rebuild, seen) \in CallType
<1>1. \A do \in {"Propagate", "Query", "Open", "Resume", "Stop"}, h \in Handlers: OnPort(do, h) \in CallType
  BY DEF CallType, OnPort
<1>2. \A do \in {"StopClient", "DestroyClient", "ReleaseStopper"}, x \in Clients: OnClient(do, x) \in CallType
  BY DEF CallType, OnClient
<1>3. \A t \in BufferTypes, h \in Handlers: Delivery(h, t) \in CallType
  BY DEF CallType, Delivery
<1>4. \A locked \in BOOLEAN, x \in Clients: Leaving(x, locked) \in CallType
  BY DEF CallType, Leaving
<1>5. \A h \in Handlers, x \in Clients: Attaching(h, x) \in CallType
  BY DEF CallType, Attaching
<1>6. \A h \in Handlers, function \in Functions, next \in Clients \cup {None}, rebuild \in BOOLEAN, seen \in SUBSET Clients:
        Iteration(h, function, next, rebuild, seen) \in CallType
  BY DEF CallType, Iteration
<1> QED
  BY <1>1, <1>2, <1>3, <1>4, <1>5, <1>6

-----------------------------------------------------------------------------
(* Steps that leave the lists and the registrations alone.                 *)

SameObjects ==
  /\ client' = client
  /\ \A h \in Handlers:
       /\ handler'[h].m_Registered = handler[h].m_Registered
       /\ handler'[h].clients = handler[h].clients
       /\ handler'[h].open => handler[h].m_Registered

(* What is said about objects and calls stays true.                        *)
LEMMA SameFacts ==
  ASSUME SameObjects
  PROVE  /\ Lists => Lists'
         /\ Objects => Objects'
         /\ \A c, d \in CallType: Agree(c, d) => Agree(c, d)'
         /\ \A c \in CallType: Justified(c) => Justified(c)'
         /\ \A c \in CallType: c.do = "ForEach" /\ Complete(c) => Complete(c)'
         /\ \A x \in Clients, h \in Handlers: Listed(h, x)' <=> Listed(h, x)
         /\ \A x \in Clients: Stopper(x)' = Stopper(x)
<1>1. /\ \A x, h: h \in Handlers => (Listed(h, x)' <=> Listed(h, x))
      /\ \A x: Stopper(x)' = Stopper(x)
  BY DEF SameObjects, Listed, Stopper
<1>2. Lists => Lists'
  BY <1>1 DEF SameObjects, Lists
<1>3. Objects => Objects'
  BY <1>1 DEF SameObjects, Objects
<1>4. ASSUME NEW c \in CallType, NEW d \in CallType, Agree(c, d)
      PROVE  Agree(c, d)'
  <2>1. AboutPort(d) => d.handler \in Handlers
    BY CallFacts
  <2>2. \A h: Concerns(h, d)' <=> Concerns(h, d)
    BY <1>1 DEF Concerns
  <2>3. Sends(d)' <=> Sends(d)
    BY DEF Sends, SameObjects
  <2> QED
    BY <1>4, <2>1, <2>2, <2>3 DEF Agree, AboutPort, SameObjects
<1>5. ASSUME NEW c \in CallType, Justified(c)
      PROVE  Justified(c)'
  <2>1. c.do \in {"Open", "Query", "Attach"} \/ Querying(c) \/ Stopping(c) => c.handler \in Handlers
    BY CallFacts DEF AboutPort, Querying
  <2> QED
    BY <1>1, <1>5, <2>1 DEF Justified, SameObjects
<1>6. ASSUME NEW c \in CallType, c.do = "ForEach", Complete(c)
      PROVE  Complete(c)'
  <2>1. c.handler \in Handlers
    BY <1>6, CallFacts
  <2> QED
    BY <1>6, <2>1 DEF Complete, SameObjects
<1> QED
  BY <1>1, <1>2, <1>3, <1>4, <1>5, <1>6

Top == calls[1]
Rest == Tail(calls)

(* The innermost call, and what is under it.                               *)
LEMMA Innermost ==
  ASSUME CollectionInv, calls # <<>>
  PROVE  /\ Top \in CallType /\ Rest \in Seq(CallType) /\ calls = <<Top>> \o Rest
         /\ daemon # "failed" /\ Stack
         /\ Pending = {Top} \cup ToSet(Rest) /\ Pending \subseteq CallType
         /\ Chain(calls) /\ Chain(Rest) /\ MayBegin(Top, Rest)
         /\ \A d \in ToSet(Rest): Exclude(Top, d) /\ Exclude(d, Top)
         /\ \A d, e \in Pending: Agree(d, e)
         /\ \A d \in Pending: Justified(d) /\ (d.do = "ForEach" => Complete(d))
<1>1. Top \in CallType /\ Rest \in Seq(CallType) /\ calls = <<Top>> \o Rest
  BY TailFacts DEF CollectionInv, Top, Rest
<1>2. daemon # "failed" /\ Stack
  BY DEF CollectionInv
<1>3. Chain(calls)
  BY <1>2 DEF Stack
<1>4. Pending = {Top} \cup ToSet(Rest) /\ Pending \subseteq CallType
  BY <1>1, Pushed DEF Pending
<1>5. Chain(Rest) /\ MayBegin(Top, Rest) /\ \A d \in ToSet(Rest): Exclude(Top, d) /\ Exclude(d, Top)
  BY <1>1, <1>3, Pushed
<1>6. \A d, e \in Pending: Agree(d, e)
  BY <1>2 DEF Stack, Together
<1>7. \A d \in Pending: Justified(d) /\ (d.do = "ForEach" => Complete(d))
  BY <1>2 DEF Stack, CallsJustified, CollectionInv, NobodyMissed
<1> QED
  BY <1>1, <1>2, <1>3, <1>4, <1>5, <1>6, <1>7

(* The new calls N are put over the calls s.                               *)
LEMMA SameObjectsStep ==
  ASSUME CollectionInv, daemon # "failed", daemon' = daemon, SameObjects, ObjectTypes',
         NEW s \in Seq(CallType), ToSet(s) \subseteq Pending,
         NEW N, Pending' = N \cup ToSet(s), N \subseteq CallType,
         calls' \in Seq(CallType), Chain(calls'),
         \A a \in N: Justified(a) /\ (a.do = "ForEach" => Complete(a)),
         \A a \in N: \A d \in N \cup ToSet(s): Agree(a, d) /\ Agree(d, a),
         GuardLocked', Used'
  PROVE  CollectionInv'
<1>1. ToSet(s) \subseteq CallType
  BY DEF ToSet
<1>2. Stack
  BY DEF CollectionInv
<1>3. \A d \in N \cup ToSet(s): d \in CallType /\ Justified(d) /\ (d.do = "ForEach" => Complete(d))
  BY <1>1, <1>2 DEF CollectionInv, NobodyMissed, Stack, CallsJustified
<1>4. \A d, e \in N \cup ToSet(s): Agree(d, e)
  BY <1>2 DEF Stack, Together
<1>5. Together'
  BY <1>3, <1>4, SameFacts DEF Together
<1>6. CallsJustified' /\ NobodyMissed'
  BY <1>3, SameFacts DEF CallsJustified, NobodyMissed
<1>7. Lists' /\ Objects'
  BY SameFacts DEF CollectionInv
<1> QED
  BY <1>5, <1>6, <1>7 DEF CollectionInv, Stack

(* Clients stay in use unless what uses them returns.                      *)
LEMMA UsedKept ==
  ASSUME Used, SameObjects,
         \A d \in Pending: d \in Pending' \/ d.do \notin {"DestroyClient", "LeaveClient", "Attach"}
  PROVE  Used'
<1>1. \A x: InUse(x, {"DestroyClient", "LeaveClient", "Attach"}) => InUse(x, {"DestroyClient", "LeaveClient", "Attach"})'
  BY DEF InUse
<1>2. \A x: InUse(x, {"DestroyClient", "Attach"}) => InUse(x, {"DestroyClient", "Attach"})'
  BY DEF InUse
<1>3. /\ \A x \in Clients, h \in Handlers: Listed(h, x)' <=> Listed(h, x)
      /\ \A x \in Clients: Stopper(x)' = Stopper(x)
      /\ client' = client
  BY SameFacts DEF SameObjects
<1> QED
  BY <1>1, <1>2, <1>3 DEF Used

(* What is under the innermost call.                                       *)
LEMMA Under ==
  ASSUME CollectionInv, calls # <<>>
  PROVE  /\ \A d \in ToSet(Rest):
              /\ d.do \notin {"StopClient", "Stop", "Open", "Resume", "Query"}
              /\ d.do = "ForEach" => Stopping(d) \/ d.function = "enqueue"
              /\ d.do = "ForEach" /\ d.function = "enqueue" => \E e \in Pending: e.do = "LeaveClient"
              /\ d.do = "DestroyClient" => Top.do = "Stop"
              /\ d.do = "LeaveClient" => \E e \in ToSet(Rest): Stopping(e) \/ Querying(e)
         /\ AtBottom(Top) => Rest = <<>>
<1>0. /\ Top \in CallType /\ Rest \in Seq(CallType) /\ calls = <<Top>> \o Rest /\ Chain(calls)
      /\ Chain(Rest) /\ MayBegin(Top, Rest) /\ Pending = ToSet(calls)
  BY Innermost DEF Pending
<1>1. /\ Len(calls) = Len(Rest) + 1 /\ calls[1] = Top /\ Len(Rest) \in Nat
      /\ DOMAIN calls = 1..(Len(Rest) + 1) /\ DOMAIN Rest = 1..Len(Rest)
  BY <1>0, TopFacts
<1>2. \A i \in DOMAIN Rest: calls[i + 1] = Rest[i]
  BY <1>0, TopFacts
<1>3. \A i \in DOMAIN calls: i = Len(calls) \/ MayCall(calls[i], calls[i + 1])
  BY <1>0 DEF Chain, InOrder
<1>4. \A i \in DOMAIN Rest: i \in DOMAIN calls /\ i # Len(calls)
  BY <1>1
<1>5. \A i \in DOMAIN Rest: MayCall(calls[i], Rest[i])
  BY <1>2, <1>3, <1>4
<1>6. \A i \in DOMAIN calls: calls[i] \in Pending
  BY <1>0 DEF ToSet
<1>7. ASSUME NEW i \in DOMAIN Rest
      PROVE  /\ Rest[i].do \notin {"StopClient", "Stop", "Open", "Resume", "Query"}
             /\ Rest[i].do = "ForEach" => Stopping(Rest[i]) \/ Rest[i].function = "enqueue"
             /\ Rest[i].do = "ForEach" /\ Rest[i].function = "enqueue" => \E e \in Pending: e.do = "LeaveClient"
             /\ Rest[i].do = "DestroyClient" => Top.do = "Stop"
             /\ Rest[i].do = "LeaveClient" => \E e \in ToSet(Rest): Stopping(e) \/ Querying(e)
  <2>1. MayCall(calls[i], Rest[i]) /\ calls[i] \in Pending
    BY <1>4, <1>5, <1>6
  <2>2. Rest[i].do \notin {"StopClient", "Stop", "Open", "Resume", "Query"}
    BY <2>1, UnderCall
  <2>3. Rest[i].do = "ForEach" => Stopping(Rest[i]) \/ (Rest[i].function = "enqueue" /\ calls[i].do = "LeaveClient")
    BY <2>1, UnderCall
  <2>4. Rest[i].do = "ForEach" /\ Rest[i].function = "enqueue" => calls[i].do = "LeaveClient"
    BY <2>3 DEF Stopping
  <2>5. Rest[i].do = "DestroyClient" => Top.do = "Stop"
    <3>1. CASE i = 1
      BY <1>1, <2>1, <3>1, UnderCall
    <3>2. CASE i # 1
      <4>1. i - 1 \in DOMAIN Rest /\ (i - 1) + 1 = i
        BY <1>1, <3>2
      <4>2. calls[i] = Rest[i - 1]
        BY <1>2, <4>1
      <4>3. MayCall(calls[i - 1], calls[i])
        BY <1>5, <4>1, <4>2
      <4> QED
        BY <2>1, <4>3, UnderCall
    <3> QED
      BY <3>1, <3>2
  <2>6. Rest[i].do = "LeaveClient" => \E e \in ToSet(Rest): Stopping(e) \/ Querying(e)
    <3> SUFFICES ASSUME Rest[i].do = "LeaveClient"
                 PROVE  \E e \in ToSet(Rest): Stopping(e) \/ Querying(e)
      OBVIOUS
    <3>1. i # Len(Rest)
      <4>1. InOrder(Rest)
        BY <1>0 DEF Chain
      <4> QED
        BY <4>1 DEF InOrder
    <3>2. i + 1 \in DOMAIN Rest
      BY <1>1, <3>1
    <3>3. MayCall(Rest[i], Rest[i + 1])
      BY <1>2, <1>5, <3>2
    <3>4. Rest[i + 1] \in ToSet(Rest)
      BY <3>2 DEF ToSet
    <3> QED
      BY <3>3, <3>4, UnderCall
  <2> QED
    BY <2>1, <2>2, <2>3, <2>4, <2>5, <2>6
<1>8. AtBottom(Top) => Rest = <<>>
  BY <1>0, UnderCall DEF MayBegin
<1> QED
  BY <1>7, <1>8 DEF ToSet

(* A client is left, and clients are stopped, when no other client is left. *)
LEMMA OneLeaves ==
  ASSUME CollectionInv, calls # <<>>, Top.do = "LeaveClient" \/ Stopping(Top)
  PROVE  \A d \in ToSet(Rest): d.do # "LeaveClient"
<1> SUFFICES ASSUME NEW d \in ToSet(Rest), d.do = "LeaveClient"
             PROVE  FALSE
  OBVIOUS
<1>0. /\ Top \in CallType /\ Rest \in Seq(CallType) /\ calls = <<Top>> \o Rest /\ Chain(calls)
      /\ Chain(Rest) /\ MayBegin(Top, Rest) /\ Pending = ToSet(calls)
  BY Innermost DEF Pending
<1>1. /\ Len(calls) = Len(Rest) + 1 /\ calls[1] = Top /\ Len(Rest) \in Nat
      /\ DOMAIN calls = 1..(Len(Rest) + 1) /\ DOMAIN Rest = 1..Len(Rest)
  BY <1>0, TopFacts
<1>2. \A i \in DOMAIN calls: i = Len(calls) \/ MayCall(calls[i], calls[i + 1])
  BY <1>0 DEF Chain, InOrder
<1>3. \A i \in DOMAIN calls: calls[i].do = "LeaveClient" =>
        /\ i + 1 \in DOMAIN calls
        /\ Stopping(calls[i + 1]) \/ Querying(calls[i + 1])
  <2> SUFFICES ASSUME NEW i \in DOMAIN calls, calls[i].do = "LeaveClient"
               PROVE  i + 1 \in DOMAIN calls /\ (Stopping(calls[i + 1]) \/ Querying(calls[i + 1]))
    OBVIOUS
  <2>1. i # Len(calls)
    BY <1>0 DEF Chain, InOrder
  <2>2. i + 1 \in DOMAIN calls
    BY <1>1, <2>1
  <2> QED
    BY <1>2, <2>1, <2>2, UnderCall
<1>4. PICK j \in DOMAIN calls: j # 1 /\ calls[j].do = "LeaveClient"
  <2>1. PICK i \in DOMAIN Rest: d = Rest[i]
    BY DEF ToSet
  <2>2. i + 1 \in DOMAIN calls /\ i + 1 # 1
    BY <1>1
  <2>3. calls[i + 1] = d
    BY <1>0, <2>1, TopFacts
  <2> QED
    BY <2>2, <2>3
<1>5. PICK k \in DOMAIN calls: k # j + 1 /\ (Stopping(calls[k]) \/ Querying(calls[k])) /\ k \in {1, 2}
  <2>1. CASE Top.do = "LeaveClient"
    <3>1. 2 \in DOMAIN calls /\ (Stopping(calls[2]) \/ Querying(calls[2]))
      <4>1. 1 \in DOMAIN calls /\ 1 + 1 = 2
        BY <1>1
      <4> QED
        BY <1>1, <1>3, <2>1, <4>1
    <3>2. 2 # j + 1
      BY <1>1, <1>4
    <3> QED
      BY <3>1, <3>2
  <2>2. CASE Stopping(Top)
    <3>1. 1 \in DOMAIN calls /\ 1 # j + 1
      BY <1>1, <1>4
    <3> QED
      BY <1>1, <2>2, <3>1
  <2> QED
    BY <2>1, <2>2
<1>6. j + 1 \in DOMAIN calls /\ (Stopping(calls[j + 1]) \/ Querying(calls[j + 1]))
  BY <1>3, <1>4
<1>7. \A i \in DOMAIN calls: Querying(calls[i]) => i = Len(calls)
  BY <1>2, UnderCall DEF AtBottom
<1>8. ~(Stopping(calls[k]) /\ Stopping(calls[j + 1]))
  BY <1>0, <1>5, <1>6 DEF Chain, Distinct, Exclude
<1>9. ~(Querying(calls[k]) /\ Querying(calls[j + 1]))
  BY <1>5, <1>6, <1>7
<1>10. calls[k] \in Pending /\ calls[j + 1] \in Pending
  BY <1>0, <1>5, <1>6 DEF ToSet
<1>11. PICK e, f \in Pending: Stopping(e) /\ Querying(f)
  BY <1>5, <1>6, <1>8, <1>9, <1>10
<1>12. Agree(f, e)
  BY <1>11, Innermost
<1> QED
  BY <1>11, <1>12 DEF Agree, Sends, Stopping, Querying, Quiet

-----------------------------------------------------------------------------
(* An iteration goes on.                                                   *)

(* The place of a client in a list is the one where it is found.           *)
LEMMA PositionFacts ==
  ASSUME NEW list \in Seq(Clients), NEW n \in DOMAIN list,
         \A i, j \in DOMAIN list: list[i] = list[j] => i = j
  PROVE  /\ Position(list, list[n]) = n
         /\ After(list, list[n]) = IF n = Len(list) THEN None ELSE list[n + 1]
<1>1. Position(list, list[n]) = n
  BY DEF Position
<1> QED
  BY <1>1 DEF After

(* The lists are of clients, each of which is entered once.                *)
LEMMA ListFacts ==
  ASSUME CollectionInv, NEW h \in Handlers
  PROVE  /\ handler[h] \in PortType
         /\ handler[h].clients \in Seq(Clients)
         /\ DOMAIN handler[h].clients = 1..Len(handler[h].clients) /\ Len(handler[h].clients) \in Nat
         /\ \A i, j \in DOMAIN handler[h].clients:
              handler[h].clients[i] = handler[h].clients[j] => i = j
<1>1. handler[h] \in PortType
  BY DEF CollectionInv, ObjectTypes
<1>2. handler[h].clients \in Seq(Clients)
  BY <1>1 DEF PortType
<1>3. \A i, j \in DOMAIN handler[h].clients: handler[h].clients[i] = handler[h].clients[j] => i = j
  BY DEF CollectionInv, Lists
<1> QED
  BY <1>1, <1>2, <1>3, LenProperties

(* Behind the client it has met, an iteration still has passed over nobody. *)
LEMMA OnwardsFacts ==
  ASSUME CollectionInv, Running("ForEach"), Top.next \in Clients
  PROVE  /\ Onwards \in CallType /\ Onwards.do = "ForEach"
         /\ Onwards.handler = Top.handler /\ Onwards.function = Top.function
         /\ Onwards.rebuild = Top.rebuild
         /\ Complete(Onwards)
         /\ Top.handler \in Handlers
         /\ \E n \in DOMAIN handler[Top.handler].clients:
              /\ Top.next = handler[Top.handler].clients[n]
              /\ \A i \in 1..(n - 1): LET y == handler[Top.handler].clients[i]
                                      IN client[y].exists => y \in Top.seen
              /\ Onwards.next = IF n = Len(handler[Top.handler].clients) THEN None
                                ELSE handler[Top.handler].clients[n + 1]
              /\ Onwards.seen = Top.seen \cup {Top.next}
<1> DEFINE c == Top
           list == handler[c.handler].clients
<1>1. /\ calls # <<>> /\ c.do = "ForEach" /\ c \in CallType /\ Complete(c)
      /\ c.handler \in Handlers /\ c.seen \subseteq Clients
  <2>1. calls # <<>> /\ c.do = "ForEach"
    BY DEF Running, Top
  <2>2. c \in CallType /\ c \in Pending /\ (c.do = "ForEach" => Complete(c))
    BY <2>1, Innermost
  <2> QED
    BY <2>1, <2>2, CallFacts
<1>2. /\ list \in Seq(Clients) /\ DOMAIN list = 1..Len(list) /\ Len(list) \in Nat
      /\ \A i, j \in DOMAIN list: list[i] = list[j] => i = j
  BY <1>1, ListFacts
<1>3. c.next # None
  BY ConstantsAssumption
<1>4. PICK n \in DOMAIN list: /\ c.next = list[n]
                              /\ \A i \in 1..(n - 1): client[list[i]].exists => list[i] \in c.seen
  BY <1>1, <1>3 DEF Complete
<1>5. After(list, c.next) = IF n = Len(list) THEN None ELSE list[n + 1]
  BY <1>2, <1>4, PositionFacts
<1>6. c \in [do: {"ForEach"}, handler: Handlers, function: Functions, next: Clients \cup {None},
             rebuild: BOOLEAN, seen: SUBSET Clients]
  BY <1>1 DEF CallType
<1>7. n = Len(list) \/ (n + 1 \in DOMAIN list /\ list[n + 1] \in Clients)
  <2>1. n = Len(list) \/ n + 1 \in DOMAIN list
    BY <1>2, <1>4
  <2> QED
    BY <1>2, <2>1
<1> DEFINE after == After(list, c.next)
<1>8. after \in Clients \cup {None}
  BY <1>5, <1>7
<1>9. Onwards = [c EXCEPT !.next = after, !.seen = c.seen \cup {c.next}]
  BY DEF Onwards, Top
<1>10. after = IF n = Len(list) THEN None ELSE list[n + 1]
  BY <1>5
<1> HIDE DEF after, list
<1>11. /\ Onwards \in [do: {"ForEach"}, handler: Handlers, function: Functions, next: Clients \cup {None},
                       rebuild: BOOLEAN, seen: SUBSET Clients]
       /\ Onwards.do = "ForEach" /\ Onwards.handler = c.handler /\ Onwards.function = c.function
       /\ Onwards.rebuild = c.rebuild
       /\ Onwards.next = after /\ Onwards.seen = c.seen \cup {c.next}
  BY <1>6, <1>8, <1>9
<1>12. Onwards \in CallType
  BY <1>11 DEF CallType
<1>13. \A i \in 1..n: client[list[i]].exists => list[i] \in c.seen \cup {c.next}
  <2>1. \A i \in 1..n: i = n \/ i \in 1..(n - 1)
    BY <1>2, <1>4
  <2> QED
    BY <1>4, <2>1
<1>14. Complete(Onwards)
  <2>1. CASE n = Len(list)
    <3>1. \A i \in DOMAIN list: client[list[i]].exists => list[i] \in Onwards.seen
      BY <1>2, <1>11, <1>13, <2>1
    <3>2. Onwards.next = None
      BY <1>10, <1>11, <2>1
    <3> QED
      BY <1>11, <3>1, <3>2 DEF Complete, list
  <2>2. CASE n # Len(list)
    <3>1. n + 1 \in DOMAIN list /\ Onwards.next = list[n + 1] /\ (n + 1) - 1 = n
      BY <1>2, <1>4, <1>7, <1>10, <1>11, <2>2
    <3>2. \A i \in 1..((n + 1) - 1): client[list[i]].exists => list[i] \in Onwards.seen
      BY <1>11, <1>13, <3>1
    <3> QED
      BY <1>11, <3>1, <3>2 DEF Complete, list
  <2> QED
    BY <2>1, <2>2
<1> QED
  BY <1>1, <1>4, <1>10, <1>11, <1>12, <1>14 DEF list

(* Two iterations that do the same are alike to all others.                *)
LEMMA SameIteration ==
  ASSUME NEW c \in CallType, NEW a, c.do = "ForEach", a.do = "ForEach",
         a.handler = c.handler, a.function = c.function
  PROVE  /\ \A d: MayCall(c, d) => MayCall(a, d)
         /\ \A d: (Exclude(c, d) => Exclude(a, d)) /\ (Exclude(d, c) => Exclude(d, a))
         /\ \A d: (Agree(c, d) => Agree(a, d)) /\ (Agree(d, c) => Agree(d, a))
         /\ Agree(c, c) => Agree(a, a)
         /\ Justified(c) => Justified(a)
         /\ Stopping(a) <=> Stopping(c)
         /\ Querying(a) <=> Querying(c)
<1>1. (Stopping(a) <=> Stopping(c)) /\ (Querying(a) <=> Querying(c)) /\ (Quiet(a) <=> Quiet(c))
  BY DEF Stopping, Querying, Quiet
<1>2. ~Destroying(a) /\ ~Ending(a) /\ ~Destroying(c) /\ ~Ending(c)
  BY DEF Destroying, Ending
<1>3. (AboutPort(a) <=> AboutPort(c)) /\ \A h: Concerns(h, a) <=> Concerns(h, c)
  BY <1>1, <1>2 DEF AboutPort, Concerns
<1>4. Sends(a) <=> Sends(c)
  BY <1>1 DEF Sends
<1>5. \A d: MayCall(c, d) => MayCall(a, d)
  BY <1>1, <1>2 DEF MayCall
<1>6. \A d: (Exclude(c, d) => Exclude(a, d)) /\ (Exclude(d, c) => Exclude(d, a))
  BY <1>1, <1>2 DEF Exclude
<1>7. \A d: (Agree(c, d) => Agree(a, d)) /\ (Agree(d, c) => Agree(d, a))
  BY <1>1, <1>3, <1>4 DEF Agree
<1>8. Justified(c) => Justified(a)
  BY <1>1 DEF Justified
<1>9. Agree(c, c) => Agree(a, a)
  BY <1>7
<1> QED
  BY <1>1, <1>5, <1>6, <1>7, <1>8, <1>9

(* An iteration that replaces another one which does the same.             *)
LEMMA Continues ==
  ASSUME CollectionInv, calls # <<>>, Top.do = "ForEach",
         NEW a \in CallType, a.do = "ForEach",
         a.handler = Top.handler, a.function = Top.function,
         Call(<<a>>)
  PROVE  /\ calls' \in Seq(CallType) /\ Chain(calls')
         /\ Pending' = {a} \cup ToSet(Rest)
         /\ Justified(a)
         /\ \A d \in {a} \cup ToSet(Rest): Agree(a, d) /\ Agree(d, a)
         /\ \A d \in Pending: d \in Pending' \/ d.do = "ForEach"
         /\ (\E d \in Pending': d.do = "LeaveClient") <=> (\E d \in Pending: d.do = "LeaveClient")
<1>1. /\ Top \in CallType /\ Rest \in Seq(CallType) /\ calls = <<Top>> \o Rest
      /\ Pending = {Top} \cup ToSet(Rest) /\ Pending \subseteq CallType
      /\ Chain(Rest) /\ MayBegin(Top, Rest)
      /\ \A d \in ToSet(Rest): Exclude(Top, d) /\ Exclude(d, Top)
      /\ \A d, e \in Pending: Agree(d, e)
      /\ Justified(Top)
  BY Innermost
<1>2. /\ \A d: MayCall(Top, d) => MayCall(a, d)
      /\ \A d: (Exclude(Top, d) => Exclude(a, d)) /\ (Exclude(d, Top) => Exclude(d, a))
      /\ \A d: (Agree(Top, d) => Agree(a, d)) /\ (Agree(d, Top) => Agree(d, a))
      /\ Agree(Top, Top) => Agree(a, a)
      /\ Justified(Top) => Justified(a)
  BY <1>1, SameIteration
<1>3. calls' = <<a>> \o Rest
  BY DEF Call, Rest
<1>4. MayBegin(a, Rest)
  BY <1>1, <1>2 DEF MayBegin
<1>5. calls' \in Seq(CallType) /\ Pending' = {a} \cup ToSet(Rest)
  BY <1>1, <1>3, Pushed DEF Pending
<1>6. Chain(calls')
  BY <1>1, <1>2, <1>3, <1>4, Pushed
<1>7. \A d \in {a} \cup ToSet(Rest): Agree(a, d) /\ Agree(d, a)
  BY <1>1, <1>2
<1> QED
  BY <1>1, <1>2, <1>5, <1>6, <1>7

(* One more is counted.                                                    *)
LEMMA CountFacts ==
  ASSUME NEW counts \in [BufferTypes -> Nat], NEW type
  PROVE  [counts EXCEPT ![type] = @ + 1] \in [BufferTypes -> Nat]
<1>1. type \in BufferTypes => counts[type] + 1 \in Nat
  OBVIOUS
<1> QED
  BY <1>1

(* A client is told something, sends a packet into a queue, or is counted. *)
LEMMA VisitQuietlyInv ==
  ASSUME CollectionInv, VisitQuietly
  PROVE  CollectionInv'
<1>1. /\ calls # <<>> /\ Top.do = "ForEach" /\ Running("ForEach") /\ Top.next \in Clients
      /\ Call(<<Onwards>>)
  BY DEF VisitQuietly, MeetsClient, Running, Top
<1>2. /\ Onwards \in CallType /\ Onwards.do = "ForEach" /\ Complete(Onwards)
      /\ Onwards.handler = Top.handler /\ Onwards.function = Top.function /\ Top.handler \in Handlers
  BY <1>1, OnwardsFacts
<1>3. /\ calls' \in Seq(CallType) /\ Chain(calls')
      /\ Pending' = {Onwards} \cup ToSet(Rest)
      /\ Justified(Onwards)
      /\ \A d \in {Onwards} \cup ToSet(Rest): Agree(Onwards, d) /\ Agree(d, Onwards)
      /\ \A d \in Pending: d \in Pending' \/ d.do = "ForEach"
      /\ (\E d \in Pending': d.do = "LeaveClient") <=> (\E d \in Pending: d.do = "LeaveClient")
  BY <1>1, <1>2, Continues
<1>4. /\ Rest \in Seq(CallType) /\ ToSet(Rest) \subseteq Pending /\ daemon # "failed" /\ Stack
  BY <1>1, Innermost
<1>5. /\ client' = client /\ m_SerialPortHandlerMap' = m_SerialPortHandlerMap
      /\ m_HdlcdServerHandlerList' = m_HdlcdServerHandlerList
      /\ s_bCyclicCallGuard' = s_bCyclicCallGuard /\ daemon' = daemon
  BY DEF VisitQuietly, collections
<1>6. handler' \in [Handlers -> PortType] /\ SameObjects
  <2>1. /\ handler \in [Handlers -> PortType]
        /\ \A h \in Handlers: handler[h].open => handler[h].m_Registered
        /\ client \in [Clients -> ClientType]
    BY DEF CollectionInv, ObjectTypes, Objects
  <2>2. CASE handler' = handler
    BY <1>5, <2>1, <2>2 DEF SameObjects
  <2>3. CASE handler' = [handler EXCEPT ![Top.handler].m_BufferTypeSubscribers[client[Top.next].m_eBufferType] = @ + 1]
    <3> DEFINE h == Top.handler
               type == client[Top.next].m_eBufferType
               counts == [handler[h].m_BufferTypeSubscribers EXCEPT ![type] = @ + 1]
               port == [handler[h] EXCEPT !.m_BufferTypeSubscribers = counts]
    <3>1. handler' = [handler EXCEPT ![h] = port]
      BY <2>3
    <3>2. handler[h] \in PortType /\ h \in Handlers
      BY <1>2, <2>1
    <3>3. handler[h].m_BufferTypeSubscribers \in [BufferTypes -> Nat]
      BY <3>2 DEF PortType
    <3>4. counts \in [BufferTypes -> Nat]
      BY <3>3, CountFacts
    <3> HIDE DEF counts, h
    <3>5. port \in PortType /\ port.m_Registered = handler[h].m_Registered
          /\ port.clients = handler[h].clients /\ port.open = handler[h].open
      BY <3>2, <3>4 DEF PortType
    <3> HIDE DEF port
    <3> QED
      BY <1>5, <2>1, <3>1, <3>2, <3>5 DEF SameObjects
  <2> QED
    BY <2>2, <2>3 DEF VisitQuietly, Top
<1>7. ObjectTypes'
  BY <1>5, <1>6 DEF CollectionInv, ObjectTypes
<1>8. GuardLocked'
  BY <1>3, <1>4, <1>5 DEF Stack, GuardLocked
<1>9. Used'
  BY <1>3, <1>4, <1>6, UsedKept DEF Stack
<1> DEFINE N == {Onwards}
<1>10. /\ N \subseteq CallType /\ Pending' = N \cup ToSet(Rest)
       /\ \A a \in N: Justified(a) /\ (a.do = "ForEach" => Complete(a))
       /\ \A a \in N: \A d \in N \cup ToSet(Rest): Agree(a, d) /\ Agree(d, a)
  BY <1>2, <1>3
<1> HIDE DEF N
<1> QED
  BY <1>3, <1>4, <1>5, <1>6, <1>7, <1>8, <1>9, <1>10, SameObjectsStep

-----------------------------------------------------------------------------
(* Calls that tell or deliver something.                                   *)

\* What such a call may be put over.
QuietFits(s) == s = <<>> \/ s[1].do \in {"LeaveClient", "Attach", "ReleaseStopper", "Propagate", "Deliver"}

(* A quiet call fits over such a stack, and excludes nothing.              *)
LEMMA QuietChain ==
  ASSUME NEW s \in Seq(CallType), Chain(s), QuietFits(s),
         NEW a \in CallType, Quiet(a), NEW t, t = <<a>> \o s
  PROVE  /\ t \in Seq(CallType) /\ Chain(t) /\ ToSet(t) = {a} \cup ToSet(s)
         /\ a.do # "ForEach" => QuietFits(t)
<1>1. ~Stopping(a) /\ ~Destroying(a) /\ ~Ending(a) /\ a.do \notin {"Attach", "LeaveClient"}
  BY DEF Quiet, Stopping, Destroying, Ending
<1>2. \A d: Exclude(a, d) /\ Exclude(d, a)
  BY <1>1 DEF Exclude
<1>3. MayBegin(a, s)
  BY <1>1 DEF QuietFits, MayBegin, MayCall
<1>4. t \in Seq(CallType) /\ ToSet(t) = {a} \cup ToSet(s) /\ t[1] = a /\ Chain(t)
  BY <1>2, <1>3, Pushed
<1>5. a.do # "ForEach" => QuietFits(t)
  BY <1>4 DEF QuietFits, Quiet
<1> QED
  BY <1>4, <1>5

(* A quiet call is under way with calls that are not about a port.         *)
LEMMA QuietAgrees ==
  ASSUME NEW a, Quiet(a)
  PROVE  /\ \A d: Agree(a, d)
         /\ \A d: ~AboutPort(d) => Agree(d, a)
         /\ \A d: Agree(d, a) => ~AboutPort(d)
         /\ Justified(a)
         /\ a.do \notin {"LeaveClient", "DestroyClient", "Attach"}
<1>1. ~Stopping(a) /\ ~Destroying(a) /\ ~Ending(a) /\ ~Querying(a) /\ ~AboutPort(a)
  BY DEF Quiet, Stopping, Destroying, Ending, Querying, AboutPort
<1>2. \A h: ~Concerns(h, a)
  BY <1>1 DEF Concerns, Quiet
<1>3. Sends(a)
  BY DEF Sends
<1>4. a.do \notin {"LeaveClient", "DestroyClient", "Attach", "Stop", "Open", "Query", "ReleaseStopper"}
  BY DEF Quiet
<1> QED
  BY <1>1, <1>2, <1>3, <1>4 DEF Agree, Justified

(* A quiet call is made only where a quiet call fits.                      *)
LEMMA QuietFitsUnder ==
  ASSUME CollectionInv, calls # <<>>, Quiet(Top)
  PROVE  QuietFits(Rest) /\ \A d \in ToSet(Rest): ~AboutPort(d)
<1>1. MayBegin(Top, Rest) /\ \A d \in ToSet(Rest): Agree(d, Top)
  BY Innermost
<1>2. ~Destroying(Top) /\ Top.do \notin {"Stop", "LeaveClient", "StopClient"}
  BY DEF Quiet, Destroying
<1>3. QuietFits(Rest)
  BY <1>1, <1>2 DEF QuietFits, MayBegin, MayCall
<1> QED
  BY <1>1, <1>3, QuietAgrees

(* A step that puts quiet calls N over the calls s.                        *)
LEMMA QuietStep ==
  ASSUME CollectionInv, daemon # "failed", daemon' = daemon, SameObjects, ObjectTypes',
         s_bCyclicCallGuard' = s_bCyclicCallGuard,
         NEW s \in Seq(CallType), ToSet(s) \subseteq Pending,
         \A d \in Pending: d \in ToSet(s) \/ d.do \notin {"DestroyClient", "LeaveClient", "Attach"},
         NEW N, Pending' = N \cup ToSet(s), N \subseteq CallType,
         calls' \in Seq(CallType), Chain(calls'),
         \A a \in N: Quiet(a) /\ (a.do = "ForEach" => Complete(a)),
         N # {} => \A d \in ToSet(s): ~AboutPort(d)
  PROVE  CollectionInv'
<1>1. Stack
  BY DEF CollectionInv
<1>2. \A a \in N: /\ Justified(a) /\ ~AboutPort(a)
                  /\ a.do \notin {"LeaveClient", "DestroyClient", "Attach"}
  BY QuietAgrees
<1>3. \A a \in N: \A d \in N \cup ToSet(s): Agree(a, d) /\ Agree(d, a)
  BY <1>2, QuietAgrees
<1>4. GuardLocked'
  BY <1>1, <1>2 DEF Stack, GuardLocked
<1>5. Used'
  BY <1>1, UsedKept DEF Stack
<1> QED
  BY <1>2, <1>3, <1>4, <1>5, SameObjectsStep

(* The same after the return of the innermost call, in which nothing else  *)
(* than these calls is new.                                                *)
LEMMA QuietReturn ==
  ASSUME CollectionInv, calls # <<>>, daemon' = daemon, SameObjects, ObjectTypes',
         s_bCyclicCallGuard' = s_bCyclicCallGuard,
         Top.do \notin {"DestroyClient", "LeaveClient", "Attach"},
         NEW N, Pending' = N \cup ToSet(Rest), N \subseteq CallType,
         calls' \in Seq(CallType), Chain(calls'),
         \A a \in N: Quiet(a) /\ (a.do = "ForEach" => Complete(a)),
         N # {} => \A d \in ToSet(Rest): ~AboutPort(d)
  PROVE  CollectionInv'
<1>1. /\ Rest \in Seq(CallType) /\ Pending = {Top} \cup ToSet(Rest) /\ daemon # "failed"
  BY Innermost
<1> QED
  BY <1>1, QuietStep

(* The innermost call returns.                                             *)
LEMMA Returned ==
  ASSUME CollectionInv, calls # <<>>, Call(<<>>)
  PROVE  calls' = Rest /\ calls' \in Seq(CallType) /\ Chain(calls') /\ Pending' = ToSet(Rest)
<1>1. Rest \in Seq(CallType) /\ Chain(Rest)
  BY Innermost
<1>2. calls' = Rest
  BY <1>1, ConcatEmptySeq DEF Call, Rest
<1> QED
  BY <1>1, <1>2 DEF Pending

(* One call takes its place.                                               *)
LEMMA ReplacedByOne ==
  ASSUME CollectionInv, calls # <<>>, NEW a \in CallType, Call(<<a>>)
  PROVE  /\ calls' = <<a>> \o Rest /\ calls' \in Seq(CallType) /\ Pending' = {a} \cup ToSet(Rest)
<1>1. Rest \in Seq(CallType)
  BY Innermost
<1>2. calls' = <<a>> \o Rest
  BY DEF Call, Rest
<1> QED
  BY <1>1, <1>2, Pushed DEF Pending

(* An iteration begins at the first client and has passed over nobody.     *)
LEMMA ForEachFacts ==
  ASSUME CollectionInv, NEW h \in Handlers, NEW function \in Functions
  PROVE  \E it \in CallType:
           /\ ForEach(h, function) = <<it>>
           /\ it.do = "ForEach" /\ it.handler = h /\ it.function = function
           /\ Complete(it)
           /\ it.seen = {} /\ it.rebuild = FALSE
<1> DEFINE list == handler[h].clients
           it == Iteration(h, function, FirstOf(list), FALSE, {})
<1>1. list \in Seq(Clients) /\ DOMAIN list = 1..Len(list) /\ Len(list) \in Nat
  BY ListFacts
<1>2. list # <<>> => 1 \in DOMAIN list /\ list[1] \in Clients
  <2>1. list # <<>> => Len(list) # 0
    BY <1>1, EmptySeq
  <2>2. list # <<>> => 1 \in DOMAIN list
    BY <1>1, <2>1
  <2> QED
    BY <1>1, <2>2
<1>3. FirstOf(list) \in Clients \cup {None}
  BY <1>2 DEF FirstOf
<1>4. it \in CallType
  BY <1>3, NewCalls
<1>5. /\ it.do = "ForEach" /\ it.handler = h /\ it.function = function /\ it.next = FirstOf(list)
      /\ it.seen = {} /\ it.rebuild = FALSE
  BY DEF Iteration
<1>6. ForEach(h, function) = <<it>>
  BY DEF ForEach, Iteration
<1> HIDE DEF it
<1>7. Complete(it)
  <2>1. CASE list = <<>>
    BY <1>5, <2>1 DEF Complete, FirstOf
  <2>2. CASE list # <<>>
    <3>1. 1 \in DOMAIN list /\ it.next = list[1] /\ 1..(1 - 1) = {}
      BY <1>2, <1>5, <2>2 DEF FirstOf
    <3> QED
      BY <1>5, <3>1 DEF Complete
  <2> QED
    BY <2>1, <2>2
<1> QED
  BY <1>4, <1>5, <1>6, <1>7

(* The objects stay as they are.                                           *)
LEMMA Untouched ==
  ASSUME CollectionInv, UNCHANGED <<client, handler, m_SerialPortHandlerMap, m_HdlcdServerHandlerList>>,
         s_bCyclicCallGuard' \in BOOLEAN
  PROVE  SameObjects /\ ObjectTypes'
BY DEF CollectionInv, ObjectTypes, Objects, SameObjects

(* The innermost call returns, and only counters may have changed.         *)
LEMMA ReturnInv ==
  ASSUME CollectionInv, calls # <<>>, daemon' = daemon, SameObjects, ObjectTypes',
         s_bCyclicCallGuard' = s_bCyclicCallGuard,
         Top.do \notin {"DestroyClient", "LeaveClient", "Attach"},
         Call(<<>>)
  PROVE  CollectionInv'
<1> DEFINE N == {}
<1>1. calls' \in Seq(CallType) /\ Chain(calls') /\ Pending' = N \cup ToSet(Rest)
  BY Returned
<1>2. /\ N \subseteq CallType /\ \A a \in N: Quiet(a) /\ (a.do = "ForEach" => Complete(a))
      /\ N # {} => \A d \in ToSet(Rest): ~AboutPort(d)
  OBVIOUS
<1> HIDE DEF N
<1> QED
  BY <1>1, <1>2, QuietReturn

(* A quiet call takes its place.                                           *)
LEMMA QuietCalled ==
  ASSUME CollectionInv, calls # <<>>, daemon' = daemon, SameObjects, ObjectTypes',
         s_bCyclicCallGuard' = s_bCyclicCallGuard,
         Top.do \notin {"DestroyClient", "LeaveClient", "Attach"},
         QuietFits(Rest), \A d \in ToSet(Rest): ~AboutPort(d),
         NEW a \in CallType, Quiet(a), a.do = "ForEach" => Complete(a), Call(<<a>>)
  PROVE  CollectionInv'
<1>1. Rest \in Seq(CallType) /\ Chain(Rest)
  BY Innermost
<1>2. calls' = <<a>> \o Rest /\ calls' \in Seq(CallType) /\ Pending' = {a} \cup ToSet(Rest)
  BY ReplacedByOne
<1>3. Chain(calls')
  BY <1>1, <1>2, QuietChain
<1> DEFINE N == {a}
<1>4. /\ N \subseteq CallType /\ \A b \in N: Quiet(b) /\ (b.do = "ForEach" => Complete(b))
      /\ Pending' = N \cup ToSet(Rest)
  BY <1>2
<1> HIDE DEF N
<1> QED
  BY <1>2, <1>3, <1>4, QuietReturn

(* An iteration begins.                                                    *)
LEMMA BeginForEachInv ==
  ASSUME CollectionInv, BeginForEach
  PROVE  CollectionInv'
<1>1. /\ UNCHANGED <<client, handler, m_SerialPortHandlerMap, m_HdlcdServerHandlerList>>
      /\ s_bCyclicCallGuard' = s_bCyclicCallGuard /\ daemon' = daemon
  BY DEF BeginForEach, Keep
<1>2. SameObjects /\ ObjectTypes'
  <2>1. s_bCyclicCallGuard' \in BOOLEAN
    BY <1>1 DEF CollectionInv, ObjectTypes
  <2> QED
    BY <1>1, <2>1, Untouched
<1>3. calls # <<>> /\ Top.do \in {"Propagate", "Query", "Deliver"}
  BY DEF BeginForEach, Running, Top
<1>4. Top \in CallType /\ Top \in Pending /\ Rest \in Seq(CallType)
      /\ Chain(calls) /\ calls = <<Top>> \o Rest /\ daemon # "failed" /\ Stack
      /\ Pending = {Top} \cup ToSet(Rest) /\ Justified(Top)
  BY <1>3, Innermost
<1>5. Top.handler \in Handlers
  BY <1>3, <1>4, CallFacts
<1>6. CASE Top.do = "Query" /\ Call(ForEach(Top.handler, "query"))
  <2>1. Rest = <<>>
    BY <1>4, <1>6, Under DEF AtBottom
  <2>2. "query" \in Functions
    BY DEF Functions
  <2>3. PICK it \in CallType: /\ ForEach(Top.handler, "query") = <<it>> /\ it.do = "ForEach"
                              /\ it.handler = Top.handler /\ it.function = "query" /\ Complete(it)
    BY <1>5, <2>2, ForEachFacts
  <2>4. calls' = <<it>> \o <<>> /\ calls' \in Seq(CallType) /\ Pending' = {it} \cup ToSet(Rest)
    BY <1>3, <1>6, <2>1, <2>3, ReplacedByOne
  <2>5. Querying(it) /\ ~Stopping(it) /\ ~Destroying(it) /\ ~Ending(it) /\ ~AboutPort(it) /\ Sends(it)
    BY <2>3 DEF Querying, Stopping, Destroying, Ending, AboutPort, Sends
  <2>6. Chain(calls')
    BY <2>3, <2>4, NoCalls, Pushed DEF MayBegin
  <2>7. Justified(it)
    BY <1>4, <1>6, <2>3, <2>5 DEF Justified
  <2>8. Agree(it, it)
    BY <2>3, <2>5 DEF Agree
  <2>9. ToSet(Rest) = {}
    BY <2>1, NoCalls
  <2>10. GuardLocked'
    BY <1>1, <1>3, <1>4, <1>6, <2>3, <2>4, <2>9 DEF Stack, GuardLocked
  <2>11. Used'
    BY <1>2, <1>4, <1>6, <2>9, UsedKept DEF Stack
  <2> DEFINE N == {it}
  <2>12. /\ N \subseteq CallType /\ Pending' = N \cup ToSet(Rest)
         /\ \A a \in N: Justified(a) /\ (a.do = "ForEach" => Complete(a))
         /\ \A a \in N: \A d \in N \cup ToSet(Rest): Agree(a, d) /\ Agree(d, a)
    BY <2>3, <2>4, <2>7, <2>8, <2>9
  <2> HIDE DEF N
  <2> QED
    BY <1>1, <1>2, <1>4, <2>4, <2>6, <2>9, <2>10, <2>11, <2>12, SameObjectsStep
<1>7. CASE Top.do \in {"Propagate", "Deliver"} /\ Call(<<>>)
  BY <1>1, <1>2, <1>3, <1>7, ReturnInv
<1>8. ASSUME NEW function \in Functions, function \in {"update", "deliver"},
             Top.do \in {"Propagate", "Deliver"}, Call(ForEach(Top.handler, function))
      PROVE  CollectionInv'
  <2>1. Quiet(Top)
    BY <1>8 DEF Quiet
  <2>2. QuietFits(Rest) /\ \A d \in ToSet(Rest): ~AboutPort(d)
    BY <1>3, <2>1, QuietFitsUnder
  <2> DEFINE h == Top.handler
  <2>3. h \in Handlers
    BY <1>5
  <2> HIDE DEF h
  <2>4. PICK it \in CallType: /\ ForEach(h, function) = <<it>> /\ it.do = "ForEach"
                              /\ it.handler = h /\ it.function = function /\ Complete(it)
    BY <2>3, ForEachFacts
  <2>5. Quiet(it) /\ Call(<<it>>)
    BY <1>8, <2>4 DEF Quiet, h
  <2> QED
    BY <1>1, <1>2, <1>3, <1>8, <2>2, <2>4, <2>5, QuietCalled
<1> QED
  BY <1>3, <1>6, <1>7, <1>8 DEF BeginForEach, Running, Top, Functions

(* What an iteration is put over when it counts after it has ended.        *)
LEMMA UnderIteration ==
  ASSUME CollectionInv, calls # <<>>, Top.do = "ForEach"
  PROVE  QuietFits(Rest) /\ \A d \in ToSet(Rest): ~AboutPort(d)
<1>1. /\ Top \in CallType /\ Rest \in Seq(CallType) /\ calls = <<Top>> \o Rest /\ Chain(calls)
      /\ MayBegin(Top, Rest) /\ \A d \in ToSet(Rest): Exclude(Top, d)
  BY Innermost
<1>2. Top.function \in Functions
  BY <1>1, CallFacts
<1>3. CASE Quiet(Top)
  BY <1>3, QuietFitsUnder
<1>4. CASE Querying(Top)
  <2>1. Rest = <<>>
    BY <1>1, <1>4, Under DEF AtBottom
  <2> QED
    BY <2>1, NoCalls DEF QuietFits
<1>5. CASE Stopping(Top)
  <2>1. QuietFits(Rest)
    BY <1>1, <1>5 DEF MayBegin, MayCall, QuietFits, Stopping, Quiet, Destroying
  <2>2. \A d \in ToSet(Rest): d.do \notin {"Open", "Resume", "Stop"}
    BY Under
  <2>3. \A d \in ToSet(Rest): ~Stopping(d)
    BY <1>1, <1>5 DEF Exclude
  <2> QED
    BY <2>1, <2>2, <2>3 DEF AboutPort
<1> QED
  BY <1>2, <1>3, <1>4, <1>5 DEF Functions, Quiet, Querying, Stopping

(* A list may be emptied when no iteration over it goes on.                *)
LEMMA NoOuterIteration ==
  ASSUME CollectionInv, calls # <<>>, Top.do = "ForEach", ~handler[Top.handler].m_Registered
  PROVE  \A d \in ToSet(Rest): d.do = "ForEach" => d.handler # Top.handler
<1> SUFFICES ASSUME NEW d \in ToSet(Rest), d.do = "ForEach", d.handler = Top.handler
             PROVE  FALSE
  OBVIOUS
<1>1. Justified(d) /\ Agree(d, Top) /\ Exclude(Top, d)
  BY Innermost
<1>2. Stopping(d) \/ d.function = "enqueue"
  BY Under
<1>3. CASE Stopping(d)
  <2>1. Concerns(d.handler, Top)
    BY <1>1, <1>3 DEF Agree, AboutPort
  <2>2. Stopping(Top)
    BY <2>1 DEF Concerns, AboutPort, Ending, Destroying
  <2> QED
    BY <1>1, <1>3, <2>2 DEF Exclude
<1>4. CASE d.function = "enqueue"
  BY <1>1, <1>4 DEF Justified, Querying
<1> QED
  BY <1>2, <1>3, <1>4

(* A port is not used any more.                                            *)
LEMMA ForgottenInv ==
  ASSUME CollectionInv, calls # <<>>, Top.do = "ForEach", Call(<<>>),
         ~handler[Top.handler].m_Registered,
         handler' = [handler EXCEPT ![Top.handler] = NoHandler],
         UNCHANGED <<client, m_SerialPortHandlerMap, m_HdlcdServerHandlerList, s_bCyclicCallGuard, daemon>>
  PROVE  CollectionInv'
<1>1. /\ Top \in CallType /\ Rest \in Seq(CallType) /\ Pending = {Top} \cup ToSet(Rest) /\ Pending \subseteq CallType
      /\ daemon # "failed" /\ Stack
      /\ \A d, e \in Pending: Agree(d, e)
      /\ \A d \in Pending: Justified(d) /\ (d.do = "ForEach" => Complete(d))
  BY Innermost
<1>2. PICK h \in Handlers: h = Top.handler
  BY <1>1, CallFacts
<1>3. calls' = Rest /\ calls' \in Seq(CallType) /\ Chain(calls') /\ Pending' = ToSet(Rest)
  BY Returned
<1>4. /\ NoHandler \in PortType /\ ~NoHandler.m_Registered /\ ~NoHandler.open /\ NoHandler.clients = <<>>
  <2>1. NoSubscribers \in [BufferTypes -> Nat]
    BY DEF NoSubscribers
  <2>2. <<>> \in Seq(Clients)
    OBVIOUS
  <2> QED
    BY <2>1, <2>2 DEF NoHandler, PortType
<1>5. handler \in [Handlers -> PortType]
  BY DEF CollectionInv, ObjectTypes
<1>6. /\ handler' \in [Handlers -> PortType]
      /\ \A g \in Handlers: g # h => handler'[g] = handler[g]
      /\ handler'[h] = NoHandler
  BY <1>2, <1>4, <1>5
<1>7. /\ \A x, g: g \in Handlers => (Listed(g, x)' <=> Listed(g, x) /\ g # h)
      /\ \A x: Stopper(x)' = Stopper(x)
  <2>1. \A x, g: Listed(g, x)' <=> \E i \in DOMAIN handler'[g].clients: handler'[g].clients[i] = x
    BY DEF Listed
  <2>2. DOMAIN handler'[h].clients = {}
    BY <1>4, <1>6
  <2>3. \A x, g: g \in Handlers => (Listed(g, x)' <=> Listed(g, x) /\ g # h)
    BY <1>6, <2>1, <2>2 DEF Listed
  <2> QED
    BY <2>3 DEF Stopper
<1>8. ObjectTypes'
  BY <1>6 DEF CollectionInv, ObjectTypes
<1>9. Lists' /\ Objects'
  <2>1. \A g \in Handlers: \A i, j \in DOMAIN handler'[g].clients: handler'[g].clients[i] = handler'[g].clients[j] => i = j
    BY <1>4, <1>6 DEF CollectionInv, Lists
  <2>2. \A g \in Handlers: handler'[g].open => handler'[g].m_Registered
    BY <1>4, <1>6 DEF CollectionInv, Objects
  <2> QED
    BY <1>7, <2>1, <2>2 DEF CollectionInv, Lists, Objects
<1>10. \A g \in Handlers: handler'[g].m_Registered <=> handler[g].m_Registered
  BY <1>2, <1>4, <1>6
<1>11. ASSUME NEW c \in ToSet(Rest)
       PROVE  /\ Justified(c)' /\ (c.do = "ForEach" => Complete(c)')
  <2>1. c \in CallType /\ Justified(c) /\ (c.do = "ForEach" => Complete(c))
    BY <1>1
  <2>2. Justified(c)'
    <3>1. c.do \in {"Open", "Query", "Attach"} \/ Querying(c) \/ Stopping(c) => c.handler \in Handlers
      BY <2>1, CallFacts DEF AboutPort, Querying
    <3> QED
      BY <1>2, <1>7, <1>10, <2>1, <3>1 DEF Justified
  <2>3. c.do = "ForEach" => c.handler \in Handlers /\ c.handler # h
    <3>1. c.do = "ForEach" => c.handler \in Handlers
      BY <2>1, CallFacts
    <3>2. c.do = "ForEach" => c.handler # Top.handler
      BY NoOuterIteration
    <3> QED
      BY <1>2, <3>1, <3>2
  <2>4. c.do = "ForEach" => Complete(c)'
    BY <1>6, <2>1, <2>3 DEF Complete
  <2> QED
    BY <2>2, <2>4
<1>12. ASSUME NEW c \in ToSet(Rest), NEW d \in ToSet(Rest)
       PROVE  Agree(c, d)'
  <2>1. Agree(c, d) /\ d \in CallType
    BY <1>1
  <2>2. \A g: Concerns(g, d)' <=> Concerns(g, d)
    BY <1>7 DEF Concerns
  <2>3. Sends(d)' <=> Sends(d)
    BY DEF Sends
  <2>4. d.do = "Stop" => d.handler \in Handlers
    BY <2>1, CallFacts DEF AboutPort
  <2> QED
    BY <1>10, <2>1, <2>2, <2>3, <2>4 DEF Agree
<1>13. Together' /\ CallsJustified' /\ NobodyMissed'
  BY <1>3, <1>11, <1>12 DEF Together, CallsJustified, NobodyMissed
<1>14. GuardLocked'
  BY <1>1, <1>3 DEF Stack, GuardLocked
<1>15. Used'
  <2>1. \A x: InUse(x, {"DestroyClient", "LeaveClient", "Attach"}) => InUse(x, {"DestroyClient", "LeaveClient", "Attach"})'
    BY <1>1, <1>3 DEF InUse
  <2>2. \A x: InUse(x, {"DestroyClient", "Attach"}) => InUse(x, {"DestroyClient", "Attach"})'
    BY <1>1, <1>3 DEF InUse
  <2> QED
    BY <1>1, <1>7, <2>1, <2>2 DEF Used, Stack
<1> QED
  BY <1>1, <1>3, <1>8, <1>9, <1>13, <1>14, <1>15 DEF CollectionInv, Stack

(* An iteration ends, or counts.                                           *)
LEMMA EndForEachInv ==
  ASSUME CollectionInv, EndForEach
  PROVE  CollectionInv'
<1>1. /\ calls # <<>> /\ Top.do = "ForEach"
      /\ UNCHANGED <<client, m_SerialPortHandlerMap, m_HdlcdServerHandlerList, s_bCyclicCallGuard, daemon>>
  BY DEF EndForEach, EndAndCount, Running, Top, collections
<1> DEFINE h == Top.handler
<1>2. h \in Handlers /\ handler \in [Handlers -> PortType]
  BY <1>1, Innermost, CallFacts DEF CollectionInv, ObjectTypes
<1>3. CASE /\ Call(ForEach(h, "count"))
           /\ handler' = [handler EXCEPT ![h].m_BufferTypeSubscribers = NoSubscribers]
  <2> DEFINE port == [handler[h] EXCEPT !.m_BufferTypeSubscribers = NoSubscribers]
  <2>1. NoSubscribers \in [BufferTypes -> Nat]
    BY DEF NoSubscribers
  <2>2. port \in PortType /\ port.m_Registered = handler[h].m_Registered
        /\ port.clients = handler[h].clients /\ port.open = handler[h].open
    BY <1>2, <2>1 DEF PortType
  <2>3. handler' = [handler EXCEPT ![h] = port]
    BY <1>3
  <2> HIDE DEF port
  <2>4. handler' \in [Handlers -> PortType] /\ SameObjects
    BY <1>1, <1>2, <2>2, <2>3 DEF SameObjects, CollectionInv, Objects
  <2>5. ObjectTypes'
    BY <1>1, <2>4 DEF CollectionInv, ObjectTypes
  <2>6. QuietFits(Rest) /\ \A d \in ToSet(Rest): ~AboutPort(d)
    BY <1>1, UnderIteration
  <2>7. "count" \in Functions
    BY DEF Functions
  <2> HIDE DEF h
  <2>8. PICK it \in CallType: /\ ForEach(h, "count") = <<it>> /\ it.do = "ForEach"
                              /\ it.handler = h /\ it.function = "count" /\ Complete(it)
    BY <1>2, <2>7, ForEachFacts
  <2>9. Quiet(it) /\ Call(<<it>>)
    BY <1>3, <2>8 DEF Quiet, h
  <2> QED
    BY <1>1, <2>4, <2>5, <2>6, <2>8, <2>9, QuietCalled
<1>4. CASE Call(<<>>) /\ handler' = handler
  <2>1. SameObjects /\ ObjectTypes'
    BY <1>1, <1>4, Untouched DEF CollectionInv, ObjectTypes
  <2> QED
    BY <1>1, <1>4, <2>1, ReturnInv
<1>5. CASE Call(<<>>) /\ ~handler[h].m_Registered /\ handler' = [handler EXCEPT ![h] = NoHandler]
  BY <1>1, <1>5, ForgottenInv
<1> QED
  BY <1>3, <1>4, <1>5 DEF EndForEach, EndAndCount, Top

(* Stacks are put together in any order.                                   *)
LEMMA Associative ==
  /\ \A x, y, z \in Seq(CallType): (x \o y) \o z = x \o (y \o z)
  /\ \A x, y \in Seq(CallType): x \o y \in Seq(CallType)
<1>1. ASSUME NEW x \in Seq(CallType), NEW y \in Seq(CallType), NEW z \in Seq(CallType)
      PROVE  (x \o y) \o z = x \o (y \o z)
  BY ConcatAssociative
<1>2. ASSUME NEW x \in Seq(CallType), NEW y \in Seq(CallType)
      PROVE  x \o y \in Seq(CallType)
  BY ConcatProperties
<1> QED
  BY <1>1, <1>2

(* Calls that are made one after another are put over the stack in order.  *)
LEMMA InTurn ==
  ASSUME NEW s \in Seq(CallType), NEW a \in CallType, NEW b \in CallType, NEW c \in CallType
  PROVE  /\ (<<a>> \o <<b>>) \o s = <<a>> \o (<<b>> \o s)
         /\ ((<<a>> \o <<b>>) \o <<c>>) \o s = <<a>> \o (<<b>> \o (<<c>> \o s))
<1> DEFINE S == Seq(CallType)
<1>1. \A x, y, z \in S: (x \o y) \o z = x \o (y \o z)
  BY Associative
<1>2. \A x, y \in S: x \o y \in S
  BY Associative
<1>3. <<a>> \in S /\ <<b>> \in S /\ <<c>> \in S /\ s \in S
  OBVIOUS
<1> DEFINE A == <<a>>
           B == <<b>>
           C == <<c>>
<1> HIDE DEF A, B, C, S
<1>4. A \in S /\ B \in S /\ C \in S /\ s \in S
  BY <1>3 DEF A, B, C
<1> DEFINE AB == A \o B
           CS == C \o s
<1>5. AB \in S /\ CS \in S
  BY <1>2, <1>4
<1>6. AB \o s = A \o (B \o s)
  BY <1>1, <1>4
<1> HIDE DEF AB
<1>7. (AB \o C) \o s = AB \o CS
  <2>1. \A y, z \in S: (AB \o y) \o z = AB \o (y \o z)
    BY <1>1, <1>5
  <2>2. \A z \in S: (AB \o C) \o z = AB \o (C \o z)
    BY <1>4, <2>1
  <2> QED
    BY <1>4, <2>2
<1> HIDE DEF CS
<1> USE DEF AB
<1>8. AB \o CS = A \o (B \o CS)
  <2>1. \A y, z \in S: (A \o y) \o z = A \o (y \o z)
    BY <1>1, <1>4
  <2>2. \A z \in S: (A \o B) \o z = A \o (B \o z)
    BY <1>4, <2>1
  <2> QED
    BY <1>5, <2>2
<1> HIDE DEF AB
<1>9. (AB \o C) \o s = A \o (B \o CS)
  BY <1>7, <1>8
<1> QED
  BY <1>6, <1>9 DEF A, B, C, AB, CS

(* While a port is opened, resumed or stopped, no iteration that sends is  *)
(* in progress, and none that stops the clients of a registered port.      *)
LEMMA UnderPort ==
  ASSUME CollectionInv, calls # <<>>, Top.do \in {"Open", "Resume", "Stop"}
  PROVE  /\ Top.handler \in Handlers
         /\ \A d \in ToSet(Rest):
              /\ ~Querying(d)
              /\ Concerns(Top.handler, d)
              /\ AboutPort(d) => Stopping(d) /\ d.handler = Top.handler /\ ~handler[Top.handler].m_Registered
<1>1. Top \in CallType /\ Rest \in Seq(CallType) /\ \A d \in ToSet(Rest): Agree(Top, d) /\ Agree(d, Top) /\ Justified(d)
  BY Innermost
<1>2. AboutPort(Top) /\ ~Sends(Top) /\ \A h: Concerns(h, Top) => Top.handler = h
  BY DEF AboutPort, Sends, Quiet, Querying, Concerns, Ending, Destroying
<1>3. Top.handler \in Handlers
  BY <1>1, <1>2, CallFacts
<1>4. \A d \in ToSet(Rest): ~Querying(d) /\ Concerns(Top.handler, d)
  BY <1>1, <1>2 DEF Agree
<1>5. \A d \in ToSet(Rest): AboutPort(d) => Stopping(d)
  BY Under DEF AboutPort
<1>6. \A d \in ToSet(Rest): AboutPort(d) => d.handler = Top.handler
  BY <1>1, <1>2 DEF Agree
<1>7. \A d \in ToSet(Rest): AboutPort(d) => ~handler[Top.handler].m_Registered
  BY <1>1, <1>5, <1>6 DEF Justified
<1> QED
  BY <1>3, <1>4, <1>5, <1>6, <1>7

(* A port is opened, and its station sends a probe.                        *)
LEMMA OpenedInv ==
  ASSUME CollectionInv, calls # <<>>, Top.do = "Open",
         handler' = [handler EXCEPT ![Top.handler].open = TRUE],
         Call(DeliverSent(Top.handler) \o ForHandler("Propagate", Top.handler)),
         UNCHANGED <<client, m_SerialPortHandlerMap, m_HdlcdServerHandlerList, s_bCyclicCallGuard, daemon>>
  PROVE  CollectionInv'
<1>1. PICK h \in Handlers: h = Top.handler
  BY UnderPort
<1>2. /\ Rest \in Seq(CallType) /\ Chain(Rest) /\ MayBegin(Top, Rest) /\ Justified(Top)
  BY Innermost
<1>3. handler[h].m_Registered
  BY <1>1, <1>2 DEF Justified
<1>4. \A d \in ToSet(Rest): ~AboutPort(d)
  BY <1>1, <1>3, UnderPort
<1>5. QuietFits(Rest)
  BY <1>2 DEF MayBegin, MayCall, QuietFits, Stopping, Quiet, Destroying
<1> DEFINE a == Delivery(h, "RAW")
           b == Delivery(h, "DISSECTED")
           c == OnPort("Propagate", h)
<1>6. /\ a \in CallType /\ b \in CallType /\ c \in CallType
      /\ Quiet(a) /\ Quiet(b) /\ Quiet(c)
      /\ a.do # "ForEach" /\ b.do # "ForEach" /\ c.do # "ForEach"
  <2>1. a \in CallType /\ b \in CallType /\ c \in CallType
    BY NewCalls DEF BufferTypes
  <2> QED
    BY <2>1 DEF Quiet, Delivery, OnPort
<1>7. calls' = ((<<a>> \o <<b>>) \o <<c>>) \o Rest
  BY <1>1 DEF Call, Rest, DeliverSent, Deliver, ForHandler, Delivery, OnPort
<1> HIDE DEF a, b, c
<1> DEFINE s1 == <<c>> \o Rest
           s2 == <<b>> \o s1
           s3 == <<a>> \o s2
<1>8. s1 \in Seq(CallType) /\ Chain(s1) /\ QuietFits(s1) /\ ToSet(s1) = {c} \cup ToSet(Rest)
  BY <1>2, <1>5, <1>6, QuietChain
<1> HIDE DEF s1
<1>9. s2 \in Seq(CallType) /\ Chain(s2) /\ QuietFits(s2) /\ ToSet(s2) = {b} \cup ToSet(s1)
  BY <1>6, <1>8, QuietChain
<1> HIDE DEF s2
<1>10. s3 \in Seq(CallType) /\ Chain(s3) /\ ToSet(s3) = {a} \cup ToSet(s2)
  BY <1>6, <1>9, QuietChain
<1> HIDE DEF s3
<1>11. calls' = s3
  BY <1>2, <1>6, <1>7, InTurn DEF s1, s2, s3
<1> DEFINE N == {a, b, c}
<1>12. /\ calls' \in Seq(CallType) /\ Chain(calls') /\ Pending' = N \cup ToSet(Rest)
  <2>1. Pending' = ToSet(s3)
    BY <1>11 DEF Pending
  <2> QED
    BY <1>8, <1>9, <1>10, <1>11, <2>1
<1>13. N \subseteq CallType /\ \A d \in N: Quiet(d) /\ (d.do = "ForEach" => Complete(d))
  BY <1>6
<1> HIDE DEF N
<1>14. handler \in [Handlers -> PortType]
  BY DEF CollectionInv, ObjectTypes
<1> DEFINE port == [handler[h] EXCEPT !.open = TRUE]
<1>15. /\ port \in PortType /\ port.m_Registered = handler[h].m_Registered
       /\ port.clients = handler[h].clients
  BY <1>14 DEF PortType
<1>16. handler' = [handler EXCEPT ![h] = port]
  BY <1>1
<1> HIDE DEF port
<1>17. handler' \in [Handlers -> PortType] /\ SameObjects
  BY <1>3, <1>14, <1>15, <1>16 DEF SameObjects, CollectionInv, Objects
<1>18. ObjectTypes'
  BY <1>17 DEF CollectionInv, ObjectTypes
<1> QED
  BY <1>4, <1>12, <1>13, <1>17, <1>18, QuietReturn

SameLists ==
  /\ client' = client
  /\ \A h \in Handlers: handler'[h].clients = handler[h].clients

(* What does not depend on the registrations of the ports.                 *)
LEMMA SameListsFacts ==
  ASSUME SameLists
  PROVE  /\ Lists => Lists'
         /\ \A c \in CallType: c.do = "ForEach" /\ Complete(c) => Complete(c)'
         /\ \A x \in Clients, h \in Handlers: Listed(h, x)' <=> Listed(h, x)
         /\ \A x \in Clients: Stopper(x)' = Stopper(x)
         /\ \A h, c: Concerns(h, c)' <=> Concerns(h, c)
         /\ \A c: Sends(c)' <=> Sends(c)
<1>1. /\ \A x, h: h \in Handlers => (Listed(h, x)' <=> Listed(h, x))
      /\ \A x: Stopper(x)' = Stopper(x)
  BY DEF SameLists, Listed, Stopper
<1>2. Lists => Lists'
  BY <1>1 DEF SameLists, Lists
<1>3. ASSUME NEW c \in CallType, c.do = "ForEach", Complete(c)
      PROVE  Complete(c)'
  <2>1. c.handler \in Handlers
    BY <1>3, CallFacts
  <2> QED
    BY <1>3, <2>1 DEF Complete, SameLists
<1>4. \A h, c: Concerns(h, c)' <=> Concerns(h, c)
  BY <1>1 DEF Concerns
<1>5. \A c: Sends(c)' <=> Sends(c)
  BY DEF Sends, SameLists
<1> QED
  BY <1>1, <1>2, <1>3, <1>4, <1>5

(* A port is not registered any more and begins to stop its clients.       *)
LEMMA UnregisterInv ==
  ASSUME CollectionInv, calls # <<>>, Top.do \in {"Open", "Stop"},
         handler[Top.handler].m_Registered,
         handler' = [handler EXCEPT ![Top.handler].m_Registered = FALSE, ![Top.handler].open = FALSE],
         m_SerialPortHandlerMap' = Deregistered(Top.handler),
         Call(ForEach(Top.handler, "stop")),
         UNCHANGED <<client, m_HdlcdServerHandlerList, s_bCyclicCallGuard, daemon>>
  PROVE  CollectionInv'
<1>1. PICK h \in Handlers: h = Top.handler
  BY UnderPort
<1>2. /\ Top \in CallType /\ Rest \in Seq(CallType) /\ Chain(Rest) /\ MayBegin(Top, Rest)
      /\ Pending = {Top} \cup ToSet(Rest) /\ Pending \subseteq CallType
      /\ daemon # "failed" /\ Stack
      /\ \A d, e \in Pending: Agree(d, e)
      /\ \A d \in Pending: Justified(d) /\ (d.do = "ForEach" => Complete(d))
  BY Innermost
<1>3. \A d \in ToSet(Rest): ~Querying(d) /\ ~AboutPort(d) /\ Concerns(h, d)
  BY <1>1, UnderPort
<1>4. "stop" \in Functions
  BY DEF Functions
<1>5. PICK it \in CallType: /\ ForEach(h, "stop") = <<it>> /\ it.do = "ForEach"
                            /\ it.handler = h /\ it.function = "stop" /\ Complete(it)
  BY <1>4, ForEachFacts
<1>6. calls' = <<it>> \o Rest /\ calls' \in Seq(CallType) /\ Pending' = {it} \cup ToSet(Rest)
  BY <1>1, <1>5, ReplacedByOne
<1>7. /\ Stopping(it) /\ AboutPort(it) /\ ~Querying(it) /\ ~Quiet(it) /\ ~Ending(it) /\ ~Destroying(it)
      /\ Concerns(h, it)
  BY <1>5 DEF Stopping, AboutPort, Querying, Quiet, Ending, Destroying, Concerns
<1>8. Chain(calls')
  <2>1. MayBegin(it, Rest)
    <3>1. CASE Rest = <<>>
      BY <1>5, <3>1 DEF MayBegin
    <3>2. CASE Rest # <<>> /\ Top.do = "Open"
      BY <1>2, <1>7, <3>2 DEF MayBegin, MayCall, Quiet, Stopping, Destroying
    <3>3. CASE Rest # <<>> /\ Top.do = "Stop"
      <4>1. Rest[1] \in ToSet(Rest)
        <5>1. 1 \in DOMAIN Rest
          BY <1>2, <3>3, EmptySeq, LenProperties
        <5> QED
          BY <5>1 DEF ToSet
      <4>2. Stopping(Rest[1]) \/ Rest[1].do = "DestroyClient"
        BY <1>2, <3>3 DEF MayBegin, MayCall, Quiet, Stopping, Destroying
      <4>3. Rest[1].do = "DestroyClient"
        BY <1>3, <4>1, <4>2 DEF AboutPort
      <4>4. Agree(Rest[1], Top)
        BY <1>2, <4>1
      <4> QED
        BY <3>3, <4>3, <4>4 DEF Agree
    <3> QED
      BY <1>1, <3>1, <3>2, <3>3
  <2>2. \A d \in ToSet(Rest): Exclude(it, d) /\ Exclude(d, it)
    BY <1>3, <1>5, <1>7 DEF Exclude, AboutPort
  <2> QED
    BY <1>2, <1>6, <2>1, <2>2, Pushed
<1>9. handler \in [Handlers -> PortType]
  BY DEF CollectionInv, ObjectTypes
<1> DEFINE port == [handler[h] EXCEPT !.m_Registered = FALSE, !.open = FALSE]
<1>10. /\ port \in PortType /\ ~port.m_Registered /\ ~port.open
       /\ port.clients = handler[h].clients
  <2>1. PICK old \in PortType: old = handler[h]
    BY <1>9
  <2>2. /\ [old EXCEPT !.m_Registered = FALSE, !.open = FALSE] \in PortType
        /\ ~[old EXCEPT !.m_Registered = FALSE, !.open = FALSE].m_Registered
        /\ ~[old EXCEPT !.m_Registered = FALSE, !.open = FALSE].open
        /\ [old EXCEPT !.m_Registered = FALSE, !.open = FALSE].clients = old.clients
    BY DEF PortType
  <2> QED
    BY <2>1, <2>2
<1>11. handler' = [handler EXCEPT ![h] = port]
  BY <1>1, <1>9
<1> HIDE DEF port
<1>12. /\ handler' \in [Handlers -> PortType] /\ SameLists
       /\ \A g \in Handlers: handler'[g].m_Registered <=> handler[g].m_Registered /\ g # h
       /\ \A g \in Handlers: handler'[g].open => handler[g].open /\ g # h
  BY <1>9, <1>10, <1>11 DEF SameLists
<1>13. ObjectTypes'
  <2>1. m_SerialPortHandlerMap' \in [Names -> Handlers \cup {None}]
    BY DEF CollectionInv, ObjectTypes, Deregistered
  <2> QED
    BY <1>12, <2>1 DEF CollectionInv, ObjectTypes
<1>14. Lists' /\ Objects'
  BY <1>12, SameListsFacts DEF CollectionInv, Objects
<1>15. ASSUME NEW c \in Pending'
       PROVE  Justified(c)' /\ (c.do = "ForEach" => Complete(c)')
  <2>1. CASE c = it
    <3>1. Justified(c)'
      BY <1>5, <1>7, <1>12, <2>1 DEF Justified
    <3>2. Complete(c)'
      BY <1>5, <1>12, <2>1, SameListsFacts
    <3> QED
      BY <3>1, <3>2
  <2>2. CASE c \in ToSet(Rest)
    <3>1. c \in CallType /\ Justified(c) /\ (c.do = "ForEach" => Complete(c))
      BY <1>2, <2>2
    <3>2. ~Querying(c) /\ ~Stopping(c) /\ c.do \notin {"Open", "Query"}
      BY <1>3, <2>2, Under DEF AboutPort
    <3>3. c.do = "Attach" => c.handler \in Handlers /\ c.client \in Clients
      BY <3>1, CallFacts
    <3>4. c.do = "ReleaseStopper" => c.client \in Clients
      BY <3>1, CallFacts DEF Ending, Destroying
    <3>5. Justified(c)'
      BY <1>12, <3>1, <3>2, <3>3, <3>4, SameListsFacts DEF Justified, SameLists
    <3>6. c.do = "ForEach" => Complete(c)'
      BY <1>12, <3>1, SameListsFacts
    <3> QED
      BY <3>5, <3>6
  <2> QED
    BY <1>6, <2>1, <2>2
<1>16. \A g, c: (Concerns(g, c)' <=> Concerns(g, c)) /\ (Sends(c)' <=> Sends(c))
  BY <1>12, SameListsFacts
<1>17. ASSUME NEW c \in Pending', NEW d \in Pending'
       PROVE  Agree(c, d)'
  <2>1. CASE c = it
    <3>1. Concerns(c.handler, d)
      BY <1>3, <1>5, <1>6, <1>7, <2>1
    <3> QED
      BY <1>5, <1>7, <1>16, <2>1, <3>1 DEF Agree
  <2>2. CASE c \in ToSet(Rest)
    <3>1. ~AboutPort(c) /\ ~Querying(c)
      BY <1>3, <2>2
    <3>2. d.do # "Stop"
      BY <1>5, <1>6, Under
    <3> QED
      BY <3>1, <3>2 DEF Agree
  <2> QED
    BY <1>6, <2>1, <2>2
<1>18. Together' /\ CallsJustified' /\ NobodyMissed'
  BY <1>15, <1>17 DEF Together, CallsJustified, NobodyMissed
<1>19. GuardLocked'
  BY <1>2, <1>5, <1>6 DEF Stack, GuardLocked
<1>20. Used'
  <2>1. \A x: InUse(x, {"DestroyClient", "LeaveClient", "Attach"}) => InUse(x, {"DestroyClient", "LeaveClient", "Attach"})'
    BY <1>2, <1>6 DEF InUse
  <2>2. \A x: InUse(x, {"DestroyClient", "Attach"}) => InUse(x, {"DestroyClient", "Attach"})'
    BY <1>2, <1>6 DEF InUse
  <2> QED
    BY <1>2, <1>12, <2>1, <2>2, SameListsFacts DEF Used, Stack, SameLists
<1> QED
  BY <1>2, <1>6, <1>8, <1>13, <1>14, <1>18, <1>19, <1>20 DEF CollectionInv, Stack

(* A port is opened, or cannot be opened.                                  *)
LEMMA OpenSerialPortInv ==
  ASSUME CollectionInv, OpenSerialPort
  PROVE  CollectionInv'
<1>1. /\ calls # <<>> /\ Top.do = "Open"
      /\ UNCHANGED <<client, m_HdlcdServerHandlerList, s_bCyclicCallGuard, daemon>>
  BY DEF OpenSerialPort, Running, Top, Keep
<1>2. handler[Top.handler].m_Registered
  BY <1>1, Innermost DEF Justified
<1>3. CASE /\ handler' = [handler EXCEPT ![Top.handler].open = TRUE]
           /\ Call(DeliverSent(Top.handler) \o ForHandler("Propagate", Top.handler))
           /\ UNCHANGED m_SerialPortHandlerMap
  BY <1>1, <1>3, OpenedInv
<1>4. CASE /\ handler' = [handler EXCEPT ![Top.handler].m_Registered = FALSE, ![Top.handler].open = FALSE]
           /\ m_SerialPortHandlerMap' = Deregistered(Top.handler)
           /\ Call(ForEach(Top.handler, "stop"))
  BY <1>1, <1>2, <1>4, UnregisterInv
<1> QED
  BY <1>3, <1>4 DEF OpenSerialPort, Top

(* A port is stopped; one that is not open ends the daemon.                *)
LEMMA StopHandlerInv ==
  ASSUME CollectionInv, StopHandler
  PROVE  CollectionInv'
<1>1. /\ calls # <<>> /\ Top.do = "Stop"
      /\ UNCHANGED <<client, m_HdlcdServerHandlerList, s_bCyclicCallGuard>>
  BY DEF StopHandler, Running, Top, Keep
<1>2. CASE Call(<<>>) /\ UNCHANGED <<handler, m_SerialPortHandlerMap, daemon>>
  <2>1. SameObjects /\ ObjectTypes'
    BY <1>1, <1>2, Untouched DEF CollectionInv, ObjectTypes
  <2> QED
    BY <1>1, <1>2, <2>1, ReturnInv
<1>3. CASE /\ handler[Top.handler].m_Registered
           /\ handler' = [handler EXCEPT ![Top.handler].m_Registered = FALSE, ![Top.handler].open = FALSE]
           /\ m_SerialPortHandlerMap' = Deregistered(Top.handler)
           /\ Call(ForEach(Top.handler, "stop"))
           /\ UNCHANGED daemon
  BY <1>1, <1>3, UnregisterInv
<1>4. CASE /\ handler' = [handler EXCEPT ![Top.handler].m_Registered = FALSE, ![Top.handler].open = FALSE]
           /\ calls' = <<>> /\ daemon' = "failed" /\ UNCHANGED m_SerialPortHandlerMap
  <2>1. PICK h \in Handlers: h = Top.handler
    BY <1>1, UnderPort
  <2>2. handler \in [Handlers -> PortType]
    BY DEF CollectionInv, ObjectTypes
  <2> DEFINE port == [handler[h] EXCEPT !.m_Registered = FALSE, !.open = FALSE]
  <2>3. /\ port \in PortType /\ ~port.open
        /\ port.clients = handler[h].clients
    <3>1. PICK old \in PortType: old = handler[h]
      BY <2>2
    <3>2. /\ [old EXCEPT !.m_Registered = FALSE, !.open = FALSE] \in PortType
          /\ ~[old EXCEPT !.m_Registered = FALSE, !.open = FALSE].open
          /\ [old EXCEPT !.m_Registered = FALSE, !.open = FALSE].clients = old.clients
      BY DEF PortType
    <3> QED
      BY <3>1, <3>2
  <2>4. handler' = [handler EXCEPT ![h] = port]
    BY <1>4, <2>1, <2>2
  <2> HIDE DEF port
  <2>5. /\ handler' \in [Handlers -> PortType] /\ SameLists
        /\ \A g \in Handlers: handler'[g].open => handler[g].open /\ g # h
        /\ \A g \in Handlers: g # h => handler'[g] = handler[g]
    BY <1>1, <2>2, <2>3, <2>4 DEF SameLists
  <2>6. ObjectTypes' /\ Lists' /\ Objects'
    BY <1>1, <1>4, <2>5, SameListsFacts DEF CollectionInv, ObjectTypes, Objects
  <2>7. Pending' = {} /\ calls' \in Seq(CallType)
    BY <1>4, NoCalls DEF Pending
  <2> QED
    BY <1>4, <2>6, <2>7 DEF CollectionInv, NobodyMissed
<1> QED
  BY <1>2, <1>3, <1>4 DEF StopHandler, Top

(* A lock is given back: the port is opened, or its clients are told.      *)
LEMMA ResumeSerialPortInv ==
  ASSUME CollectionInv, ResumeSerialPort
  PROVE  CollectionInv'
<1>1. /\ calls # <<>> /\ Top.do = "Resume"
      /\ UNCHANGED <<client, m_SerialPortHandlerMap, m_HdlcdServerHandlerList, s_bCyclicCallGuard, daemon>>
  BY DEF ResumeSerialPort, Running, Top, Keep
<1>2. CASE Call(<<>>) /\ UNCHANGED handler
  <2>1. SameObjects /\ ObjectTypes'
    BY <1>1, <1>2, Untouched DEF CollectionInv, ObjectTypes
  <2> QED
    BY <1>1, <1>2, <2>1, ReturnInv
<1>3. ASSUME handler[Top.handler].m_Registered,
             handler' = [handler EXCEPT ![Top.handler].m_NbrOfLocks = @ - 1],
             NEW do \in {"Open", "Propagate"}, Call(ForHandler(do, Top.handler))
      PROVE  CollectionInv'
  <2>1. PICK h \in Handlers: h = Top.handler
    BY <1>1, UnderPort
  <2>2. handler \in [Handlers -> PortType]
    BY DEF CollectionInv, ObjectTypes
  <2> DEFINE port == [handler[h] EXCEPT !.m_NbrOfLocks = @ - 1]
  <2>3. /\ port \in PortType /\ port.m_Registered = handler[h].m_Registered
        /\ port.clients = handler[h].clients /\ port.open = handler[h].open
    <3>1. handler[h].m_NbrOfLocks - 1 \in Int
      BY <2>2 DEF PortType
    <3> QED
      BY <2>2, <3>1 DEF PortType
  <2>4. handler' = [handler EXCEPT ![h] = port]
    BY <1>3, <2>1
  <2> HIDE DEF port
  <2>5. handler' \in [Handlers -> PortType] /\ SameObjects
    BY <1>1, <2>2, <2>3, <2>4 DEF SameObjects, CollectionInv, Objects
  <2>6. ObjectTypes'
    BY <1>1, <2>5 DEF CollectionInv, ObjectTypes
  <2>7. /\ Rest \in Seq(CallType) /\ Chain(Rest) /\ MayBegin(Top, Rest)
        /\ Pending = {Top} \cup ToSet(Rest) /\ daemon # "failed" /\ Stack
    BY <1>1, Innermost
  <2>8. \A d \in ToSet(Rest): ~Querying(d) /\ ~AboutPort(d) /\ Concerns(h, d)
    BY <1>1, <1>3, <2>1, UnderPort
  <2> DEFINE a == OnPort(do, h)
  <2>9. a \in CallType /\ a.do = do /\ a.handler = h
    BY NewCalls DEF OnPort
  <2>10. Call(<<a>>)
    BY <1>3, <2>1 DEF ForHandler, OnPort
  <2> HIDE DEF a
  <2>11. QuietFits(Rest)
    BY <1>1, <2>7 DEF MayBegin, MayCall, QuietFits, Stopping, Quiet, Destroying
  <2>12. CASE do = "Propagate"
    <3>1. Quiet(a) /\ a.do # "ForEach"
      BY <2>9, <2>12 DEF Quiet
    <3> QED
      BY <1>1, <2>5, <2>6, <2>8, <2>9, <2>10, <2>11, <3>1, QuietCalled
  <2>13. CASE do = "Open"
    <3>1. calls' = <<a>> \o Rest /\ calls' \in Seq(CallType) /\ Pending' = {a} \cup ToSet(Rest)
      BY <1>1, <2>9, <2>10, ReplacedByOne
    <3>2. /\ AboutPort(a) /\ ~Stopping(a) /\ ~Destroying(a) /\ ~Ending(a) /\ ~Querying(a)
          /\ Concerns(h, a)
      BY <2>9, <2>13 DEF AboutPort, Stopping, Destroying, Ending, Querying, Concerns
    <3>3. MayBegin(a, Rest)
      BY <1>1, <2>7, <2>9, <2>13 DEF MayBegin, MayCall, Stopping, Quiet, Destroying
    <3>4. \A d \in ToSet(Rest): Exclude(a, d) /\ Exclude(d, a)
      BY <2>9, <2>13, <3>2 DEF Exclude
    <3>5. Chain(calls')
      BY <2>7, <2>9, <3>1, <3>3, <3>4, Pushed
    <3>6. Justified(a)
      BY <1>3, <2>1, <2>9, <2>13, <3>2 DEF Justified
    <3>7. \A d \in {a} \cup ToSet(Rest): Agree(a, d) /\ Agree(d, a)
      BY <2>8, <2>9, <2>13, <3>2 DEF Agree
    <3>8. GuardLocked'
      BY <1>1, <2>7, <2>9, <2>13, <3>1 DEF Stack, GuardLocked
    <3>9. Used'
      BY <1>1, <2>5, <2>7, <3>1, UsedKept DEF Stack
    <3> DEFINE N == {a}
    <3>10. /\ N \subseteq CallType /\ Pending' = N \cup ToSet(Rest) /\ ToSet(Rest) \subseteq Pending
           /\ \A b \in N: Justified(b) /\ (b.do = "ForEach" => Complete(b))
           /\ \A b \in N: \A d \in N \cup ToSet(Rest): Agree(b, d) /\ Agree(d, b)
      BY <2>7, <2>9, <2>13, <3>1, <3>6, <3>7
    <3> HIDE DEF N
    <3> QED
      BY <1>1, <2>5, <2>6, <2>7, <3>1, <3>5, <3>8, <3>9, <3>10, SameObjectsStep
  <2> QED
    BY <2>12, <2>13
<1>4. CASE /\ handler[Top.handler].m_Registered
           /\ handler' = [handler EXCEPT ![Top.handler].m_NbrOfLocks = @ - 1]
           /\ Call(ForHandler(IF handler'[Top.handler].m_NbrOfLocks = 0 THEN "Open" ELSE "Propagate", Top.handler))
  BY <1>3, <1>4
<1> QED
  BY <1>2, <1>4 DEF ResumeSerialPort, Top

(* A client that an iteration meets is entered in the list of the port.    *)
LEMMA MetClient ==
  ASSUME CollectionInv, MeetsClient
  PROVE  /\ calls # <<>> /\ Top.do = "ForEach" /\ Running("ForEach")
         /\ Top.next \in Clients /\ client[Top.next].exists
         /\ Listed(Top.handler, Top.next) /\ Top.handler \in Handlers
         /\ Stopper(Top.next) \in {None, Top.handler}
<1>1. calls # <<>> /\ Top.do = "ForEach" /\ Running("ForEach") /\ Top.next \in Clients /\ client[Top.next].exists
  BY DEF MeetsClient, Running, Top
<1>2. Top.handler \in Handlers /\ Listed(Top.handler, Top.next)
  BY <1>1, OnwardsFacts DEF Listed
<1> QED
  BY <1>1, <1>2 DEF CollectionInv, Lists

(* Nothing is left of a client that exists but what holds it.              *)
LEMMA NotDestroying ==
  ASSUME CollectionInv, calls # <<>>, Top.do # "Stop"
  PROVE  \A d \in ToSet(Rest): Destroying(d) => ~client[d.client].exists
<1>1. \A d \in ToSet(Rest): d.do # "DestroyClient" /\ Justified(d)
  BY Under, Innermost
<1> QED
  BY <1>1 DEF Destroying, Justified

(* A client is stopped.                                                    *)
LEMMA VisitToStopInv ==
  ASSUME CollectionInv, VisitToStop
  PROVE  CollectionInv'
<1>1. /\ MeetsClient /\ Stopping(Top) /\ Top.function = "stop" /\ s_bCyclicCallGuard' = TRUE
      /\ UNCHANGED <<client, handler, m_SerialPortHandlerMap, m_HdlcdServerHandlerList, daemon>>
  BY DEF VisitToStop, VisitCalling, Iterating, Running, Top, Stopping, objects, collections
<1>2. /\ calls # <<>> /\ Top.do = "ForEach" /\ Running("ForEach")
      /\ Top.next \in Clients /\ client[Top.next].exists
      /\ Top.handler \in Handlers /\ Stopper(Top.next) \in {None, Top.handler}
  BY <1>1, MetClient
<1>3. PICK x \in Clients: x = Top.next /\ client[x].exists /\ Stopper(x) \in {None, Top.handler}
  BY <1>2
<1>4. SameObjects /\ ObjectTypes'
  BY <1>1, Untouched
<1>5. /\ Top \in CallType /\ Rest \in Seq(CallType) /\ Chain(Rest) /\ MayBegin(Top, Rest)
      /\ Pending = {Top} \cup ToSet(Rest) /\ daemon # "failed" /\ Stack
      /\ \A d \in ToSet(Rest): Exclude(Top, d) /\ Exclude(d, Top)
      /\ \A d, e \in Pending: Agree(d, e)
      /\ \A d \in Pending: Justified(d) /\ (d.do = "ForEach" => Complete(d))
  BY <1>2, Innermost
<1>6. \A d \in ToSet(Rest): d.do # "LeaveClient"
  BY <1>1, <1>2, OneLeaves
<1>7. s_bCyclicCallGuard = FALSE
  BY <1>2, <1>5, <1>6 DEF Stack, GuardLocked, CollectionInv, ObjectTypes
<1>8. /\ Onwards \in CallType /\ Onwards.do = "ForEach" /\ Complete(Onwards)
      /\ Onwards.handler = Top.handler /\ Onwards.function = Top.function
  BY <1>2, OnwardsFacts
<1>9. PICK o \in CallType: /\ o = Onwards /\ o.do = "ForEach" /\ Complete(o)
                           /\ o.handler = Top.handler /\ o.function = Top.function
  BY <1>8
<1>10. /\ \A d: MayCall(Top, d) => MayCall(o, d)
       /\ \A d: (Exclude(Top, d) => Exclude(o, d)) /\ (Exclude(d, Top) => Exclude(d, o))
       /\ \A d: (Agree(Top, d) => Agree(o, d)) /\ (Agree(d, Top) => Agree(d, o))
       /\ Agree(Top, Top) => Agree(o, o)
       /\ Justified(Top) => Justified(o)
       /\ Stopping(o) /\ (Querying(o) <=> Querying(Top))
  BY <1>1, <1>2, <1>5, <1>9, SameIteration
<1> DEFINE a == OnClient("StopClient", x)
           l == Leaving(x, TRUE)
<1>11. /\ a \in CallType /\ a.do = "StopClient" /\ a.client = x
       /\ l \in CallType /\ l.do = "LeaveClient" /\ l.client = x /\ l.locked
  BY NewCalls DEF OnClient, Leaving
<1>12. calls' = (<<a>> \o <<l, o>>) \o Rest
  BY <1>3, <1>7, <1>9 DEF VisitToStop, VisitCalling, Call, ForClient, OnClient, Leaving, Top, Rest
<1> HIDE DEF a, l
<1>13. calls' = <<a>> \o (<<l>> \o (<<o>> \o Rest))
  <2>1. <<a>> \o <<l, o>> = (<<a>> \o <<l>>) \o <<o>>
    OBVIOUS
  <2> QED
    BY <1>5, <1>9, <1>11, <1>12, <2>1, InTurn
<1>14. /\ ~Stopping(a) /\ ~Destroying(a) /\ Ending(a) /\ ~AboutPort(a) /\ ~Querying(a)
       /\ ~Stopping(l) /\ ~Destroying(l) /\ Ending(l) /\ ~AboutPort(l) /\ ~Querying(l)
       /\ ~Destroying(o) /\ ~Querying(o)
  BY <1>1, <1>9, <1>10, <1>11 DEF Stopping, Destroying, Ending, AboutPort, Querying
<1> DEFINE s1 == <<o>> \o Rest
           s2 == <<l>> \o s1
           s3 == <<a>> \o s2
<1>15. s1 \in Seq(CallType) /\ Chain(s1) /\ ToSet(s1) = {o} \cup ToSet(Rest) /\ s1 # <<>> /\ s1[1] = o
  <2>1. MayBegin(o, Rest)
    BY <1>5, <1>9, <1>2, <1>10 DEF MayBegin
  <2>2. \A d \in ToSet(Rest): Exclude(o, d) /\ Exclude(d, o)
    BY <1>5, <1>10
  <2> QED
    BY <1>5, <1>9, <2>1, <2>2, Pushed
<1> HIDE DEF s1
<1>16. \A d \in ToSet(Rest): Destroying(d) => d.client # x
  BY <1>2, <1>3, NotDestroying
<1>17. s2 \in Seq(CallType) /\ Chain(s2) /\ ToSet(s2) = {l} \cup ToSet(s1) /\ s2 # <<>> /\ s2[1] = l
  <2>1. MayBegin(l, s1)
    BY <1>10, <1>11, <1>15 DEF MayBegin, MayCall
  <2>2. \A d \in ToSet(s1): Exclude(l, d) /\ Exclude(d, l)
    BY <1>11, <1>14, <1>15, <1>16 DEF Exclude
  <2>0. l \in CallType /\ s1 \in Seq(CallType) /\ Chain(s1)
    BY <1>11, <1>15
  <2>3. s2 \in Seq(CallType) /\ ToSet(s2) = {l} \cup ToSet(s1) /\ s2 # <<>> /\ s2[1] = l
    BY <2>0, Pushed
  <2>4. Chain(s2)
    BY <2>0, <2>1, <2>2, Pushed
  <2> HIDE DEF s2
  <2> QED
    BY <2>3, <2>4
<1> HIDE DEF s2
<1>18. s3 \in Seq(CallType) /\ Chain(s3) /\ ToSet(s3) = {a} \cup ToSet(s2)
  <2>1. MayBegin(a, s2)
    BY <1>11, <1>17 DEF MayBegin, MayCall
  <2>2. \A d \in ToSet(s2): Exclude(a, d) /\ Exclude(d, a)
    BY <1>11, <1>14, <1>15, <1>16, <1>17 DEF Exclude
  <2>3. a \in CallType /\ s2 \in Seq(CallType) /\ Chain(s2)
    BY <1>11, <1>17
  <2>4. s3 \in Seq(CallType) /\ ToSet(s3) = {a} \cup ToSet(s2)
    BY <2>3, Pushed
  <2>5. Chain(s3)
    BY <2>1, <2>2, <2>3, Pushed
  <2> HIDE DEF s3
  <2> QED
    BY <2>4, <2>5
<1> HIDE DEF s3
<1>19. calls' = s3
  BY <1>13 DEF s1, s2, s3
<1>20. calls' \in Seq(CallType) /\ Chain(calls') /\ Pending' = {a, l, o} \cup ToSet(Rest)
  <2>1. Pending' = ToSet(s3)
    BY <1>19 DEF Pending
  <2> QED
    BY <1>15, <1>17, <1>18, <1>19, <2>1
<1>21. \A d \in ToSet(Rest): ~AboutPort(d) /\ ~Querying(d)
  <2>1. \A d \in ToSet(Rest): ~AboutPort(d)
    BY <1>2, UnderIteration
  <2>2. ~Sends(Top)
    BY <1>1, <1>2 DEF Sends, Quiet, Querying
  <2> QED
    BY <1>5, <2>1, <2>2 DEF Agree
<1>22. Concerns(o.handler, a) /\ Concerns(o.handler, l)
  BY <1>3, <1>9, <1>11, <1>14 DEF Concerns
<1>23. \A d \in {a, l, o} \cup ToSet(Rest): Agree(o, d) /\ Agree(d, o)
  <2>1. Agree(o, a) /\ Agree(o, l)
    BY <1>9, <1>14, <1>22 DEF Agree
  <2>2. Agree(a, o) /\ Agree(l, o)
    BY <1>9, <1>11, <1>14 DEF Agree
  <2> QED
    BY <1>5, <1>10, <2>1, <2>2
<1>24. \A b \in {a, l}: \A d \in {a, l} \cup ToSet(Rest): Agree(b, d) /\ Agree(d, b)
  BY <1>11, <1>14, <1>21 DEF Agree
<1>25. Justified(a) /\ Justified(l) /\ Justified(o)
  BY <1>5, <1>10, <1>11, <1>14 DEF Justified
<1>26. GuardLocked'
  BY <1>1, <1>11, <1>20 DEF GuardLocked
<1>27. Used'
  BY <1>2, <1>4, <1>5, <1>20, UsedKept DEF Stack
<1> DEFINE N == {a, l, o}
<1>28. /\ N \subseteq CallType /\ Pending' = N \cup ToSet(Rest) /\ ToSet(Rest) \subseteq Pending
       /\ \A b \in N: Justified(b) /\ (b.do = "ForEach" => Complete(b))
  BY <1>5, <1>9, <1>11, <1>20, <1>25
<1>29. \A b \in N: \A d \in N \cup ToSet(Rest): Agree(b, d) /\ Agree(d, b)
  BY <1>23, <1>24
<1> HIDE DEF N
<1> QED
  BY <1>1, <1>4, <1>5, <1>20, <1>26, <1>27, <1>28, <1>29, SameObjectsStep

(* Two calls at once are the same as one after the other.                  *)
LEMMA PairOfCalls ==
  ASSUME NEW l, NEW o
  PROVE  <<l, o>> = <<l>> \o <<o>>
<1> DEFINE C == {l, o}
           t == <<l>> \o <<o>>
<1>1. <<l>> \in Seq(C) /\ Len(<<l>>) = 1 /\ <<l>>[1] = l
  OBVIOUS
<1>2. <<o>> \in Seq(C) /\ Len(<<o>>) = 1 /\ <<o>>[1] = o
  OBVIOUS
<1>3. <<l, o>> \in Seq(C) /\ Len(<<l, o>>) = 2 /\ <<l, o>>[1] = l /\ <<l, o>>[2] = o
  OBVIOUS
<1>4. /\ t \in Seq(C) /\ Len(t) = 1 + 1
      /\ \A i \in 1..(1 + 1): t[i] = IF i <= 1 THEN <<l>>[i] ELSE <<o>>[i - 1]
  BY <1>1, <1>2, ConcatProperties
<1> HIDE DEF t
<1>5. t[1] = l /\ t[2] = o
  <2>1. t[1] = <<l>>[1] /\ t[2] = <<o>>[2 - 1]
    BY <1>4
  <2> QED
    BY <1>1, <1>2, <2>1
<1>6. Len(t) = 2 /\ \A i \in 1..2: t[i] = <<l, o>>[i]
  BY <1>3, <1>4, <1>5
<1>7. t = <<l, o>>
  BY <1>3, <1>4, <1>6, SeqEqual
<1> QED
  BY <1>7 DEF t

(* What a client sends, and what comes after it.                          *)
LEMMA SentFirst ==
  ASSUME NEW s \in Seq(CallType), NEW a \in CallType, NEW b \in CallType, NEW c \in CallType
  PROVE  /\ (<<a>> \o (<<b>> \o <<c>>)) \o s = <<a>> \o (<<b>> \o (<<c>> \o s))
         /\ <<a>> \o (<<b>> \o <<c>>) \in Seq(CallType)
<1> DEFINE S == Seq(CallType)
<1>1. \A x, y, z \in S: (x \o y) \o z = x \o (y \o z)
  BY Associative
<1>2. \A x, y \in S: x \o y \in S
  BY Associative
<1> DEFINE A == <<a>>
           B == <<b>>
           C == <<c>>
           BC == B \o C
<1>3. A \in S /\ B \in S /\ C \in S /\ s \in S
  OBVIOUS
<1> HIDE DEF A, B, C, S
<1>4. BC \in S
  BY <1>2, <1>3
<1>5. BC \o s = B \o (C \o s)
  BY <1>1, <1>3
<1> HIDE DEF BC
<1>6. (A \o BC) \o s = A \o (BC \o s)
  <2>1. \A y, z \in S: (A \o y) \o z = A \o (y \o z)
    BY <1>1, <1>3
  <2>2. \A z \in S: (A \o BC) \o z = A \o (BC \o z)
    BY <1>4, <2>1
  <2> QED
    BY <1>3, <2>2
<1>8. A \o BC \in S
  BY <1>2, <1>3, <1>4
<1>7. (A \o BC) \o s = A \o (B \o (C \o s))
  BY <1>5, <1>6
<1> QED
  BY <1>7, <1>8 DEF A, B, C, BC, S

(* Two calls after others.                                                 *)
LEMMA TwoAfter ==
  ASSUME NEW x \in Seq(CallType), NEW s \in Seq(CallType), NEW l \in CallType, NEW o \in CallType
  PROVE  (x \o <<l, o>>) \o s = x \o (<<l>> \o (<<o>> \o s))
<1>1. \A u, v, w \in Seq(CallType): (u \o v) \o w = u \o (v \o w)
  BY Associative
<1>2. \A u, v \in Seq(CallType): u \o v \in Seq(CallType)
  BY Associative
<1> DEFINE L == <<l>>
           O == <<o>>
           LO == <<l, o>>
<1>3. L \in Seq(CallType) /\ O \in Seq(CallType)
  OBVIOUS
<1>4. LO = L \o O
  BY PairOfCalls
<1> HIDE DEF L, O, LO
<1>5. LO \in Seq(CallType)
  BY <1>2, <1>3, <1>4
<1>6. LO \o s = L \o (O \o s)
  BY <1>1, <1>3, <1>4
<1>7. (x \o LO) \o s = x \o (LO \o s)
  BY <1>1, <1>5
<1>8. (x \o LO) \o s = x \o (L \o (O \o s))
  BY <1>6, <1>7
<1> QED
  BY <1>8 DEF L, O, LO

(* A client sends its packet, and may be asked for more.                   *)
LEMMA VisitToQueryInv ==
  ASSUME CollectionInv, VisitToQuery
  PROVE  CollectionInv'
<1>1. /\ MeetsClient /\ Querying(Top) /\ Top.function = "query" /\ s_bCyclicCallGuard' = TRUE
      /\ UNCHANGED <<client, handler, m_SerialPortHandlerMap, m_HdlcdServerHandlerList, daemon>>
  BY DEF VisitToQuery, VisitCalling, Iterating, Running, Top, Querying, objects, collections
<1>2. /\ calls # <<>> /\ Top.do = "ForEach" /\ Running("ForEach")
      /\ Top.next \in Clients /\ client[Top.next].exists /\ Top.handler \in Handlers
  BY <1>1, MetClient
<1>3. PICK x \in Clients, h \in Handlers: x = Top.next /\ h = Top.handler
  BY <1>2
<1>4. SameObjects /\ ObjectTypes'
  BY <1>1, Untouched
<1>5. Rest = <<>>
  BY <1>1, <1>2, Under DEF AtBottom
<1>6. /\ Pending = {Top} /\ daemon # "failed" /\ Stack /\ Justified(Top)
  BY <1>2, <1>5, Innermost, NoCalls
<1>7. s_bCyclicCallGuard = FALSE
  BY <1>2, <1>6 DEF Stack, GuardLocked, CollectionInv, ObjectTypes
<1>8. client[x].m_Registered
  BY <1>2, <1>3, <1>6 DEF Stack, Used, InUse
<1>9. handler[h].m_Registered
  BY <1>1, <1>3, <1>6 DEF Justified
<1>10. /\ Onwards \in CallType /\ Onwards.do = "ForEach" /\ Complete(Onwards)
       /\ Onwards.handler = Top.handler /\ Onwards.function = Top.function
  BY <1>2, OnwardsFacts
<1> DEFINE e == [Onwards EXCEPT !.function = "enqueue"]
<1>11. e \in CallType /\ e.do = "ForEach" /\ e.function = "enqueue" /\ e.handler = h /\ Complete(e)
  <2>1. Onwards \in [do: {"ForEach"}, handler: Handlers, function: Functions, next: Clients \cup {None},
                     rebuild: BOOLEAN, seen: SUBSET Clients]
    BY <1>10 DEF CallType
  <2>2. /\ e \in [do: {"ForEach"}, handler: Handlers, function: Functions, next: Clients \cup {None},
                  rebuild: BOOLEAN, seen: SUBSET Clients]
        /\ e.function = "enqueue"
        /\ e.handler = Onwards.handler /\ e.next = Onwards.next /\ e.seen = Onwards.seen
    BY <2>1 DEF Functions
  <2> HIDE DEF e
  <2>3. Complete(e)
    BY <1>10, <2>2 DEF Complete
  <2>4. e \in CallType
    BY <2>2 DEF CallType
  <2> QED
    BY <1>3, <1>10, <2>2, <2>3, <2>4
<1>12. PICK o \in CallType: /\ o = e /\ o.do = "ForEach" /\ o.function = "enqueue" /\ o.handler = h /\ Complete(o)
  BY <1>11
<1> DEFINE a == Delivery(h, "PAYLOAD")
           b == Delivery(h, "RAW")
           c == Delivery(h, "DISSECTED")
           l == Leaving(x, TRUE)
<1>13. /\ l \in CallType /\ l.do = "LeaveClient" /\ l.client = x /\ l.locked
  BY NewCalls DEF Leaving
<1>14. /\ a \in CallType /\ b \in CallType /\ c \in CallType
       /\ Quiet(a) /\ Quiet(b) /\ Quiet(c)
       /\ a.do # "ForEach" /\ b.do # "ForEach" /\ c.do # "ForEach"
  <2>1. a \in CallType /\ b \in CallType /\ c \in CallType
    BY NewCalls DEF BufferTypes
  <2> QED
    BY <2>1 DEF Quiet, Delivery
<1>15. calls' = ((<<a>> \o (<<b>> \o <<c>>)) \o <<l, o>>) \o Rest
  <2>1. /\ <<a>> = Deliver(h, "PAYLOAD") /\ <<b>> = Deliver(h, "RAW") /\ <<c>> = Deliver(h, "DISSECTED")
    BY DEF Deliver, Delivery
  <2>2. <<a>> \o (<<b>> \o <<c>>) = DeliverSentPayload(Top.handler)
    BY <1>3, <2>1 DEF DeliverSentPayload, DeliverSent
  <2>3. l = [do |-> "LeaveClient", client |-> calls[1].next, locked |-> ~s_bCyclicCallGuard]
    BY <1>3, <1>7 DEF Leaving, Top
  <2> HIDE DEF a, b, c, l
  <2>4. calls' = (DeliverSentPayload(Top.handler)
                  \o <<[do |-> "LeaveClient", client |-> calls[1].next, locked |-> ~s_bCyclicCallGuard], e>>) \o Rest
    BY DEF VisitToQuery, VisitCalling, Call, Top, Rest
  <2> HIDE DEF e
  <2> QED
    BY <1>12, <2>2, <2>3, <2>4
<1> HIDE DEF a, b, c, l, e
<1> DEFINE s1 == <<o>> \o Rest
           s2 == <<l>> \o s1
           s3 == <<c>> \o s2
           s4 == <<b>> \o s3
           s5 == <<a>> \o s4
<1>16. calls' = s5 /\ Rest \in Seq(CallType) /\ Chain(Rest) /\ ToSet(Rest) = {}
  <2>1. Rest \in Seq(CallType) /\ Chain(Rest) /\ ToSet(Rest) = {}
    BY <1>5, NoCalls
  <2>2. o \in CallType /\ l \in CallType /\ a \in CallType /\ b \in CallType /\ c \in CallType
    BY <1>12, <1>13, <1>14
  <2> DEFINE sent == <<a>> \o (<<b>> \o <<c>>)
  <2>3. sent \in Seq(CallType)
    BY <1>14, <2>1, SentFirst
  <2> HIDE DEF sent
  <2>4. (sent \o <<l, o>>) \o Rest = sent \o s2
    BY <1>12, <1>13, <2>1, <2>3, TwoAfter
  <2>5. s2 \in Seq(CallType)
    BY <1>12, <1>13, <2>1, Pushed
  <2> HIDE DEF s2
  <2> USE DEF sent
  <2>6. sent \o s2 = s5
    BY <1>14, <2>5, SentFirst
  <2> HIDE DEF s5
  <2> QED
    BY <1>15, <2>1, <2>4, <2>6
<1>17. /\ Querying(o) /\ ~Stopping(o) /\ ~Destroying(o) /\ ~Ending(o) /\ ~AboutPort(o) /\ Sends(o)
       /\ ~Stopping(l) /\ ~Destroying(l) /\ ~AboutPort(l) /\ ~Querying(l) /\ Sends(l)
       /\ \A d \in {a, b, c}: ~AboutPort(d) /\ ~Querying(d) /\ Sends(d) /\ d.do \notin {"DestroyClient", "LeaveClient"}
  <2>1. /\ Querying(o) /\ ~Stopping(o) /\ ~Destroying(o) /\ ~Ending(o) /\ ~AboutPort(o) /\ Sends(o)
    BY <1>12 DEF Querying, Stopping, Destroying, Ending, AboutPort, Sends
  <2>2. /\ ~Stopping(l) /\ ~Destroying(l) /\ ~AboutPort(l) /\ ~Querying(l) /\ Sends(l)
    BY <1>8, <1>13 DEF Querying, Stopping, Destroying, AboutPort, Sends
  <2>3. \A d \in {a, b, c}: ~AboutPort(d) /\ ~Querying(d) /\ Sends(d) /\ d.do \notin {"DestroyClient", "LeaveClient"}
    BY <1>14 DEF Quiet, AboutPort, Querying, Stopping, Sends
  <2> QED
    BY <2>1, <2>2, <2>3
<1>18. s1 \in Seq(CallType) /\ Chain(s1) /\ ToSet(s1) = {o} /\ s1 # <<>> /\ s1[1] = o
  <2>1. MayBegin(o, Rest)
    BY <1>5, <1>12 DEF MayBegin
  <2>2. \A d \in ToSet(Rest): Exclude(o, d) /\ Exclude(d, o)
    BY <1>16
  <2>3. o \in CallType /\ Rest \in Seq(CallType) /\ Chain(Rest)
    BY <1>12, <1>16
  <2>4. s1 \in Seq(CallType) /\ ToSet(s1) = {o} \cup ToSet(Rest) /\ s1 # <<>> /\ s1[1] = o
    BY <2>3, Pushed
  <2>5. Chain(s1)
    BY <2>1, <2>2, <2>3, Pushed
  <2> HIDE DEF s1
  <2> QED
    BY <1>16, <2>4, <2>5
<1> HIDE DEF s1
<1>19. s2 \in Seq(CallType) /\ Chain(s2) /\ ToSet(s2) = {l} \cup ToSet(s1) /\ s2 # <<>> /\ s2[1] = l
  <2>1. MayBegin(l, s1)
    BY <1>12, <1>13, <1>18 DEF MayBegin, MayCall
  <2>2. \A d \in ToSet(s1): Exclude(l, d) /\ Exclude(d, l)
    BY <1>17, <1>18 DEF Exclude
  <2> QED
    BY <1>13, <1>18, <2>1, <2>2, Pushed
<1> HIDE DEF s2
<1>20. s3 \in Seq(CallType) /\ Chain(s3) /\ QuietFits(s3) /\ ToSet(s3) = {c} \cup ToSet(s2)
  <2>1. QuietFits(s2)
    BY <1>13, <1>19 DEF QuietFits
  <2> QED
    BY <1>14, <1>19, <2>1, QuietChain
<1> HIDE DEF s3
<1>21. s4 \in Seq(CallType) /\ Chain(s4) /\ QuietFits(s4) /\ ToSet(s4) = {b} \cup ToSet(s3)
  BY <1>14, <1>20, QuietChain
<1> HIDE DEF s4
<1>22. s5 \in Seq(CallType) /\ Chain(s5) /\ ToSet(s5) = {a} \cup ToSet(s4)
  BY <1>14, <1>21, QuietChain
<1> HIDE DEF s5
<1> DEFINE N == {a, b, c, l, o}
<1>23. calls' \in Seq(CallType) /\ Chain(calls') /\ Pending' = N
  <2>1. Pending' = ToSet(s5)
    BY <1>16 DEF Pending
  <2> QED
    BY <1>16, <1>18, <1>19, <1>20, <1>21, <1>22, <2>1
<1>24. N \subseteq CallType /\ \A d \in N: Justified(d) /\ (d.do = "ForEach" => Complete(d))
  <2>1. Justified(o) /\ Justified(l)
    BY <1>9, <1>12, <1>13, <1>17 DEF Justified
  <2>2. Justified(a) /\ Justified(b) /\ Justified(c)
    BY <1>14, QuietAgrees
  <2> QED
    BY <1>12, <1>13, <1>14, <2>1, <2>2
<1>25. \A d, f \in N: Agree(d, f) /\ Agree(f, d)
  <2>1. \A d \in N: ~AboutPort(d) /\ Sends(d) /\ d.do # "DestroyClient"
    BY <1>12, <1>13, <1>17
  <2> QED
    BY <2>1 DEF Agree
<1>26. GuardLocked'
  BY <1>1, <1>13, <1>23 DEF GuardLocked
<1>27. Used'
  BY <1>2, <1>4, <1>6, UsedKept DEF Stack
<1>28. ToSet(Rest) = {} /\ Rest \in Seq(CallType) /\ N \cup ToSet(Rest) = N
  BY <1>5, NoCalls
<1> HIDE DEF N
<1> QED
  BY <1>1, <1>4, <1>6, <1>23, <1>24, <1>25, <1>26, <1>27, <1>28, SameObjectsStep

(* Who is held by the calls that remain.                                   *)
LEMMA HeldFacts ==
  ASSUME NEW s, NEW x
  PROVE  x \in HeldClients(s) <=> \E d \in ToSet(s): d.do \in {"LeaveClient", "Attach"} /\ d.client = x
BY DEF HeldClients, ToSet

(* A client is left; one that is not registered any more may be destroyed. *)
LEMMA LeaveClientInv ==
  ASSUME CollectionInv, LeaveClient
  PROVE  CollectionInv'
<1>1. /\ calls # <<>> /\ Top.do = "LeaveClient"
      /\ UNCHANGED <<client, handler, m_SerialPortHandlerMap, m_HdlcdServerHandlerList, daemon>>
      /\ s_bCyclicCallGuard' = (s_bCyclicCallGuard /\ ~Top.locked)
      /\ Call(IF client[Top.client].m_Registered THEN <<>> ELSE DestroyIfUnused(Top.client, Rest))
  BY DEF LeaveClient, Running, Top, Rest, objects, collections
<1>2. /\ Top \in CallType /\ Rest \in Seq(CallType) /\ Chain(Rest) /\ MayBegin(Top, Rest)
      /\ Pending = {Top} \cup ToSet(Rest) /\ daemon # "failed" /\ Stack
      /\ \A d \in ToSet(Rest): Exclude(Top, d) /\ Exclude(d, Top)
      /\ \A d, e \in Pending: Agree(d, e)
  BY <1>1, Innermost
<1>3. PICK x \in Clients: x = Top.client
  BY <1>1, <1>2, CallFacts DEF Ending
<1>4. Rest # <<>> /\ MayCall(Top, Rest[1])
  BY <1>1, <1>2 DEF MayBegin
<1>5. Rest[1] \in ToSet(Rest)
  <2>1. 1 \in DOMAIN Rest
    BY <1>2, <1>4, EmptySeq, LenProperties
  <2> QED
    BY <2>1 DEF ToSet
<1>6. Top.locked /\ (Stopping(Rest[1]) \/ Querying(Rest[1]))
  BY <1>1, <1>4 DEF MayCall, Stopping, Querying, Destroying, Quiet
<1>7. s_bCyclicCallGuard' = FALSE
  BY <1>1, <1>6 DEF CollectionInv, ObjectTypes
<1>8. \A d \in ToSet(Rest): d.do # "LeaveClient"
  BY <1>1, OneLeaves
<1>9. SameObjects /\ ObjectTypes'
  BY <1>1, <1>7, Untouched
<1>10. /\ \A y: InUse(y, {"DestroyClient", "Attach"}) => \E d \in ToSet(Rest): d.do \in {"DestroyClient", "Attach"} /\ d.client = y
       /\ \A y: InUse(y, {"DestroyClient", "LeaveClient", "Attach"}) =>
            \/ y = x
            \/ \E d \in ToSet(Rest): d.do \in {"DestroyClient", "LeaveClient", "Attach"} /\ d.client = y
  BY <1>1, <1>2, <1>3 DEF InUse
<1>11. ASSUME ToSet(Rest) \subseteq Pending', client[x].m_Registered \/ InUse(x, {"DestroyClient", "LeaveClient", "Attach"})'
       PROVE  Used'
  <2>1. \A y: InUse(y, {"DestroyClient", "LeaveClient", "Attach"}) => y = x \/ InUse(y, {"DestroyClient", "LeaveClient", "Attach"})'
    BY <1>10, <1>11 DEF InUse
  <2>2. \A y: InUse(y, {"DestroyClient", "Attach"}) => InUse(y, {"DestroyClient", "Attach"})'
    BY <1>10, <1>11 DEF InUse
  <2>3. /\ \A y \in Clients, h \in Handlers: Listed(h, y)' <=> Listed(h, y)
        /\ \A y \in Clients: Stopper(y)' = Stopper(y)
    BY <1>9, SameFacts
  <2> QED
    BY <1>1, <1>2, <1>11, <2>1, <2>2, <2>3 DEF Used, Stack
<1>12. ASSUME Call(<<>>), client[x].m_Registered \/ \E d \in ToSet(Rest): d.do = "Attach" /\ d.client = x
       PROVE  CollectionInv'
  <2> DEFINE N == {}
  <2>1. calls' \in Seq(CallType) /\ Chain(calls') /\ Pending' = N \cup ToSet(Rest)
    BY <1>1, <1>12, Returned
  <2>2. GuardLocked'
    BY <1>7, <1>8, <2>1 DEF GuardLocked
  <2>3. client[x].m_Registered \/ InUse(x, {"DestroyClient", "LeaveClient", "Attach"})'
    BY <1>12, <2>1 DEF InUse
  <2>4. Used'
    BY <1>11, <2>1, <2>3
  <2>5. /\ N \subseteq CallType /\ ToSet(Rest) \subseteq Pending
        /\ \A a \in N: Justified(a) /\ (a.do = "ForEach" => Complete(a))
        /\ \A a \in N: \A d \in N \cup ToSet(Rest): Agree(a, d) /\ Agree(d, a)
    BY <1>2
  <2> HIDE DEF N
  <2> QED
    BY <1>1, <1>2, <1>9, <2>1, <2>2, <2>4, <2>5, SameObjectsStep
<1>13. ASSUME Call(ForClient("DestroyClient", x)), ~client[x].m_Registered,
              ~\E d \in ToSet(Rest): d.do \in {"LeaveClient", "Attach"} /\ d.client = x
       PROVE  CollectionInv'
  <2> DEFINE a == OnClient("DestroyClient", x)
  <2>1. a \in CallType /\ a.do = "DestroyClient" /\ a.client = x /\ Call(<<a>>)
    BY <1>13, NewCalls DEF OnClient, ForClient
  <2> HIDE DEF a
  <2>2. calls' = <<a>> \o Rest /\ calls' \in Seq(CallType) /\ Pending' = {a} \cup ToSet(Rest)
    BY <1>1, <2>1, ReplacedByOne
  <2>3. ~Sends(Top)
    BY <1>1, <1>3, <1>13 DEF Sends, Quiet, Querying
  <2>4. \A d \in ToSet(Rest): ~Querying(d)
    BY <1>2, <2>3 DEF Agree
  <2>5. MayBegin(a, Rest)
    BY <1>4, <1>5, <1>6, <2>1, <2>4 DEF MayBegin, MayCall, Destroying
  <2>6. ~Stopping(a) /\ ~AboutPort(a) /\ ~Querying(a) /\ Destroying(a) /\ Ending(a)
    BY <2>1 DEF Stopping, AboutPort, Querying, Destroying, Ending
  <2>7. ASSUME NEW d \in ToSet(Rest)
        PROVE  Exclude(a, d) /\ Exclude(d, a)
    <3>1. Destroying(d) => d.client # x
      BY <1>1, <1>2, <1>3 DEF Exclude, Ending
    <3>2. d.do \notin {"StopClient", "LeaveClient"}
      BY <1>1, <1>8, Under
    <3> QED
      BY <1>13, <2>1, <2>6, <3>1, <3>2 DEF Exclude, Ending
  <2>8. Chain(calls')
    BY <1>2, <2>1, <2>2, <2>5, <2>7, Pushed
  <2>9. Justified(a)
    BY <2>1, <2>6 DEF Justified
  <2>10. ASSUME NEW d \in {a} \cup ToSet(Rest)
         PROVE  Agree(a, d) /\ Agree(d, a)
    <3>1. d.do # "Stop"
      BY <1>1, <2>1, Under
    <3>2. AboutPort(d) => Concerns(d.handler, a)
      <4>1. CASE d = a
        BY <2>6, <4>1
      <4>2. CASE d \in ToSet(Rest)
        <5>1. AboutPort(d) => Concerns(d.handler, Top)
          BY <1>2, <4>2 DEF Agree
        <5>2. ~AboutPort(Top)
          BY <1>1 DEF AboutPort, Stopping
        <5> QED
          BY <1>1, <1>3, <2>1, <2>6, <5>1, <5>2 DEF Concerns
      <4> QED
        BY <4>1, <4>2
    <3>3. ~Querying(d)
      BY <2>4, <2>6
    <3> QED
      BY <2>1, <2>6, <3>1, <3>2, <3>3 DEF Agree
  <2>11. GuardLocked'
    BY <1>7, <1>8, <2>1, <2>2 DEF GuardLocked
  <2>12. InUse(x, {"DestroyClient", "LeaveClient", "Attach"})'
    BY <2>1, <2>2 DEF InUse
  <2>13. Used'
    BY <1>11, <2>2, <2>12
  <2> DEFINE N == {a}
  <2>14. /\ N \subseteq CallType /\ Pending' = N \cup ToSet(Rest) /\ ToSet(Rest) \subseteq Pending
         /\ \A b \in N: Justified(b) /\ (b.do = "ForEach" => Complete(b))
         /\ \A b \in N: \A d \in N \cup ToSet(Rest): Agree(b, d) /\ Agree(d, b)
    BY <1>2, <2>1, <2>2, <2>9, <2>10
  <2> HIDE DEF N
  <2> QED
    BY <1>1, <1>2, <1>9, <2>2, <2>8, <2>11, <2>13, <2>14, SameObjectsStep
<1>14. CASE client[x].m_Registered
  BY <1>1, <1>3, <1>12, <1>14
<1>15. CASE ~client[x].m_Registered
  <2>1. Call(DestroyIfUnused(x, Rest))
    BY <1>1, <1>3, <1>15
  <2>2. CASE x \in HeldClients(Rest)
    BY <1>8, <1>12, <2>1, <2>2, HeldFacts DEF DestroyIfUnused
  <2>3. CASE x \notin HeldClients(Rest)
    BY <1>13, <1>15, <2>1, <2>3, HeldFacts DEF DestroyIfUnused
  <2> QED
    BY <2>2, <2>3
<1> QED
  BY <1>14, <1>15

(* A list without one of its elements.                                     *)
LEMMA RemoveFacts ==
  ASSUME NEW list \in Seq(Clients), NEW n \in DOMAIN list
  PROVE  /\ RemoveAt(list, n) \in Seq(Clients)
         /\ Len(RemoveAt(list, n)) = Len(list) - 1
         /\ DOMAIN RemoveAt(list, n) = 1..(Len(list) - 1)
         /\ \A i \in 1..(Len(list) - 1): RemoveAt(list, n)[i] = IF i < n THEN list[i] ELSE list[i + 1]
<1> DEFINE front == SubSeq(list, 1, n - 1)
           back == SubSeq(list, n + 1, Len(list))
           t == front \o back
<1>1. Len(list) \in Nat /\ DOMAIN list = 1..Len(list) /\ n \in 1..Len(list)
  BY LenProperties
<1>2. \A i \in 1..Len(list): list[i] \in Clients
  BY <1>1
<1>3. front \in Seq(Clients) /\ Len(front) = n - 1 /\ \A i \in 1..(n - 1): front[i] = list[i]
  <2>1. 1 \in Int /\ n - 1 \in Int /\ \A i \in 1..(n - 1): list[i] \in Clients
    BY <1>1, <1>2
  <2>2. /\ front \in Seq(Clients) /\ Len(front) = IF 1 <= n - 1 THEN (n - 1) - 1 + 1 ELSE 0
        /\ \A i \in 1..((n - 1) - 1 + 1): front[i] = list[1 + i - 1]
    BY <2>1, SubSeqProperties
  <2> HIDE DEF front
  <2>3. Len(front) = n - 1
    BY <1>1, <2>2
  <2>4. \A i \in 1..(n - 1): 1 + i - 1 = i /\ i \in 1..((n - 1) - 1 + 1)
    BY <1>1
  <2> QED
    BY <2>2, <2>3, <2>4
<1>4. /\ back \in Seq(Clients) /\ Len(back) = Len(list) - n
      /\ \A i \in 1..(Len(list) - n): back[i] = list[n + i]
  <2>1. n + 1 \in Int /\ Len(list) \in Int /\ \A i \in (n + 1)..Len(list): list[i] \in Clients
    BY <1>1, <1>2
  <2>2. /\ back \in Seq(Clients) /\ Len(back) = IF n + 1 <= Len(list) THEN Len(list) - (n + 1) + 1 ELSE 0
        /\ \A i \in 1..(Len(list) - (n + 1) + 1): back[i] = list[(n + 1) + i - 1]
    BY <2>1, SubSeqProperties
  <2> HIDE DEF back
  <2>3. Len(back) = Len(list) - n
    BY <1>1, <2>2
  <2>4. \A i \in 1..(Len(list) - n): (n + 1) + i - 1 = n + i /\ i \in 1..(Len(list) - (n + 1) + 1)
    BY <1>1
  <2> QED
    BY <2>2, <2>3, <2>4
<1> HIDE DEF front, back
<1>5. /\ t \in Seq(Clients) /\ Len(t) = (n - 1) + (Len(list) - n)
      /\ \A i \in 1..((n - 1) + (Len(list) - n)): t[i] = IF i <= n - 1 THEN front[i] ELSE back[i - (n - 1)]
  <2>1. /\ t \in Seq(Clients) /\ Len(t) = Len(front) + Len(back)
        /\ \A i \in 1..(Len(front) + Len(back)): t[i] = IF i <= Len(front) THEN front[i] ELSE back[i - Len(front)]
    BY <1>3, <1>4, ConcatProperties
  <2> HIDE DEF t
  <2>2. Len(front) = n - 1 /\ Len(back) = Len(list) - n
    BY <1>3, <1>4
  <2> QED
    BY <2>1, <2>2
<1> HIDE DEF t
<1>6. Len(t) = Len(list) - 1
  BY <1>1, <1>5
<1>7. DOMAIN t = 1..(Len(list) - 1)
  BY <1>5, <1>6, LenProperties
<1>8. ASSUME NEW i \in 1..(Len(list) - 1)
      PROVE  t[i] = IF i < n THEN list[i] ELSE list[i + 1]
  <2>1. t[i] = IF i <= n - 1 THEN front[i] ELSE back[i - (n - 1)]
    <3>1. i \in 1..((n - 1) + (Len(list) - n))
      BY <1>1
    <3> QED
      BY <1>5, <3>1
  <2>2. CASE i < n
    <3>1. i <= n - 1 /\ i \in 1..(n - 1)
      BY <1>1, <2>2
    <3> QED
      BY <1>3, <2>1, <2>2, <3>1
  <2>3. CASE ~(i < n)
    <3>1. ~(i <= n - 1) /\ i - (n - 1) \in 1..(Len(list) - n) /\ n + (i - (n - 1)) = i + 1
      BY <1>1, <2>3
    <3>2. back[i - (n - 1)] = list[n + (i - (n - 1))]
      BY <1>4, <3>1
    <3> QED
      BY <2>1, <2>3, <3>1, <3>2
  <2> QED
    BY <2>2, <2>3
<1> QED
  BY <1>5, <1>6, <1>7, <1>8 DEF t, front, back, RemoveAt

(* An outdated entry is passed, within another iteration.                  *)
LEMMA PassedInv ==
  ASSUME CollectionInv, MeetsOutdated, s_bCyclicCallGuard,
         Call(<<[Onwards EXCEPT !.rebuild = @ \/ FALSE]>>),
         UNCHANGED <<client, handler, m_SerialPortHandlerMap, m_HdlcdServerHandlerList, s_bCyclicCallGuard, daemon>>
  PROVE  CollectionInv'
<1>1. /\ calls # <<>> /\ Top.do = "ForEach" /\ Running("ForEach") /\ Top.next \in Clients
  BY DEF MeetsOutdated, Running, Top
<1>2. /\ Onwards \in CallType /\ Onwards.do = "ForEach" /\ Complete(Onwards)
      /\ Onwards.handler = Top.handler /\ Onwards.function = Top.function
  BY <1>1, OnwardsFacts
<1>3. Call(<<Onwards>>)
  <2>1. Onwards \in [do: {"ForEach"}, handler: Handlers, function: Functions, next: Clients \cup {None},
                     rebuild: BOOLEAN, seen: SUBSET Clients]
    BY <1>2 DEF CallType
  <2>2. [Onwards EXCEPT !.rebuild = @ \/ FALSE] = Onwards
    BY <2>1
  <2> QED
    BY <2>2
<1>4. /\ calls' \in Seq(CallType) /\ Chain(calls')
      /\ Pending' = {Onwards} \cup ToSet(Rest)
      /\ Justified(Onwards)
      /\ \A d \in {Onwards} \cup ToSet(Rest): Agree(Onwards, d) /\ Agree(d, Onwards)
      /\ \A d \in Pending: d \in Pending' \/ d.do = "ForEach"
      /\ (\E d \in Pending': d.do = "LeaveClient") <=> (\E d \in Pending: d.do = "LeaveClient")
  BY <1>1, <1>2, <1>3, Continues
<1>5. Rest \in Seq(CallType) /\ ToSet(Rest) \subseteq Pending /\ daemon # "failed" /\ Stack
  BY <1>1, Innermost
<1>6. SameObjects /\ ObjectTypes'
  BY Untouched DEF CollectionInv, ObjectTypes
<1>7. GuardLocked'
  BY <1>4, <1>5 DEF Stack, GuardLocked
<1>8. Used'
  BY <1>4, <1>5, <1>6, UsedKept DEF Stack
<1> DEFINE N == {Onwards}
<1>9. /\ N \subseteq CallType /\ Pending' = N \cup ToSet(Rest)
      /\ \A a \in N: Justified(a) /\ (a.do = "ForEach" => Complete(a))
      /\ \A a \in N: \A d \in N \cup ToSet(Rest): Agree(a, d) /\ Agree(d, a)
  BY <1>2, <1>4
<1> HIDE DEF N
<1> QED
  BY <1>4, <1>5, <1>6, <1>7, <1>8, <1>9, SameObjectsStep

(* Without another iteration at work it is the only one over its list.     *)
LEMMA OnlyIteration ==
  ASSUME CollectionInv, calls # <<>>, Top.do = "ForEach", ~s_bCyclicCallGuard
  PROVE  \A d \in ToSet(Rest): d.do = "ForEach" => d.handler # Top.handler
<1> SUFFICES ASSUME NEW d \in ToSet(Rest), d.do = "ForEach", d.handler = Top.handler
             PROVE  FALSE
  OBVIOUS
<1>1. Agree(d, Top) /\ Exclude(Top, d) /\ Stack
  BY Innermost
<1>2. \A e \in Pending: e.do # "LeaveClient"
  BY <1>1 DEF Stack, GuardLocked
<1>3. Stopping(d)
  BY <1>2, Under
<1>4. Concerns(d.handler, Top)
  BY <1>1, <1>3 DEF Agree, AboutPort
<1>5. Stopping(Top)
  BY <1>4 DEF Concerns, AboutPort, Ending, Destroying
<1> QED
  BY <1>1, <1>3, <1>5 DEF Exclude

(* An outdated entry is removed.                                           *)
LEMMA RemovedInv ==
  ASSUME CollectionInv, MeetsOutdated, ~s_bCyclicCallGuard,
         Call(<<[Onwards EXCEPT !.rebuild = @ \/ TRUE]>>),
         handler' = [handler EXCEPT ![Top.handler].clients = RemoveAt(@, Position(@, Top.next))],
         UNCHANGED <<client, m_SerialPortHandlerMap, m_HdlcdServerHandlerList, s_bCyclicCallGuard, daemon>>
  PROVE  CollectionInv'
<1>1. /\ calls # <<>> /\ Top.do = "ForEach" /\ Running("ForEach") /\ Top.next \in Clients
      /\ ~client[Top.next].exists
  BY DEF MeetsOutdated, Running, Top
<1>2. /\ Onwards \in CallType /\ Onwards.do = "ForEach" /\ Complete(Onwards)
      /\ Onwards.handler = Top.handler /\ Onwards.function = Top.function /\ Top.handler \in Handlers
  BY <1>1, OnwardsFacts
<1>3. PICK h \in Handlers, x \in Clients: h = Top.handler /\ x = Top.next /\ ~client[x].exists
  BY <1>1, <1>2
<1>4. PICK a \in CallType: /\ a.do = "ForEach" /\ a.handler = h /\ a.function = Top.function
                            /\ a.next = Onwards.next /\ a.seen = Onwards.seen /\ Call(<<a>>)
  <2> DEFINE e == [Onwards EXCEPT !.rebuild = @ \/ TRUE]
  <2>1. Onwards \in [do: {"ForEach"}, handler: Handlers, function: Functions, next: Clients \cup {None},
                     rebuild: BOOLEAN, seen: SUBSET Clients]
    BY <1>2 DEF CallType
  <2>2. /\ e \in [do: {"ForEach"}, handler: Handlers, function: Functions, next: Clients \cup {None},
                  rebuild: BOOLEAN, seen: SUBSET Clients]
        /\ e.handler = Onwards.handler /\ e.function = Onwards.function
        /\ e.next = Onwards.next /\ e.seen = Onwards.seen
    BY <2>1
  <2>3. Call(<<e>>)
    OBVIOUS
  <2> HIDE DEF e
  <2>4. e \in CallType /\ e.do = "ForEach"
    BY <2>2 DEF CallType
  <2> QED
    BY <1>2, <1>3, <2>2, <2>3, <2>4
<1>5. /\ calls' \in Seq(CallType) /\ Chain(calls')
      /\ Pending' = {a} \cup ToSet(Rest)
      /\ Justified(a)
      /\ \A d \in {a} \cup ToSet(Rest): Agree(a, d) /\ Agree(d, a)
      /\ \A d \in Pending: d \in Pending' \/ d.do = "ForEach"
      /\ (\E d \in Pending': d.do = "LeaveClient") <=> (\E d \in Pending: d.do = "LeaveClient")
  BY <1>1, <1>3, <1>4, Continues
<1>6. /\ Rest \in Seq(CallType) /\ ToSet(Rest) \subseteq Pending /\ Pending \subseteq CallType
      /\ daemon # "failed" /\ Stack
      /\ \A d, e \in Pending: Agree(d, e)
      /\ \A d \in Pending: Justified(d) /\ (d.do = "ForEach" => Complete(d))
  BY <1>1, Innermost
<1>60. PICK list \in Seq(Clients): list = handler[h].clients
  BY ListFacts
<1>7. PICK n \in DOMAIN list:
        /\ x = list[n]
        /\ \A i \in 1..(n - 1): client[list[i]].exists => list[i] \in a.seen
        /\ a.next = IF n = Len(list) THEN None ELSE list[n + 1]
  BY <1>1, <1>3, <1>4, <1>60, OnwardsFacts
<1>8. /\ handler \in [Handlers -> PortType]
      /\ list \in Seq(Clients) /\ DOMAIN list = 1..Len(list) /\ Len(list) \in Nat
      /\ \A i, j \in DOMAIN list: list[i] = list[j] => i = j
  BY <1>60, ListFacts DEF CollectionInv, ObjectTypes
<1>9. Position(list, x) = n
  BY <1>7, <1>8, PositionFacts
<1> DEFINE shorter == RemoveAt(list, n)
<1>10. /\ shorter \in Seq(Clients) /\ Len(shorter) = Len(list) - 1 /\ DOMAIN shorter = 1..(Len(list) - 1)
       /\ \A i \in 1..(Len(list) - 1): shorter[i] = IF i < n THEN list[i] ELSE list[i + 1]
  BY <1>8, RemoveFacts
<1>11. handler' = [handler EXCEPT ![h].clients = shorter]
  BY <1>3, <1>8, <1>9, <1>60
<1> HIDE DEF shorter
<1>12. PICK port \in PortType: /\ port = [handler[h] EXCEPT !.clients = shorter]
                               /\ port.m_Registered = handler[h].m_Registered /\ port.open = handler[h].open
                               /\ port.clients = shorter
  <2>1. PICK old \in PortType: old = handler[h]
    BY <1>8
  <2>2. /\ [old EXCEPT !.clients = shorter] \in PortType
        /\ [old EXCEPT !.clients = shorter].m_Registered = old.m_Registered
        /\ [old EXCEPT !.clients = shorter].open = old.open
        /\ [old EXCEPT !.clients = shorter].clients = shorter
    BY <1>10 DEF PortType
  <2> QED
    BY <2>1, <2>2
<1>13. /\ handler' \in [Handlers -> PortType]
       /\ \A g \in Handlers: g # h => handler'[g] = handler[g]
       /\ handler'[h] = port
       /\ \A g \in Handlers: handler'[g].m_Registered = handler[g].m_Registered /\ handler'[g].open = handler[g].open
  BY <1>8, <1>11, <1>12
<1>140. handler'[h].clients = shorter
  BY <1>12, <1>13
<1>14. \A i \in DOMAIN shorter: \E j \in DOMAIN list: j # n /\ shorter[i] = list[j] /\ (i < n => j = i) /\ (i >= n => j = i + 1)
  <2> SUFFICES ASSUME NEW i \in DOMAIN shorter
               PROVE  \E j \in DOMAIN list: j # n /\ shorter[i] = list[j] /\ (i < n => j = i) /\ (i >= n => j = i + 1)
    OBVIOUS
  <2>1. CASE i < n
    <3>1. i \in DOMAIN list /\ i # n /\ ~(i >= n)
      BY <1>8, <1>10, <2>1
    <3> QED
      BY <1>10, <2>1, <3>1
  <2>2. CASE ~(i < n)
    <3>1. i + 1 \in DOMAIN list /\ i + 1 # n
      BY <1>8, <1>10, <2>2
    <3> QED
      BY <1>10, <2>2, <3>1
  <2> QED
    BY <2>1, <2>2
<1>15. \A j \in DOMAIN list: j # n => \E i \in DOMAIN shorter: shorter[i] = list[j]
  <2> SUFFICES ASSUME NEW j \in DOMAIN list, j # n
               PROVE  \E i \in DOMAIN shorter: shorter[i] = list[j]
    OBVIOUS
  <2>1. CASE j < n
    <3>1. j \in DOMAIN shorter
      BY <1>8, <1>10, <2>1
    <3> QED
      BY <1>10, <2>1, <3>1
  <2>2. CASE ~(j < n)
    <3>1. j - 1 \in DOMAIN shorter /\ ~(j - 1 < n) /\ (j - 1) + 1 = j
      BY <1>8, <1>10, <2>2
    <3>2. shorter[j - 1] = list[(j - 1) + 1]
      BY <1>10, <3>1
    <3> QED
      BY <3>1, <3>2
  <2> QED
    BY <2>1, <2>2
<1>16. /\ \A y, g: g \in Handlers => (Listed(g, y)' => Listed(g, y))
       /\ \A y, g: g \in Handlers /\ Listed(g, y) => Listed(g, y)' \/ y = x
       /\ \A y: Stopper(y)' = Stopper(y)
  <2>1. \A y, g: Listed(g, y)' <=> \E i \in DOMAIN handler'[g].clients: handler'[g].clients[i] = y
    BY DEF Listed
  <2>2. \A y, g: g \in Handlers /\ g # h => (Listed(g, y)' <=> Listed(g, y))
    <3>1. \A g \in Handlers: g # h => handler'[g].clients = handler[g].clients
      BY <1>13
    <3> QED
      BY <2>1, <3>1 DEF Listed
  <2>3. \A y: Listed(h, y)' => Listed(h, y)
    <3>1. \A y: Listed(h, y)' <=> \E i \in DOMAIN shorter: shorter[i] = y
      BY <1>140, <2>1
    <3>2. \A y: Listed(h, y) <=> \E i \in DOMAIN list: list[i] = y
      BY <1>60 DEF Listed
    <3> QED
      BY <1>14, <3>1, <3>2
  <2>4. \A y: Listed(h, y) => Listed(h, y)' \/ y = x
    <3>1. \A y: Listed(h, y)' <=> \E i \in DOMAIN shorter: shorter[i] = y
      BY <1>140, <2>1
    <3>2. \A y: Listed(h, y) <=> \E i \in DOMAIN list: list[i] = y
      BY <1>60 DEF Listed
    <3> QED
      BY <1>7, <1>15, <3>1, <3>2
  <2>5. \A y: Stopper(y)' = Stopper(y)
    BY DEF Stopper
  <2> QED
    BY <2>2, <2>3, <2>4, <2>5
<1>17. ObjectTypes'
  BY <1>13 DEF CollectionInv, ObjectTypes
<1>18. Lists' /\ Objects'
  <2>1. \A i, j \in DOMAIN shorter: shorter[i] = shorter[j] => i = j
    <3> SUFFICES ASSUME NEW i \in DOMAIN shorter, NEW j \in DOMAIN shorter, shorter[i] = shorter[j]
                 PROVE  i = j
      OBVIOUS
    <3>1. PICK k \in DOMAIN list: shorter[i] = list[k] /\ (i < n => k = i) /\ (i >= n => k = i + 1)
      BY <1>14
    <3>2. PICK l \in DOMAIN list: shorter[j] = list[l] /\ (j < n => l = j) /\ (j >= n => l = j + 1)
      BY <1>14
    <3>3. k = l
      BY <1>8, <3>1, <3>2
    <3> QED
      BY <1>8, <1>10, <3>1, <3>2, <3>3
  <2>2. \A g \in Handlers: \A i, j \in DOMAIN handler'[g].clients: handler'[g].clients[i] = handler'[g].clients[j] => i = j
    <3> SUFFICES ASSUME NEW g \in Handlers
                 PROVE  \A i, j \in DOMAIN handler'[g].clients: handler'[g].clients[i] = handler'[g].clients[j] => i = j
      OBVIOUS
    <3>1. CASE g = h
      BY <1>140, <2>1, <3>1
    <3>2. CASE g # h
      <4>1. \A i, j \in DOMAIN handler[g].clients: handler[g].clients[i] = handler[g].clients[j] => i = j
        BY DEF CollectionInv, Lists
      <4>2. handler'[g].clients = handler[g].clients
        BY <1>13, <3>2
      <4> QED
        BY <4>1, <4>2
    <3> QED
      BY <3>1, <3>2
  <2>3. Lists'
    BY <1>16, <2>2 DEF CollectionInv, Lists
  <2>4. Objects'
    BY <1>13, <1>16 DEF CollectionInv, Objects
  <2> QED
    BY <2>3, <2>4
<1>19. Complete(a)'
  <2>1. handler'[a.handler].clients = shorter
    BY <1>4, <1>140
  <2>2. \A i \in 1..(n - 1): i \in DOMAIN shorter /\ shorter[i] = list[i]
    <3>1. \A i \in 1..(n - 1): i \in 1..(Len(list) - 1) /\ i < n
      BY <1>8
    <3> QED
      BY <1>10, <3>1
  <2>3. CASE n = Len(list)
    <3>1. a.next = None /\ DOMAIN shorter = 1..(n - 1)
      BY <1>7, <1>10, <2>3
    <3> QED
      BY <1>7, <2>1, <2>2, <3>1 DEF Complete
  <2>4. CASE n # Len(list)
    <3>1. n \in DOMAIN shorter /\ ~(n < n)
      BY <1>8, <1>10, <2>4
    <3>2. a.next = shorter[n]
      BY <1>7, <1>10, <2>4, <3>1
    <3> QED
      BY <1>7, <2>1, <2>2, <3>1, <3>2 DEF Complete
  <2> QED
    BY <2>3, <2>4
<1>20. ASSUME NEW c \in CallType, Justified(c), c = a \/ c \in ToSet(Rest)
       PROVE  Justified(c)'
  <2>1. c.do \in {"Open", "Query", "Attach"} \/ Querying(c) \/ Stopping(c) => c.handler \in Handlers
    BY CallFacts DEF AboutPort, Querying
  <2>2. c.do = "Attach" => c.client # x
    BY <1>3, <1>20 DEF Justified
  <2> QED
    BY <1>13, <1>16, <1>20, <2>1, <2>2 DEF Justified
<1>21. ASSUME NEW c \in ToSet(Rest), c.do = "ForEach"
       PROVE  Complete(c)'
  <2>1. c \in CallType /\ Complete(c)
    BY <1>6, <1>21
  <2>2. c.handler \in Handlers
    BY <1>21, <2>1, CallFacts
  <2>3. c.handler # h
    BY <1>1, <1>3, <1>21, OnlyIteration
  <2>4. handler'[c.handler].clients = handler[c.handler].clients
    BY <1>13, <2>2, <2>3
  <2> QED
    BY <2>1, <2>4 DEF Complete
<1>22. ASSUME NEW c \in Pending', NEW d \in Pending'
       PROVE  Agree(c, d)'
  <2>1. Agree(c, d)
    BY <1>5, <1>6
  <2>2. \A g: Concerns(g, d)' <=> Concerns(g, d)
    BY <1>16 DEF Concerns
  <2>3. Sends(d)' <=> Sends(d)
    BY DEF Sends
  <2>4. d \in CallType
    BY <1>4, <1>5, <1>6
  <2>5. d.do = "Stop" => d.handler \in Handlers
    BY <2>4, CallFacts DEF AboutPort
  <2> QED
    BY <1>13, <2>1, <2>2, <2>3, <2>5 DEF Agree
<1>23. Together' /\ CallsJustified' /\ NobodyMissed'
  <2>1. \A c \in Pending': Justified(c)'
    BY <1>4, <1>5, <1>6, <1>20
  <2>2. \A c \in Pending': c.do = "ForEach" => Complete(c)'
    BY <1>5, <1>19, <1>21
  <2> QED
    BY <1>22, <2>1, <2>2 DEF Together, CallsJustified, NobodyMissed
<1>24. GuardLocked'
  BY <1>5, <1>6 DEF Stack, GuardLocked
<1>25. Used'
  <2>1. \A y: InUse(y, {"DestroyClient", "LeaveClient", "Attach"}) => InUse(y, {"DestroyClient", "LeaveClient", "Attach"})'
    BY <1>5 DEF InUse
  <2>2. \A y: InUse(y, {"DestroyClient", "Attach"}) => InUse(y, {"DestroyClient", "Attach"})'
    BY <1>5 DEF InUse
  <2> QED
    BY <1>6, <1>16, <2>1, <2>2 DEF Used, Stack
<1> QED
  BY <1>5, <1>6, <1>17, <1>18, <1>23, <1>24, <1>25 DEF CollectionInv, Stack

(* An outdated entry is passed.                                            *)
LEMMA PassOutdatedInv ==
  ASSUME CollectionInv, PassOutdated
  PROVE  CollectionInv'
<1>1. /\ MeetsOutdated
      /\ UNCHANGED <<client, m_SerialPortHandlerMap, m_HdlcdServerHandlerList, s_bCyclicCallGuard, daemon>>
  BY DEF PassOutdated, PassAndRemove, collections
<1>2. s_bCyclicCallGuard \in BOOLEAN
  BY DEF CollectionInv, ObjectTypes
<1>3. CASE s_bCyclicCallGuard
  <2>1. Call(<<[Onwards EXCEPT !.rebuild = @ \/ FALSE]>>) /\ handler' = handler
    BY <1>2, <1>3 DEF PassOutdated, PassAndRemove
  <2> QED
    BY <1>1, <1>3, <2>1, PassedInv
<1>4. CASE ~s_bCyclicCallGuard
  <2>1. /\ Call(<<[Onwards EXCEPT !.rebuild = @ \/ TRUE]>>)
        /\ handler' = [handler EXCEPT ![Top.handler].clients = RemoveAt(@, Position(@, Top.next))]
    BY <1>2, <1>4 DEF PassOutdated, PassAndRemove, Top
  <2> QED
    BY <1>1, <1>4, <2>1, RemovedInv
<1> QED
  BY <1>3, <1>4

-----------------------------------------------------------------------------
(* Steps in which clients lose what they have.                             *)

Losing ==
  /\ handler' = handler
  /\ \A x \in Clients:
       /\ Stopper(x)' \in {None, Stopper(x)}
       /\ client'[x].exists => client[x].exists
       /\ client'[x].m_Registered => client[x].m_Registered

(* What is said about lists, iterations and calls about ports stays true.  *)
LEMMA LosingFacts ==
  ASSUME CollectionInv, Losing
  PROVE  /\ Lists'
         /\ \A c \in CallType: c.do = "ForEach" /\ Complete(c) => Complete(c)'
         /\ \A c \in CallType: Justified(c) /\ c.do \notin {"ReleaseStopper", "Attach"} => Justified(c)'
         /\ \A c, d \in CallType: Agree(c, d) /\ ~Querying(c) => Agree(c, d)'
         /\ \A x, h: Listed(h, x)' <=> Listed(h, x)
<1>1. \A x, h: Listed(h, x)' <=> Listed(h, x)
  BY DEF Listed, Losing
<1>2. Lists'
  BY <1>1 DEF CollectionInv, Lists, Losing
<1>3. ASSUME NEW c \in CallType, c.do = "ForEach", Complete(c)
      PROVE  Complete(c)'
  <2>1. c.handler \in Handlers
    BY <1>3, CallFacts
  <2> DEFINE list == handler[c.handler].clients
  <2>2. /\ handler'[c.handler].clients = list
        /\ \A i \in DOMAIN list: list[i] \in Clients
        /\ \A n \in DOMAIN list: \A i \in 1..(n - 1): i \in DOMAIN list
    <3>1. list \in Seq(Clients) /\ DOMAIN list = 1..Len(list) /\ Len(list) \in Nat
      BY <2>1, ListFacts
    <3>2. handler'[c.handler].clients = list
      BY DEF Losing
    <3> HIDE DEF list
    <3> QED
      BY <3>1, <3>2
  <2>3. \A x \in Clients: client'[x].exists => client[x].exists
    BY DEF Losing
  <2>4. CASE /\ c.next = None
             /\ \A i \in DOMAIN list: client[list[i]].exists => list[i] \in c.seen
    BY <2>2, <2>3, <2>4 DEF Complete, Losing
  <2>5. CASE \E n \in DOMAIN list:
               /\ c.next = list[n]
               /\ \A i \in 1..(n - 1): client[list[i]].exists => list[i] \in c.seen
    BY <2>2, <2>3, <2>5 DEF Complete, Losing
  <2> QED
    BY <1>3, <2>4, <2>5 DEF Complete
<1>4. ASSUME NEW c \in CallType, Justified(c), c.do \notin {"ReleaseStopper", "Attach"}
      PROVE  Justified(c)'
  BY <1>4 DEF Justified, Losing
<1>5. ASSUME NEW c \in CallType, NEW d \in CallType, Agree(c, d), ~Querying(c)
      PROVE  Agree(c, d)'
  <2>1. \A h: Concerns(h, d) => Concerns(h, d)'
    <3>1. Ending(d) => d.client \in Clients
      BY CallFacts
    <3> QED
      BY <3>1 DEF Concerns, Losing
  <2> QED
    BY <1>5, <2>1 DEF Agree, Losing
<1> QED
  BY <1>1, <1>2, <1>3, <1>4, <1>5

(* The new calls N are put over those that were under the innermost one.   *)
LEMMA LosingStep ==
  ASSUME CollectionInv, calls # <<>>, daemon' = daemon, Losing, ObjectTypes', Objects',
         \A c \in ToSet(Rest): ~Querying(c),
         \A c \in ToSet(Rest): c.do \in {"ReleaseStopper", "Attach"} => Justified(c)',
         NEW N, Pending' = N \cup ToSet(Rest), N \subseteq CallType,
         calls' \in Seq(CallType), Chain(calls'),
         \A a \in N: Justified(a)' /\ a.do # "ForEach",
         \A a \in N: \A d \in N \cup ToSet(Rest): Agree(a, d)' /\ Agree(d, a)',
         GuardLocked', Used'
  PROVE  CollectionInv'
<1>1. /\ Pending = {Top} \cup ToSet(Rest) /\ Pending \subseteq CallType /\ daemon # "failed"
      /\ \A d, e \in Pending: Agree(d, e)
      /\ \A d \in Pending: Justified(d) /\ (d.do = "ForEach" => Complete(d))
  BY Innermost
<1>2. \A c \in ToSet(Rest): Justified(c)' /\ (c.do = "ForEach" => Complete(c)')
  BY <1>1, LosingFacts
<1>3. \A c, d \in ToSet(Rest): Agree(c, d)'
  BY <1>1, LosingFacts
<1>4. Together'
  BY <1>3 DEF Together
<1>5. CallsJustified' /\ NobodyMissed'
  BY <1>2 DEF CallsJustified, NobodyMissed
<1>6. Lists'
  BY LosingFacts
<1> QED
  BY <1>1, <1>4, <1>5, <1>6 DEF CollectionInv, Stack

(* No client is asked for a packet under what stops or destroys a client.  *)
LEMMA NotQuerying ==
  ASSUME CollectionInv, calls # <<>>, Destroying(Top) \/ Top.do = "StopClient"
  PROVE  \A d \in ToSet(Rest): ~Querying(d)
<1>1. ~Sends(Top)
  BY DEF Sends, Quiet, Querying, Destroying
<1> QED
  BY <1>1, Innermost DEF Agree

(* A client is unregistered, and destroyed unless something holds it.      *)
LEMMA StopClientInv ==
  ASSUME CollectionInv, StopClient
  PROVE  CollectionInv'
<1>1. /\ calls # <<>> /\ Top.do = "StopClient"
      /\ client' = [client EXCEPT ![Top.client].m_Registered = FALSE]
      /\ m_HdlcdServerHandlerList' = m_HdlcdServerHandlerList \ {Top.client}
      /\ Call(DestroyIfUnused(Top.client, Rest))
      /\ UNCHANGED <<handler, m_SerialPortHandlerMap, s_bCyclicCallGuard, daemon>>
  BY DEF StopClient, Running, Top, Rest
<1>2. /\ Top \in CallType /\ Rest \in Seq(CallType) /\ MayBegin(Top, Rest) /\ Chain(Rest)
      /\ Pending = {Top} \cup ToSet(Rest) /\ Pending \subseteq CallType /\ Stack
      /\ \A d, e \in Pending: Agree(d, e)
      /\ \A d \in Pending: Justified(d)
  BY <1>1, Innermost
<1>3. PICK x \in Clients: x = Top.client
  BY <1>1, <1>2, CallFacts DEF Ending
<1>4. PICK state \in ClientType: state = client[x]
  BY DEF CollectionInv, ObjectTypes
<1>5. /\ client' = [client EXCEPT ![x] = [state EXCEPT !.m_Registered = FALSE]]
      /\ [state EXCEPT !.m_Registered = FALSE] \in ClientType
      /\ [state EXCEPT !.m_Registered = FALSE].exists = state.exists
      /\ [state EXCEPT !.m_Registered = FALSE].m_Registered = FALSE
      /\ [state EXCEPT !.m_Registered = FALSE].m_SerialPortHandlerStopper = state.m_SerialPortHandlerStopper
      /\ [state EXCEPT !.m_Registered = FALSE].m_bLockedBySelf = state.m_bLockedBySelf
  BY <1>1, <1>3, <1>4 DEF ClientType
<1>6. /\ client' \in [Clients -> ClientType]
      /\ \A y \in Clients: /\ client'[y].exists = client[y].exists
                           /\ client'[y].m_Registered = (client[y].m_Registered /\ y # x)
                           /\ client'[y].m_SerialPortHandlerStopper = client[y].m_SerialPortHandlerStopper
                           /\ client'[y].m_bLockedBySelf = client[y].m_bLockedBySelf
  <2>1. client \in [Clients -> ClientType]
    BY DEF CollectionInv, ObjectTypes
  <2> DEFINE new == [state EXCEPT !.m_Registered = FALSE]
  <2>2. /\ client' = [client EXCEPT ![x] = new] /\ new \in ClientType
        /\ new.exists = state.exists /\ new.m_Registered = FALSE
        /\ new.m_SerialPortHandlerStopper = state.m_SerialPortHandlerStopper
        /\ new.m_bLockedBySelf = state.m_bLockedBySelf
    BY <1>5
  <2> HIDE DEF new
  <2>3. client' \in [Clients -> ClientType] /\ client'[x] = new
    BY <2>1, <2>2
  <2>4. \A y \in Clients: y # x => client'[y] = client[y] /\ client[y].m_Registered \in BOOLEAN
    BY <2>1, <2>2 DEF ClientType
  <2> QED
    BY <1>4, <2>2, <2>3, <2>4
<1>7. Losing /\ \A y \in Clients: Stopper(y)' = Stopper(y)
  BY <1>1, <1>6 DEF Losing, Stopper
<1>8. ObjectTypes'
  BY <1>1, <1>6 DEF CollectionInv, ObjectTypes
<1>9. Objects'
  BY <1>1, <1>6, <1>7 DEF CollectionInv, Objects
<1>10. \A d \in ToSet(Rest): ~Querying(d)
  BY <1>1, NotQuerying
<1>11. \A y, h: Listed(h, y)' <=> Listed(h, y)
  BY <1>7, LosingFacts
<1>12. ASSUME NEW c \in ToSet(Rest), c.do \in {"ReleaseStopper", "Attach"},
              c.do = "Attach" => c.client # x \/ ~handler[c.handler].m_Registered
       PROVE  Justified(c)'
  <2>1. c \in CallType /\ Justified(c)
    BY <1>2
  <2>2. c.client \in Clients
    BY <1>12, <2>1, CallFacts DEF Ending, Destroying
  <2> QED
    BY <1>1, <1>6, <1>7, <1>11, <1>12, <2>1, <2>2 DEF Justified, Querying, Stopping
<1>13. ASSUME ToSet(Rest) \subseteq Pending', InUse(x, {"DestroyClient", "LeaveClient", "Attach"})'
       PROVE  Used'
  <2>1. \A y: InUse(y, {"DestroyClient", "LeaveClient", "Attach"}) => InUse(y, {"DestroyClient", "LeaveClient", "Attach"})'
    BY <1>1, <1>2, <1>13 DEF InUse
  <2>2. \A y: InUse(y, {"DestroyClient", "Attach"}) => InUse(y, {"DestroyClient", "Attach"})'
    BY <1>1, <1>2, <1>13 DEF InUse
  <2> QED
    BY <1>2, <1>6, <1>7, <1>11, <1>13, <2>1, <2>2 DEF Used, Stack
<1>14. CASE Rest = <<>>
  <2>1. ToSet(Rest) = {}
    BY <1>14, NoCalls
  <2>2. x \notin HeldClients(Rest)
    BY <2>1, HeldFacts
  <2> DEFINE a == OnClient("DestroyClient", x)
  <2>3. a \in CallType /\ a.do = "DestroyClient" /\ a.client = x /\ Call(<<a>>)
    BY <1>1, <1>3, <2>2, NewCalls DEF OnClient, ForClient, DestroyIfUnused
  <2> HIDE DEF a
  <2>4. calls' = <<a>> \o Rest /\ calls' \in Seq(CallType) /\ Pending' = {a} \cup ToSet(Rest)
    BY <1>1, <2>3, ReplacedByOne
  <2>5. Chain(calls')
    <3>1. MayBegin(a, Rest)
      BY <1>14, <2>3 DEF MayBegin
    <3> QED
      BY <1>2, <2>1, <2>3, <2>4, <3>1, Pushed
  <2>6. Justified(a)' /\ a.do # "ForEach" /\ Agree(a, a)'
    BY <2>3 DEF Justified, Agree, Querying, Stopping, AboutPort
  <2>7. GuardLocked'
    BY <1>1, <1>2, <2>1, <2>3, <2>4 DEF Stack, GuardLocked
  <2>8. Used'
    <3>1. InUse(x, {"DestroyClient", "LeaveClient", "Attach"})'
      BY <2>3, <2>4 DEF InUse
    <3> QED
      BY <1>13, <2>4, <3>1
  <2> DEFINE N == {a}
  <2>9. /\ N \subseteq CallType /\ Pending' = N \cup ToSet(Rest)
        /\ \A b \in N: Justified(b)' /\ b.do # "ForEach"
        /\ \A b \in N: \A d \in N \cup ToSet(Rest): Agree(b, d)' /\ Agree(d, b)'
    BY <2>1, <2>3, <2>4, <2>6
  <2>10. \A c \in ToSet(Rest): c.do \in {"ReleaseStopper", "Attach"} => Justified(c)'
    BY <2>1
  <2> HIDE DEF N
  <2> QED
    BY <1>1, <1>7, <1>8, <1>9, <1>10, <2>4, <2>5, <2>7, <2>8, <2>9, <2>10, LosingStep
<1>15. CASE Rest # <<>>
  <2>1. MayCall(Top, Rest[1])
    BY <1>2, <1>15 DEF MayBegin
  <2>2. Rest[1].do = "LeaveClient" /\ Rest[1].client = x
    BY <1>1, <1>3, <2>1 DEF MayCall, Destroying, Quiet, Stopping
  <2>3. Rest[1] \in ToSet(Rest)
    <3>1. 1 \in DOMAIN Rest
      BY <1>2, <1>15, EmptySeq, LenProperties
    <3> QED
      BY <3>1 DEF ToSet
  <2>4. x \in HeldClients(Rest)
    BY <2>2, <2>3, HeldFacts
  <2>5. Call(<<>>)
    BY <1>1, <1>3, <2>4 DEF DestroyIfUnused
  <2> DEFINE N == {}
  <2>6. calls' \in Seq(CallType) /\ Chain(calls') /\ Pending' = N \cup ToSet(Rest)
    BY <1>1, <2>5, Returned
  <2>7. PICK e \in ToSet(Rest): Stopping(e)
    BY <1>1, <1>10, <2>2, <2>3, Under
  <2>8. ~handler[e.handler].m_Registered
    BY <1>2, <2>7 DEF Justified
  <2>9. ASSUME NEW c \in ToSet(Rest), c.do = "Attach"
        PROVE  ~handler[c.handler].m_Registered
    <3>1. Concerns(e.handler, c)
      BY <1>2, <2>7 DEF Agree, AboutPort
    <3>2. c.handler = e.handler
      BY <2>9, <3>1 DEF Concerns, Ending, Destroying
    <3> QED
      BY <2>8, <3>2
  <2>10. \A c \in ToSet(Rest): c.do \in {"ReleaseStopper", "Attach"} => Justified(c)'
    BY <1>12, <2>9
  <2>11. GuardLocked'
    BY <1>1, <1>2, <2>6 DEF Stack, GuardLocked
  <2>12. Used'
    <3>1. InUse(x, {"DestroyClient", "LeaveClient", "Attach"})'
      BY <2>2, <2>3, <2>6 DEF InUse
    <3> QED
      BY <1>13, <2>6, <3>1
  <2>13. /\ N \subseteq CallType
         /\ \A b \in N: Justified(b)' /\ b.do # "ForEach"
         /\ \A b \in N: \A d \in N \cup ToSet(Rest): Agree(b, d)' /\ Agree(d, b)'
    OBVIOUS
  <2> HIDE DEF N
  <2> QED
    BY <1>1, <1>7, <1>8, <1>9, <1>10, <2>6, <2>10, <2>11, <2>12, <2>13, LosingStep
<1> QED
  BY <1>14, <1>15

(* A client is destroyed, and its port released, under an iteration that   *)
(* stops clients of that port, or under nothing.                           *)
LEMMA UnderDestroying ==
  ASSUME CollectionInv, calls # <<>>, Destroying(Top)
  PROVE  /\ Rest = <<>> \/ (Rest # <<>> /\ Stopping(Rest[1]))
         /\ \A d \in ToSet(Rest): ~Querying(d)
         /\ \A d \in ToSet(Rest): AboutPort(d) => Stopper(Top.client) \in {None, d.handler}
         /\ \A d \in ToSet(Rest): d.do # "DestroyClient"
         /\ Stopper(Top.client) # None => \A d \in ToSet(Rest): Concerns(Stopper(Top.client), d)
<1>1. /\ Top \in CallType /\ Rest \in Seq(CallType) /\ MayBegin(Top, Rest)
      /\ Pending = {Top} \cup ToSet(Rest)
      /\ \A d, e \in Pending: Agree(d, e)
  BY Innermost
<1>2. Rest = <<>> \/ (Rest # <<>> /\ Stopping(Rest[1]))
  BY <1>1 DEF MayBegin, MayCall, Destroying, Quiet, Stopping
<1>3. \A h: Concerns(h, Top) => Stopper(Top.client) \in {None, h}
  BY DEF Concerns, AboutPort, Stopping, Destroying
<1>4. \A d \in ToSet(Rest): AboutPort(d) => Stopper(Top.client) \in {None, d.handler}
  BY <1>1, <1>3 DEF Agree
<1>5. \A d \in ToSet(Rest): d.do # "DestroyClient"
  BY Under DEF Destroying
<1>6. ASSUME Stopper(Top.client) # None, NEW d \in ToSet(Rest)
      PROVE  Concerns(Stopper(Top.client), d)
  <2>1. Rest # <<>>
    BY <1>6, NoCalls
  <2>2. Stopping(Rest[1]) /\ Rest[1] \in ToSet(Rest)
    <3>1. 1 \in DOMAIN Rest
      BY <1>1, <2>1, EmptySeq, LenProperties
    <3> QED
      BY <1>2, <2>1, <3>1 DEF ToSet
  <2>3. Stopper(Top.client) = Rest[1].handler
    BY <1>4, <1>6, <2>2 DEF AboutPort
  <2>4. Concerns(Rest[1].handler, d)
    BY <1>1, <2>2 DEF Agree, AboutPort
  <2> QED
    BY <2>3, <2>4
<1> QED
  BY <1>2, <1>4, <1>5, <1>6, NotQuerying

(* A client is destroyed: it gives back its lock, and releases its port.   *)
LEMMA DestroyClientInv ==
  ASSUME CollectionInv, DestroyClient
  PROVE  CollectionInv'
<1>1. /\ calls # <<>> /\ Top.do = "DestroyClient"
      /\ client' = [client EXCEPT ![Top.client] = [NoClient EXCEPT !.m_SerialPortHandlerStopper = Stopper(Top.client)]]
      /\ Call((IF client[Top.client].m_bLockedBySelf THEN ForHandler("Resume", Stopper(Top.client)) ELSE <<>>)
              \o (IF Stopper(Top.client) # None THEN ForClient("ReleaseStopper", Top.client) ELSE <<>>))
      /\ UNCHANGED <<handler, m_SerialPortHandlerMap, m_HdlcdServerHandlerList, s_bCyclicCallGuard, daemon>>
  BY DEF DestroyClient, Running, Top, Rest, Stopper, collections
<1>2. /\ Top \in CallType /\ Rest \in Seq(CallType) /\ MayBegin(Top, Rest) /\ Chain(Rest)
      /\ Pending = {Top} \cup ToSet(Rest) /\ Pending \subseteq CallType /\ Stack
      /\ \A d \in ToSet(Rest): Exclude(Top, d) /\ Exclude(d, Top)
      /\ \A d \in Pending: Justified(d)
  BY <1>1, Innermost
<1>3. PICK x \in Clients: x = Top.client
  BY <1>1, <1>2, CallFacts DEF Ending, Destroying
<1>4. PICK h \in Handlers \cup {None}: h = Stopper(x)
  BY DEF CollectionInv, ObjectTypes, ClientType, Stopper
<1>5. PICK new \in ClientType:
        /\ client' = [client EXCEPT ![x] = new]
        /\ ~new.exists /\ ~new.m_Registered /\ ~new.m_bLockedBySelf
        /\ new.m_SerialPortHandlerStopper = h
  <2>1. /\ [NoClient EXCEPT !.m_SerialPortHandlerStopper = h] \in ClientType
        /\ ~[NoClient EXCEPT !.m_SerialPortHandlerStopper = h].exists
        /\ ~[NoClient EXCEPT !.m_SerialPortHandlerStopper = h].m_Registered
        /\ ~[NoClient EXCEPT !.m_SerialPortHandlerStopper = h].m_bLockedBySelf
        /\ [NoClient EXCEPT !.m_SerialPortHandlerStopper = h].m_SerialPortHandlerStopper = h
    BY DEF NoClient, ClientType, BufferTypes
  <2> QED
    BY <1>1, <1>3, <1>4, <2>1
<1>6. /\ client' \in [Clients -> ClientType]
      /\ \A y \in Clients: y # x => client'[y] = client[y]
      /\ client'[x] = new
  <2>1. client \in [Clients -> ClientType]
    BY DEF CollectionInv, ObjectTypes
  <2> QED
    BY <1>5, <2>1
<1>7. Losing /\ \A y \in Clients: Stopper(y)' = Stopper(y)
  <2>1. \A y \in Clients: Stopper(y)' = Stopper(y)
    BY <1>4, <1>5, <1>6 DEF Stopper
  <2> QED
    BY <1>1, <1>5, <1>6, <2>1 DEF Losing
<1>8. ObjectTypes'
  BY <1>1, <1>6 DEF CollectionInv, ObjectTypes
<1>9. Objects'
  BY <1>1, <1>5, <1>6, <1>7 DEF CollectionInv, Objects
<1>10. /\ Rest = <<>> \/ (Rest # <<>> /\ Stopping(Rest[1]))
       /\ \A d \in ToSet(Rest): ~Querying(d)
       /\ \A d \in ToSet(Rest): AboutPort(d) => h \in {None, d.handler}
       /\ \A d \in ToSet(Rest): d.do # "DestroyClient"
       /\ h # None => \A d \in ToSet(Rest): Concerns(h, d)
  BY <1>1, <1>3, <1>4, UnderDestroying DEF Destroying
<1>11. \A y, g: Listed(g, y)' <=> Listed(g, y)
  BY <1>7, LosingFacts
<1>12. ASSUME NEW d \in ToSet(Rest), Ending(d) \/ d.do = "Attach", ~Destroying(d) => d.do = "Attach"
       PROVE  d.client # x
  <2>1. d.do = "Attach" => d.client # x
    BY <1>1, <1>2, <1>3 DEF Exclude, Destroying
  <2>2. Destroying(d) => d.client # x
    BY <1>1, <1>2, <1>3 DEF Exclude, Destroying, Ending
  <2> QED
    BY <1>12, <2>1, <2>2
<1>13. ASSUME NEW c \in ToSet(Rest), c.do \in {"ReleaseStopper", "Attach"}
       PROVE  Justified(c)'
  <2>1. c \in CallType /\ Justified(c)
    BY <1>2
  <2>2. c.client \in Clients /\ c.client # x
    BY <1>12, <1>13, <2>1, CallFacts DEF Ending, Destroying
  <2> QED
    BY <1>1, <1>6, <1>7, <1>11, <1>13, <2>1, <2>2 DEF Justified, Querying, Stopping
<1>14. ASSUME ToSet(Rest) \subseteq Pending'
       PROVE  Used'
  <2>1. \A y: y # x /\ InUse(y, {"DestroyClient", "LeaveClient", "Attach"}) => InUse(y, {"DestroyClient", "LeaveClient", "Attach"})'
    BY <1>1, <1>2, <1>3, <1>14 DEF InUse
  <2>2. \A y: y # x /\ InUse(y, {"DestroyClient", "Attach"}) => InUse(y, {"DestroyClient", "Attach"})'
    BY <1>1, <1>2, <1>3, <1>14 DEF InUse
  <2> QED
    BY <1>2, <1>5, <1>6, <1>7, <1>11, <2>1, <2>2 DEF Used, Stack
<1>15. ASSUME Pending' \subseteq {d \in CallType: d.do # "LeaveClient"} \cup ToSet(Rest), ToSet(Rest) \subseteq Pending'
       PROVE  GuardLocked'
  <2>1. (\E d \in Pending': d.do = "LeaveClient") <=> (\E d \in Pending: d.do = "LeaveClient")
    BY <1>1, <1>2, <1>15
  <2> QED
    BY <1>1, <1>2, <2>1 DEF Stack, GuardLocked
<1>16. CASE h = None
  <2>1. ~client[x].m_bLockedBySelf
    BY <1>4, <1>16 DEF CollectionInv, Objects
  <2>2. Call(<<>>)
    <3>1. Call(<<>> \o <<>>)
      BY <1>1, <1>3, <1>4, <1>16, <2>1
    <3>2. <<>> \o <<>> = <<>>
      OBVIOUS
    <3> QED
      BY <3>1, <3>2
  <2> DEFINE N == {}
  <2>3. calls' \in Seq(CallType) /\ Chain(calls') /\ Pending' = N \cup ToSet(Rest)
    BY <1>1, <2>2, Returned
  <2>4. GuardLocked' /\ Used'
    BY <1>14, <1>15, <2>3
  <2>5. /\ N \subseteq CallType
        /\ \A b \in N: Justified(b)' /\ b.do # "ForEach"
        /\ \A b \in N: \A d \in N \cup ToSet(Rest): Agree(b, d)' /\ Agree(d, b)'
    OBVIOUS
  <2> HIDE DEF N
  <2> QED
    BY <1>1, <1>7, <1>8, <1>9, <1>10, <1>13, <2>3, <2>4, <2>5, LosingStep
<1>17. CASE h # None
  <2>1. h \in Handlers
    BY <1>17
  <2> DEFINE r == OnClient("ReleaseStopper", x)
             w == OnPort("Resume", h)
             s1 == <<r>> \o Rest
             s2 == <<w>> \o s1
  <2>2. /\ r \in CallType /\ r.do = "ReleaseStopper" /\ r.client = x
        /\ w \in CallType /\ w.do = "Resume" /\ w.handler = h
    BY <2>1, NewCalls DEF OnClient, OnPort
  <2>3. /\ ForHandler("Resume", Stopper(Top.client)) = <<w>>
        /\ ForClient("ReleaseStopper", Top.client) = <<r>>
    BY <1>3, <1>4 DEF ForHandler, ForClient, OnClient, OnPort
  <2> HIDE DEF r, w
  <2>4. calls' = s1 \/ calls' = s2
    <3>1. CASE client[x].m_bLockedBySelf
      <4>1. calls' = (<<w>> \o <<r>>) \o Rest
        BY <1>1, <1>3, <1>4, <1>17, <2>3, <3>1 DEF Call, Rest
      <4> QED
        BY <1>2, <2>2, <4>1, InTurn
    <3>2. CASE ~client[x].m_bLockedBySelf
      <4>1. calls' = (<<>> \o <<r>>) \o Rest
        BY <1>1, <1>3, <1>4, <1>17, <2>3, <3>2 DEF Call, Rest
      <4>2. <<r>> \in Seq(CallType)
        BY <2>2
      <4>3. <<>> \o <<r>> = <<r>>
        BY <4>2, ConcatEmptySeq
      <4> QED
        BY <4>1, <4>3
    <3> QED
      BY <3>1, <3>2
  <2>5. /\ ~Stopping(r) /\ Destroying(r) /\ Ending(r) /\ ~AboutPort(r) /\ ~Querying(r)
        /\ ~Stopping(w) /\ ~Destroying(w) /\ ~Ending(w) /\ AboutPort(w) /\ ~Querying(w)
    BY <2>2 DEF Stopping, Destroying, Ending, AboutPort, Querying
  <2>6. s1 \in Seq(CallType) /\ Chain(s1) /\ ToSet(s1) = {r} \cup ToSet(Rest) /\ s1 # <<>> /\ s1[1] = r
    <3>1. MayBegin(r, Rest)
      BY <1>10, <2>2, <2>5 DEF MayBegin, MayCall
    <3>2. ASSUME NEW d \in ToSet(Rest)
          PROVE  Exclude(r, d) /\ Exclude(d, r)
      <4>1. Exclude(Top, d) /\ Exclude(d, Top) /\ Destroying(Top) /\ Ending(Top)
        BY <1>1, <1>2 DEF Destroying, Ending
      <4> QED
        BY <1>3, <2>2, <2>5, <4>1 DEF Exclude
    <3> QED
      BY <1>2, <2>2, <3>1, <3>2, Pushed
  <2> HIDE DEF s1
  <2>7. s2 \in Seq(CallType) /\ Chain(s2) /\ ToSet(s2) = {w} \cup ToSet(s1)
    <3>1. MayBegin(w, s1)
      BY <2>2, <2>6 DEF MayBegin, MayCall
    <3>2. ASSUME NEW d \in ToSet(s1)
          PROVE  Exclude(w, d) /\ Exclude(d, w)
      BY <2>2, <2>5 DEF Exclude
    <3> QED
      BY <2>2, <2>6, <3>1, <3>2, Pushed
  <2> HIDE DEF s2
  <2>8. calls' \in Seq(CallType) /\ Chain(calls')
    BY <2>4, <2>6, <2>7
  <2> DEFINE N == {c \in {r, w}: c = r \/ calls' = s2}
  <2>9. Pending' = N \cup ToSet(Rest) /\ N \subseteq {r, w}
    <3>1. CASE calls' = s2
      BY <2>6, <2>7, <3>1 DEF Pending
    <3>2. CASE calls' # s2
      <4>1. Pending' = {r} \cup ToSet(Rest)
        BY <2>4, <2>6, <3>2 DEF Pending
      <4>2. N = {r}
        BY <3>2
      <4> QED
        BY <4>1, <4>2
    <3> QED
      BY <3>1, <3>2
  <2> HIDE DEF N
  <2>10. Justified(r)' /\ r.do # "ForEach"
    BY <1>5, <1>6, <1>17, <2>2, <2>5 DEF Justified, Stopper
  <2>11. Justified(w)' /\ w.do # "ForEach"
    BY <2>2, <2>5 DEF Justified
  <2>12. \A d \in {r, w} \cup ToSet(Rest): Agree(r, d)'
    BY <2>2, <2>5 DEF Agree
  <2>13. Stopper(x)' = h
    BY <1>4, <1>7
  <2>14. \A d \in {w} \cup ToSet(Rest): Agree(d, r)'
    BY <1>10, <2>2, <2>5, <2>13 DEF Agree, Concerns
  <2>15. \A d \in {r, w} \cup ToSet(Rest): Agree(w, d)'
    <3>1. Concerns(h, r)'
      BY <2>2, <2>5, <2>13 DEF Concerns
    <3>2. Concerns(h, w)'
      BY <2>2, <2>5 DEF Concerns
    <3>3. ASSUME NEW d \in ToSet(Rest)
          PROVE  Concerns(h, d)'
      <4>1. Concerns(h, d) /\ d \in CallType
        BY <1>2, <1>10, <1>17
      <4>2. Ending(d) => d.client \in Clients
        BY <4>1, CallFacts
      <4> QED
        BY <1>7, <4>1, <4>2 DEF Concerns
    <3> QED
      BY <2>2, <2>5, <3>1, <3>2, <3>3 DEF Agree
  <2>16. \A d \in {r} \cup ToSet(Rest): Agree(d, w)'
    BY <1>10, <1>17, <2>2, <2>5 DEF Agree, Concerns
  <2>17. /\ N \subseteq CallType
         /\ \A b \in N: Justified(b)' /\ b.do # "ForEach"
    BY <2>2, <2>9, <2>10, <2>11
  <2>18. \A b \in N: \A d \in N \cup ToSet(Rest): Agree(b, d)' /\ Agree(d, b)'
    BY <2>9, <2>12, <2>14, <2>15, <2>16
  <2>19. GuardLocked' /\ Used'
    <3>1. N \subseteq {d \in CallType: d.do # "LeaveClient"}
      BY <2>2, <2>9
    <3> QED
      BY <1>14, <1>15, <2>9, <3>1
  <2> QED
    BY <1>1, <1>7, <1>8, <1>9, <1>10, <1>13, <2>8, <2>9, <2>17, <2>18, <2>19, LosingStep
<1> QED
  BY <1>16, <1>17

(* A port is released, and stopped with its last client.                   *)
LEMMA ReleaseStopperInv ==
  ASSUME CollectionInv, ReleaseStopper
  PROVE  CollectionInv'
<1>1. /\ calls # <<>> /\ Top.do = "ReleaseStopper"
      /\ client' = [client EXCEPT ![Top.client].m_SerialPortHandlerStopper = None]
      /\ m_SerialPortHandlerMap' \in {Deregistered(Stopper(Top.client)), m_SerialPortHandlerMap}
      /\ Call(<<>>) \/ Call(ForHandler("Stop", Stopper(Top.client)))
      /\ UNCHANGED <<handler, m_HdlcdServerHandlerList, s_bCyclicCallGuard, daemon>>
  BY DEF ReleaseStopper, Running, Top, Stopper
<1>2. /\ Top \in CallType /\ Rest \in Seq(CallType) /\ MayBegin(Top, Rest) /\ Chain(Rest)
      /\ Pending = {Top} \cup ToSet(Rest) /\ Pending \subseteq CallType /\ Stack
      /\ \A d \in ToSet(Rest): Exclude(Top, d) /\ Exclude(d, Top)
      /\ \A d \in Pending: Justified(d)
  BY <1>1, Innermost
<1>3. PICK x \in Clients: x = Top.client
  BY <1>1, <1>2, CallFacts DEF Ending, Destroying
<1>4. PICK h \in Handlers: h = Stopper(x) /\ ~client[x].exists
  <2>1. Stopper(x) \in Handlers \cup {None}
    BY DEF CollectionInv, ObjectTypes, ClientType, Stopper
  <2>2. Stopper(x) # None /\ ~client[x].exists
    BY <1>1, <1>2, <1>3 DEF Justified
  <2> QED
    BY <2>1, <2>2
<1>5. PICK state \in ClientType: state = client[x]
  BY DEF CollectionInv, ObjectTypes
<1>6. PICK new \in ClientType:
        /\ client' = [client EXCEPT ![x] = new]
        /\ new.exists = state.exists /\ new.m_Registered = state.m_Registered
        /\ new.m_bLockedBySelf = state.m_bLockedBySelf
        /\ new.m_SerialPortHandlerStopper = None
  <2>1. /\ [state EXCEPT !.m_SerialPortHandlerStopper = None] \in ClientType
        /\ [state EXCEPT !.m_SerialPortHandlerStopper = None].exists = state.exists
        /\ [state EXCEPT !.m_SerialPortHandlerStopper = None].m_Registered = state.m_Registered
        /\ [state EXCEPT !.m_SerialPortHandlerStopper = None].m_bLockedBySelf = state.m_bLockedBySelf
        /\ [state EXCEPT !.m_SerialPortHandlerStopper = None].m_SerialPortHandlerStopper = None
    BY DEF ClientType
  <2>2. client' = [client EXCEPT ![x] = [state EXCEPT !.m_SerialPortHandlerStopper = None]]
    BY <1>1, <1>3, <1>5
  <2> QED
    BY <2>1, <2>2
<1>7. /\ client' \in [Clients -> ClientType]
      /\ \A y \in Clients: y # x => client'[y] = client[y]
      /\ client'[x] = new
  <2>1. client \in [Clients -> ClientType]
    BY DEF CollectionInv, ObjectTypes
  <2> QED
    BY <1>6, <2>1
<1>8. Losing /\ (\A y \in Clients: y # x => Stopper(y)' = Stopper(y)) /\ ~client'[x].exists
  <2>1. \A y \in Clients: y # x => Stopper(y)' = Stopper(y)
    BY <1>7 DEF Stopper
  <2>2. Stopper(x)' = None /\ ~client'[x].exists
    BY <1>4, <1>5, <1>6, <1>7 DEF Stopper
  <2>3. client'[x].m_Registered => client[x].m_Registered
    BY <1>5, <1>6, <1>7
  <2> QED
    BY <1>1, <1>7, <2>1, <2>2, <2>3 DEF Losing
<1>9. ObjectTypes'
  <2>1. m_SerialPortHandlerMap' \in [Names -> Handlers \cup {None}]
    BY <1>1 DEF CollectionInv, ObjectTypes, Deregistered
  <2> QED
    BY <1>1, <1>7, <2>1 DEF CollectionInv, ObjectTypes
<1>10. Objects'
  <2>1. ~client[x].m_bLockedBySelf /\ ~client[x].m_Registered
    BY <1>4 DEF CollectionInv, Objects
  <2>2. ~client'[x].m_bLockedBySelf /\ ~client'[x].m_Registered
    BY <1>5, <1>6, <1>7, <2>1
  <2> QED
    BY <1>1, <1>7, <1>8, <2>2 DEF CollectionInv, Objects
<1>11. /\ Rest = <<>> \/ (Rest # <<>> /\ Stopping(Rest[1]))
       /\ \A d \in ToSet(Rest): ~Querying(d)
       /\ \A d \in ToSet(Rest): AboutPort(d) => h = d.handler
       /\ \A d \in ToSet(Rest): d.do # "DestroyClient"
       /\ \A d \in ToSet(Rest): Concerns(h, d)
  <2>1. Destroying(Top) /\ h = Stopper(Top.client) /\ h # None
    BY <1>1, <1>3, <1>4, ConstantsAssumption DEF Destroying
  <2> QED
    BY <1>1, <2>1, UnderDestroying
<1>12. \A y, g: Listed(g, y)' <=> Listed(g, y)
  BY <1>8, LosingFacts
<1>13. ASSUME NEW c \in ToSet(Rest), c.do \in {"ReleaseStopper", "Attach"}
       PROVE  Justified(c)'
  <2>1. c \in CallType /\ Justified(c)
    BY <1>2
  <2>2. c.client \in Clients
    BY <1>13, <2>1, CallFacts DEF Ending, Destroying
  <2>3. c.client # x
    <3>1. Destroying(Top) /\ Exclude(Top, c)
      BY <1>1, <1>2 DEF Destroying
    <3>2. Ending(c) \/ c.do = "Attach"
      BY <1>13 DEF Ending, Destroying
    <3> QED
      BY <1>3, <3>1, <3>2 DEF Exclude
  <2> QED
    BY <1>1, <1>7, <1>8, <1>12, <1>13, <2>1, <2>2, <2>3 DEF Justified, Querying, Stopping
<1>14. ASSUME ToSet(Rest) \subseteq Pending'
       PROVE  Used'
  <2>1. \A y: InUse(y, {"DestroyClient", "LeaveClient", "Attach"}) => InUse(y, {"DestroyClient", "LeaveClient", "Attach"})'
    BY <1>1, <1>2, <1>14 DEF InUse
  <2>2. \A y: InUse(y, {"DestroyClient", "Attach"}) => InUse(y, {"DestroyClient", "Attach"})'
    BY <1>1, <1>2, <1>14 DEF InUse
  <2> QED
    BY <1>2, <1>7, <1>8, <1>12, <2>1, <2>2 DEF Used, Stack
<1>15. CASE Call(<<>>)
  <2> DEFINE N == {}
  <2>1. calls' \in Seq(CallType) /\ Chain(calls') /\ Pending' = N \cup ToSet(Rest)
    BY <1>1, <1>15, Returned
  <2>2. GuardLocked' /\ Used'
    BY <1>1, <1>2, <1>14, <2>1 DEF Stack, GuardLocked
  <2>3. /\ N \subseteq CallType
        /\ \A b \in N: Justified(b)' /\ b.do # "ForEach"
        /\ \A b \in N: \A d \in N \cup ToSet(Rest): Agree(b, d)' /\ Agree(d, b)'
    OBVIOUS
  <2> HIDE DEF N
  <2> QED
    BY <1>1, <1>8, <1>9, <1>10, <1>11, <1>13, <2>1, <2>2, <2>3, LosingStep
<1>16. CASE Call(ForHandler("Stop", h))
  <2> DEFINE a == OnPort("Stop", h)
  <2>1. a \in CallType /\ a.do = "Stop" /\ a.handler = h /\ Call(<<a>>)
    BY <1>16, NewCalls DEF OnPort, ForHandler
  <2> HIDE DEF a
  <2>2. calls' = <<a>> \o Rest /\ calls' \in Seq(CallType) /\ Pending' = {a} \cup ToSet(Rest)
    BY <1>1, <2>1, ReplacedByOne
  <2>3. ~Stopping(a) /\ ~Destroying(a) /\ ~Ending(a) /\ AboutPort(a) /\ ~Querying(a)
    BY <2>1 DEF Stopping, Destroying, Ending, AboutPort, Querying
  <2>4. Chain(calls')
    <3>1. MayBegin(a, Rest)
      BY <1>11, <2>1 DEF MayBegin, MayCall
    <3>2. \A d \in ToSet(Rest): Exclude(a, d) /\ Exclude(d, a)
      BY <2>1, <2>3 DEF Exclude
    <3> QED
      BY <1>2, <2>1, <2>2, <3>1, <3>2, Pushed
  <2>5. Justified(a)' /\ a.do # "ForEach"
    BY <2>1, <2>3 DEF Justified
  <2>6. \A d \in {a} \cup ToSet(Rest): Agree(a, d)'
    <3>1. Concerns(h, a)'
      BY <2>1, <2>3 DEF Concerns
    <3>2. ASSUME NEW d \in ToSet(Rest)
          PROVE  Concerns(h, d)'
      <4>1. Concerns(h, d) /\ d \in CallType
        BY <1>2, <1>11
      <4>2. Ending(d) => d.client \in Clients
        BY <4>1, CallFacts
      <4> QED
        BY <1>8, <4>1, <4>2 DEF Concerns, Losing
    <3> QED
      BY <2>1, <2>3, <3>1, <3>2 DEF Agree
  <2>7. \A d \in ToSet(Rest): Agree(d, a)'
    BY <1>11, <2>1, <2>3 DEF Agree, Concerns
  <2>8. GuardLocked' /\ Used'
    BY <1>1, <1>2, <1>14, <2>1, <2>2 DEF Stack, GuardLocked
  <2> DEFINE N == {a}
  <2>9. /\ N \subseteq CallType /\ Pending' = N \cup ToSet(Rest)
        /\ \A b \in N: Justified(b)' /\ b.do # "ForEach"
        /\ \A b \in N: \A d \in N \cup ToSet(Rest): Agree(b, d)' /\ Agree(d, b)'
    BY <2>1, <2>2, <2>5, <2>6, <2>7
  <2> HIDE DEF N
  <2> QED
    BY <1>1, <1>8, <1>9, <1>10, <1>11, <1>13, <2>2, <2>4, <2>8, <2>9, LosingStep
<1> QED
  BY <1>1, <1>3, <1>4, <1>15, <1>16

(* A client is attached to its port, or destroyed if that has gone.        *)
LEMMA AttachInv ==
  ASSUME CollectionInv, Attach
  PROVE  CollectionInv'
<1>1. calls # <<>> /\ Top.do = "Attach"
  BY DEF Attach, Running, Top
<1>2. /\ Top \in CallType /\ Pending = {Top} \cup ToSet(Rest) /\ Stack /\ Justified(Top) /\ daemon # "failed"
  BY <1>1, Innermost
<1>3. PICK x \in Clients, h \in Handlers: x = Top.client /\ h = Top.handler
  BY <1>1, <1>2, CallFacts
<1>4. Rest = <<>> /\ ToSet(Rest) = {} /\ Rest \in Seq(CallType) /\ Chain(Rest) /\ Pending = {Top}
  BY <1>1, <1>2, Under, NoCalls DEF AtBottom
<1>5. /\ client[x].exists /\ Stopper(x) = None
      /\ handler[h].m_Registered => client[x].m_Registered /\ Listed(h, x)
  BY <1>1, <1>2, <1>3 DEF Justified
<1>6. ~s_bCyclicCallGuard
  BY <1>1, <1>2, <1>4 DEF Stack, GuardLocked, CollectionInv, ObjectTypes
<1>7. /\ \A y: y # x => ~InUse(y, {"DestroyClient", "LeaveClient", "Attach"})
      /\ \A y: y # x => ~InUse(y, {"DestroyClient", "Attach"})
  BY <1>3, <1>4 DEF InUse
<1>8. CASE handler[h].m_Registered
  <2>1. /\ client' = [client EXCEPT ![x].m_SerialPortHandlerStopper = h]
        /\ Call(ForHandler("Propagate", h))
        /\ UNCHANGED <<handler, m_SerialPortHandlerMap, m_HdlcdServerHandlerList, s_bCyclicCallGuard, daemon>>
    BY <1>3, <1>8 DEF Attach, collections, Top
  <2>2. PICK state \in ClientType: state = client[x]
    BY DEF CollectionInv, ObjectTypes
  <2>3. PICK new \in ClientType:
          /\ client' = [client EXCEPT ![x] = new]
          /\ new.exists = state.exists /\ new.m_Registered = state.m_Registered
          /\ new.m_SerialPortHandlerStopper = h
    <3>1. /\ [state EXCEPT !.m_SerialPortHandlerStopper = h] \in ClientType
          /\ [state EXCEPT !.m_SerialPortHandlerStopper = h].exists = state.exists
          /\ [state EXCEPT !.m_SerialPortHandlerStopper = h].m_Registered = state.m_Registered
          /\ [state EXCEPT !.m_SerialPortHandlerStopper = h].m_SerialPortHandlerStopper = h
      BY DEF ClientType
    <3>2. client' = [client EXCEPT ![x] = [state EXCEPT !.m_SerialPortHandlerStopper = h]]
      BY <2>1, <2>2
    <3> QED
      BY <3>1, <3>2
  <2>4. /\ client' \in [Clients -> ClientType]
        /\ \A y \in Clients: y # x => client'[y] = client[y]
        /\ client'[x] = new
    <3>1. client \in [Clients -> ClientType]
      BY DEF CollectionInv, ObjectTypes
    <3> QED
      BY <2>3, <3>1
  <2>5. /\ \A y \in Clients: y # x => Stopper(y)' = Stopper(y)
        /\ Stopper(x)' = h /\ h # None
        /\ client'[x].exists /\ client'[x].m_Registered
    BY <1>5, <1>8, <2>2, <2>3, <2>4, ConstantsAssumption DEF Stopper
  <2>6. \A y, g: Listed(g, y)' <=> Listed(g, y)
    BY <2>1 DEF Listed
  <2>7. \A g \in Handlers: Listed(g, x) => g = h
    BY <1>5, <1>8 DEF CollectionInv, Lists
  <2>8. ObjectTypes'
    BY <2>1, <2>4 DEF CollectionInv, ObjectTypes
  <2>9. Lists'
    BY <2>1, <2>5, <2>6, <2>7 DEF CollectionInv, Lists
  <2>10. Objects'
    BY <2>1, <2>4, <2>5 DEF CollectionInv, Objects
  <2> DEFINE a == OnPort("Propagate", h)
  <2>11. a \in CallType /\ a.do = "Propagate" /\ Call(<<a>>) /\ Quiet(a)
    BY <2>1, NewCalls DEF OnPort, ForHandler, Quiet
  <2> HIDE DEF a
  <2>12. calls' = <<a>> \o Rest /\ calls' \in Seq(CallType) /\ Pending' = {a}
    BY <1>1, <1>4, <2>11, ReplacedByOne
  <2>13. Chain(calls')
    BY <1>4, <2>11, <2>12, QuietChain DEF QuietFits
  <2>14. ~AboutPort(a) /\ ~Querying(a)
    BY <2>11 DEF AboutPort, Querying, Stopping
  <2>15. Together' /\ CallsJustified' /\ NobodyMissed'
    <3>1. Agree(a, a)' /\ Justified(a)'
      BY <2>11, <2>14 DEF Agree, Justified, Stopping
    <3> QED
      BY <2>11, <2>12, <3>1 DEF Together, CallsJustified, NobodyMissed
  <2>16. GuardLocked'
    BY <1>6, <2>1, <2>11, <2>12 DEF GuardLocked
  <2>17. Used'
    BY <1>2, <1>7, <2>4, <2>5, <2>6, <2>7 DEF Used, Stack
  <2> QED
    BY <1>2, <2>1, <2>8, <2>9, <2>10, <2>12, <2>13, <2>15, <2>16, <2>17 DEF CollectionInv, Stack
<1>9. CASE ~handler[h].m_Registered
  <2>1. /\ Call(ForHandler("Stop", h) \o ForClient("DestroyClient", x))
        /\ UNCHANGED <<client, handler, m_SerialPortHandlerMap, m_HdlcdServerHandlerList, s_bCyclicCallGuard, daemon>>
    BY <1>3, <1>9 DEF Attach, collections, Top
  <2>2. SameObjects /\ ObjectTypes'
    <3>1. s_bCyclicCallGuard' \in BOOLEAN
      BY <2>1 DEF CollectionInv, ObjectTypes
    <3> QED
      BY <2>1, <3>1, Untouched
  <2> DEFINE a == OnPort("Stop", h)
             d == OnClient("DestroyClient", x)
             s1 == <<d>> \o Rest
  <2>3. /\ a \in CallType /\ a.do = "Stop" /\ a.handler = h
        /\ d \in CallType /\ d.do = "DestroyClient" /\ d.client = x
        /\ Call(<<a>> \o <<d>>)
    BY <2>1, NewCalls DEF OnPort, OnClient, ForHandler, ForClient
  <2> HIDE DEF a, d
  <2>4. calls' = <<a>> \o s1
    BY <1>4, <2>3, InTurn DEF Call, Rest
  <2>5. /\ ~Stopping(a) /\ ~Destroying(a) /\ ~Ending(a) /\ ~Querying(a) /\ AboutPort(a)
        /\ ~Stopping(d) /\ Destroying(d) /\ Ending(d) /\ ~Querying(d) /\ ~AboutPort(d)
    BY <2>3 DEF Stopping, Destroying, Ending, Querying, AboutPort
  <2>6. s1 \in Seq(CallType) /\ Chain(s1) /\ ToSet(s1) = {d} /\ s1 # <<>> /\ s1[1] = d
    <3>1. MayBegin(d, Rest)
      BY <1>4, <2>3 DEF MayBegin
    <3>2. \A e \in ToSet(Rest): Exclude(d, e) /\ Exclude(e, d)
      BY <1>4
    <3>3. s1 \in Seq(CallType) /\ ToSet(s1) = {d} \cup ToSet(Rest) /\ s1 # <<>> /\ s1[1] = d
      BY <1>4, <2>3, Pushed
    <3>4. Chain(s1)
      BY <1>4, <2>3, <3>1, <3>2, Pushed
    <3> HIDE DEF s1
    <3> QED
      BY <1>4, <3>3, <3>4
  <2> HIDE DEF s1
  <2>7. calls' \in Seq(CallType) /\ Chain(calls') /\ Pending' = {a, d}
    <3>1. MayBegin(a, s1)
      BY <2>3, <2>6 DEF MayBegin, MayCall
    <3>2. \A e \in ToSet(s1): Exclude(a, e) /\ Exclude(e, a)
      BY <2>3, <2>5, <2>6 DEF Exclude
    <3>3. calls' \in Seq(CallType) /\ ToSet(calls') = {a} \cup ToSet(s1)
      BY <2>3, <2>4, <2>6, Pushed
    <3>4. Chain(calls')
      BY <2>3, <2>4, <2>6, <3>1, <3>2, Pushed
    <3> QED
      BY <2>6, <3>3, <3>4 DEF Pending
  <2>8. Justified(a) /\ Justified(d)
    BY <2>3, <2>5 DEF Justified
  <2>9. Agree(a, a) /\ Agree(a, d) /\ Agree(d, a) /\ Agree(d, d)
    BY <1>5, <1>9, <2>3, <2>5 DEF Agree, Concerns
  <2>10. GuardLocked'
    BY <1>6, <2>1, <2>3, <2>7 DEF GuardLocked
  <2>11. Used'
    <3>1. InUse(x, {"DestroyClient", "LeaveClient", "Attach"})' /\ InUse(x, {"DestroyClient", "Attach"})'
      BY <2>3, <2>7 DEF InUse
    <3>2. /\ \A y \in Clients, g \in Handlers: Listed(g, y)' <=> Listed(g, y)
          /\ \A y \in Clients: Stopper(y)' = Stopper(y)
      BY <2>2, SameFacts
    <3> QED
      BY <1>2, <1>7, <2>1, <3>1, <3>2 DEF Used, Stack
  <2> DEFINE N == {a, d}
  <2>12. /\ N \subseteq CallType /\ Pending' = N \cup ToSet(Rest) /\ ToSet(Rest) \subseteq Pending
         /\ \A b \in N: Justified(b) /\ (b.do = "ForEach" => Complete(b))
         /\ \A b \in N: \A e \in N \cup ToSet(Rest): Agree(b, e) /\ Agree(e, b)
    BY <1>4, <2>3, <2>7, <2>8, <2>9
  <2> HIDE DEF N
  <2> QED
    BY <1>2, <1>4, <2>1, <2>2, <2>7, <2>10, <2>11, <2>12, SameObjectsStep
<1> QED
  BY <1>8, <1>9

-----------------------------------------------------------------------------
(* A new handler starts when no call is left.                              *)

\* What the clients own is the same.
SameLives ==
  \A x \in Clients:
    /\ client'[x].exists = client[x].exists
    /\ client'[x].m_Registered = client[x].m_Registered
    /\ Stopper(x)' = Stopper(x)

(* Without calls everything that exists is registered and attached.        *)
LEMMA Idle ==
  ASSUME CollectionInv, calls = <<>>, daemon # "failed"
  PROVE  /\ Pending = {} /\ ~s_bCyclicCallGuard
         /\ \A x \in Clients: client[x].exists => client[x].m_Registered
         /\ \A x \in Clients, h \in Handlers: client[x].exists /\ Listed(h, x) => Stopper(x) = h
<1>1. Pending = {} /\ Stack
  BY NoCalls DEF Pending, CollectionInv
<1>2. ~s_bCyclicCallGuard
  BY <1>1 DEF Stack, GuardLocked, CollectionInv, ObjectTypes
<1> QED
  BY <1>1, <1>2 DEF Stack, Used, InUse

(* The calls N of a handler that starts.                                   *)
LEMMA Started ==
  ASSUME CollectionInv, calls = <<>>, daemon \in {"running", "shutdown"},
         daemon' \in {"running", "shutdown", "stopped"},
         ObjectTypes', Lists', Objects', s_bCyclicCallGuard' = s_bCyclicCallGuard,
         NEW N, Pending' = N, calls' \in Seq(CallType), Chain(calls'),
         \A a \in N: Justified(a)' /\ a.do \notin {"ForEach", "LeaveClient"},
         \A a, d \in N: Agree(a, d)',
         Used'
  PROVE  CollectionInv'
<1>1. ~s_bCyclicCallGuard
  BY Idle
<1>2. GuardLocked'
  BY <1>1 DEF GuardLocked
<1>3. Together' /\ CallsJustified' /\ NobodyMissed'
  BY DEF Together, CallsJustified, NobodyMissed
<1> QED
  BY <1>2, <1>3 DEF CollectionInv, Stack

(* Nothing is in use, and nothing has to be.                               *)
LEMMA LivesUsed ==
  ASSUME CollectionInv, calls = <<>>, daemon # "failed", SameLives,
         \A x \in Clients, h \in Handlers: Listed(h, x)' => Listed(h, x)
  PROVE  Used'
BY Idle DEF Used, SameLives

(* A handler makes one call.                                               *)
LEMMA StartedWithOne ==
  ASSUME CollectionInv, calls = <<>>, daemon \in {"running", "shutdown"}, daemon' = daemon,
         ObjectTypes', Lists', Objects', s_bCyclicCallGuard' = s_bCyclicCallGuard,
         NEW a \in CallType, calls' = <<a>>,
         a.do \notin {"ForEach", "LeaveClient"}, Justified(a)', Used'
  PROVE  CollectionInv'
<1> DEFINE s == <<>>
<1>1. s \in Seq(CallType) /\ ToSet(s) = {} /\ Chain(s) /\ <<a>> \o s = <<a>>
  BY NoCalls
<1>2. MayBegin(a, s)
  BY DEF MayBegin
<1> HIDE DEF s
<1>3. \A d \in ToSet(s): Exclude(a, d) /\ Exclude(d, a)
  BY <1>1
<1>4. calls' = <<a>> \o s
  BY <1>1
<1>5. calls' \in Seq(CallType) /\ ToSet(calls') = {a} \cup ToSet(s)
  BY <1>1, <1>4, Pushed
<1>6. Chain(calls')
  BY <1>1, <1>2, <1>3, <1>4, Pushed
<1> DEFINE N == {a}
<1>7. Pending' = N
  BY <1>1, <1>5 DEF Pending
<1>8. Agree(a, a)'
  BY DEF Agree, Concerns, Querying, Stopping, AboutPort
<1>9. /\ \A b \in N: Justified(b)' /\ b.do \notin {"ForEach", "LeaveClient"}
      /\ \A b, d \in N: Agree(b, d)'
  BY <1>8
<1> HIDE DEF N
<1> QED
  BY <1>5, <1>6, <1>7, <1>9, Started

(* Two calls, one after the other.                                         *)
LEMMA PairStack ==
  ASSUME NEW a \in CallType, NEW b \in CallType, b.do # "LeaveClient",
         MayCall(a, b), Exclude(a, b), Exclude(b, a)
  PROVE  /\ <<a>> \o <<b>> \in Seq(CallType) /\ Chain(<<a>> \o <<b>>)
         /\ ToSet(<<a>> \o <<b>>) = {a, b}
<1> DEFINE s1 == <<b>>
           s2 == <<a>> \o s1
<1>1. PICK s \in Seq(CallType): s = <<>> /\ ToSet(s) = {} /\ Chain(s)
  BY NoCalls
<1>2. <<b>> \in Seq(CallType) /\ <<b>> \o s = s1
  BY <1>1, ConcatEmptySeq
<1>3. MayBegin(b, s) /\ \A d \in ToSet(s): Exclude(b, d) /\ Exclude(d, b)
  BY <1>1 DEF MayBegin
<1> HIDE DEF s1
<1>4. s1 \in Seq(CallType) /\ ToSet(s1) = {b} \cup ToSet(s) /\ s1 # <<>> /\ s1[1] = b
  BY <1>2, Pushed
<1>5. Chain(s1)
  BY <1>1, <1>2, <1>3, Pushed
<1>6. MayBegin(a, s1) /\ \A d \in ToSet(s1): Exclude(a, d) /\ Exclude(d, a)
  BY <1>1, <1>4 DEF MayBegin
<1>7. s2 \in Seq(CallType) /\ ToSet(s2) = {a} \cup ToSet(s1)
  BY <1>4, Pushed
<1>8. Chain(s2)
  BY <1>4, <1>5, <1>6, Pushed
<1>9. ToSet(s2) = {a, b}
  BY <1>1, <1>4, <1>7
<1> QED
  BY <1>7, <1>8, <1>9 DEF s1

(* A handler makes two calls.                                              *)
LEMMA StartedWithTwo ==
  ASSUME CollectionInv, calls = <<>>, daemon \in {"running", "shutdown"}, daemon' = daemon,
         ObjectTypes', Lists', Objects', s_bCyclicCallGuard' = s_bCyclicCallGuard,
         NEW a \in CallType, NEW b \in CallType, calls' = <<a>> \o <<b>>,
         a.do \notin {"ForEach", "LeaveClient"}, b.do \in {"Propagate", "Attach"},
         MayCall(a, b), a.do \notin {"DestroyClient", "ReleaseStopper"},
         AboutPort(a) => a.handler = b.handler /\ b.do = "Attach",
         Justified(a)', Justified(b)', Used'
  PROVE  CollectionInv'
<1>1. ~Stopping(a) /\ ~Stopping(b) /\ ~Destroying(a) /\ ~Destroying(b) /\ ~Querying(a) /\ ~Querying(b) /\ ~AboutPort(b)
  BY DEF Stopping, Destroying, Querying, AboutPort
<1>2. Exclude(a, b) /\ Exclude(b, a)
  BY <1>1 DEF Exclude
<1>3. calls' \in Seq(CallType) /\ Chain(calls') /\ ToSet(calls') = {a, b}
  BY <1>2, PairStack
<1> DEFINE N == {a, b}
<1>4. Pending' = N
  BY <1>3 DEF Pending
<1>5. Agree(a, a)' /\ Agree(a, b)' /\ Agree(b, a)' /\ Agree(b, b)'
  BY <1>1 DEF Agree, Concerns, Destroying
<1>6. /\ \A c \in N: Justified(c)' /\ c.do \notin {"ForEach", "LeaveClient"}
      /\ \A c, d \in N: Agree(c, d)'
  BY <1>5
<1> HIDE DEF N
<1> QED
  BY <1>3, <1>4, <1>6, Started

(* What a handler leaves alone.                                            *)
LEMMA IdleObjects ==
  ASSUME CollectionInv, calls = <<>>, daemon # "failed", SameObjects
  PROVE  Lists' /\ Objects' /\ Used'
<1>1. Lists' /\ Objects'
  BY SameFacts DEF CollectionInv
<1>2. /\ SameLives /\ \A x \in Clients, h \in Handlers: Listed(h, x)' => Listed(h, x)
  BY SameFacts DEF SameLives, SameObjects
<1> QED
  BY <1>1, <1>2, LivesUsed

(* A connection is closed.                                                 *)
LEMMA OnClosedInv ==
  ASSUME CollectionInv, NEW x \in Clients, OnClosed(x)
  PROVE  CollectionInv'
<1>1. /\ daemon = "running" /\ daemon' = daemon /\ calls = <<>> /\ calls' = ForClient("StopClient", x)
      /\ UNCHANGED <<client, handler, m_SerialPortHandlerMap, m_HdlcdServerHandlerList, s_bCyclicCallGuard>>
  BY DEF OnClosed, Handle, objects, collections
<1>2. SameObjects /\ ObjectTypes'
  <2>1. s_bCyclicCallGuard' \in BOOLEAN
    BY <1>1 DEF CollectionInv, ObjectTypes
  <2> QED
    BY <1>1, <2>1, Untouched
<1> DEFINE a == OnClient("StopClient", x)
<1>3. a \in CallType /\ a.do = "StopClient" /\ calls' = <<a>>
  BY <1>1, NewCalls DEF OnClient, ForClient
<1> HIDE DEF a
<1>4. Justified(a)'
  BY <1>3 DEF Justified, Querying, Stopping
<1>5. Lists' /\ Objects' /\ Used'
  BY <1>1, <1>2, IdleObjects
<1> QED
  BY <1>1, <1>2, <1>3, <1>4, <1>5, StartedWithOne

(* A port is stopped on request, or after an error.                        *)
LEMMA StopRequestInv ==
  ASSUME CollectionInv, NEW h \in Handlers, StopRequest(h)
  PROVE  CollectionInv'
<1>1. /\ daemon = "running" /\ daemon' = daemon /\ calls = <<>> /\ calls' = ForHandler("Stop", h)
      /\ UNCHANGED <<client, handler, m_SerialPortHandlerMap, m_HdlcdServerHandlerList, s_bCyclicCallGuard>>
  BY DEF StopRequest, Handle, objects, collections
<1>2. SameObjects /\ ObjectTypes'
  <2>1. s_bCyclicCallGuard' \in BOOLEAN
    BY <1>1 DEF CollectionInv, ObjectTypes
  <2> QED
    BY <1>1, <2>1, Untouched
<1> DEFINE a == OnPort("Stop", h)
<1>3. a \in CallType /\ a.do = "Stop" /\ calls' = <<a>>
  BY <1>1, NewCalls DEF OnPort, ForHandler
<1> HIDE DEF a
<1>4. Justified(a)'
  BY <1>3 DEF Justified, Querying, Stopping
<1>5. Lists' /\ Objects' /\ Used'
  BY <1>1, <1>2, IdleObjects
<1> QED
  BY <1>1, <1>2, <1>3, <1>4, <1>5, StartedWithOne

(* The station calls its port.                                             *)
LEMMA StationCallsInv ==
  ASSUME CollectionInv, NEW h \in Handlers, StationCalls(h)
  PROVE  CollectionInv'
<1>1. /\ daemon = "running" /\ daemon' = daemon /\ calls = <<>> /\ handler[h].open
      /\ \/ \E t \in Sessions: calls' = Deliver(h, t)
         \/ \E do \in {"Propagate", "Query"}: calls' = ForHandler(do, h)
      /\ UNCHANGED <<client, handler, m_SerialPortHandlerMap, m_HdlcdServerHandlerList, s_bCyclicCallGuard>>
  BY DEF StationCalls, Handle, objects, collections
<1>2. SameObjects /\ ObjectTypes'
  <2>1. s_bCyclicCallGuard' \in BOOLEAN
    BY <1>1 DEF CollectionInv, ObjectTypes
  <2> QED
    BY <1>1, <2>1, Untouched
<1>3. handler[h].m_Registered
  BY <1>1 DEF CollectionInv, Objects
<1>4. PICK a \in CallType: a.do \in {"Deliver", "Propagate", "Query"} /\ a.handler = h /\ calls' = <<a>>
  <2>1. ASSUME NEW t \in Sessions, calls' = Deliver(h, t)
        PROVE  \E a \in CallType: a.do \in {"Deliver", "Propagate", "Query"} /\ a.handler = h /\ calls' = <<a>>
    <3> DEFINE a == Delivery(h, t)
    <3>1. t \in BufferTypes
      BY ConstantsAssumption
    <3>2. a \in CallType /\ a.do = "Deliver" /\ a.handler = h /\ calls' = <<a>>
      BY <2>1, <3>1, NewCalls DEF Delivery, Deliver
    <3> HIDE DEF a
    <3> QED
      BY <3>2
  <2>2. ASSUME NEW do \in {"Propagate", "Query"}, calls' = ForHandler(do, h)
        PROVE  \E a \in CallType: a.do \in {"Deliver", "Propagate", "Query"} /\ a.handler = h /\ calls' = <<a>>
    <3> DEFINE a == OnPort(do, h)
    <3>1. a \in CallType /\ a.do \in {"Propagate", "Query"} /\ a.handler = h /\ calls' = <<a>>
      BY <2>2, NewCalls DEF OnPort, ForHandler
    <3> HIDE DEF a
    <3> QED
      BY <3>1
  <2> QED
    BY <1>1, <2>1, <2>2
<1>5. Justified(a)'
  BY <1>1, <1>3, <1>4 DEF Justified, Querying, Stopping
<1>6. Lists' /\ Objects' /\ Used'
  BY <1>1, <1>2, IdleObjects
<1> QED
  BY <1>1, <1>2, <1>4, <1>5, <1>6, StartedWithOne

(* The event loop ends.                                                    *)
LEMMA SignalInv ==
  ASSUME CollectionInv, Signal
  PROVE  CollectionInv'
<1>1. /\ daemon = "running" /\ daemon' = "shutdown" /\ calls = <<>> /\ calls' = <<>>
      /\ UNCHANGED <<client, handler, m_SerialPortHandlerMap, m_HdlcdServerHandlerList, s_bCyclicCallGuard>>
  BY DEF Signal, Handle, objects, collections
<1>2. SameObjects /\ ObjectTypes'
  <2>1. s_bCyclicCallGuard' \in BOOLEAN
    BY <1>1 DEF CollectionInv, ObjectTypes
  <2> QED
    BY <1>1, <2>1, Untouched
<1>3. Lists' /\ Objects' /\ Used'
  BY <1>1, <1>2, IdleObjects
<1> DEFINE N == {}
<1>4. calls' \in Seq(CallType) /\ Chain(calls') /\ Pending' = N
  BY <1>1, NoCalls DEF Pending
<1>5. /\ \A b \in N: Justified(b)' /\ b.do \notin {"ForEach", "LeaveClient"}
      /\ \A b, d \in N: Agree(b, d)'
  OBVIOUS
<1> HIDE DEF N
<1> QED
  BY <1>1, <1>2, <1>3, <1>4, <1>5, Started

(* The clients that are left are stopped, one after the other.             *)
LEMMA ShutdownInv ==
  ASSUME CollectionInv, Shutdown
  PROVE  CollectionInv'
<1>1. /\ daemon = "shutdown" /\ calls = <<>>
      /\ UNCHANGED <<client, handler, m_SerialPortHandlerMap, m_HdlcdServerHandlerList, s_bCyclicCallGuard>>
      /\ \/ daemon' = daemon /\ \E x \in m_HdlcdServerHandlerList: calls' = ForClient("StopClient", x)
         \/ daemon' = "stopped" /\ calls' = <<>>
  BY DEF Shutdown, objects, collections
<1>2. SameObjects /\ ObjectTypes'
  <2>1. s_bCyclicCallGuard' \in BOOLEAN
    BY <1>1 DEF CollectionInv, ObjectTypes
  <2> QED
    BY <1>1, <2>1, Untouched
<1>3. Lists' /\ Objects' /\ Used'
  BY <1>1, <1>2, IdleObjects
<1>4. ASSUME daemon' = daemon, NEW x \in m_HdlcdServerHandlerList, calls' = ForClient("StopClient", x)
      PROVE  CollectionInv'
  <2>1. x \in Clients
    BY DEF CollectionInv, ObjectTypes
  <2> DEFINE a == OnClient("StopClient", x)
  <2>2. a \in CallType /\ a.do = "StopClient" /\ calls' = <<a>>
    BY <1>4, <2>1, NewCalls DEF OnClient, ForClient
  <2> HIDE DEF a
  <2>3. Justified(a)'
    BY <2>2 DEF Justified, Querying, Stopping
  <2> QED
    BY <1>1, <1>2, <1>3, <1>4, <2>2, <2>3, StartedWithOne
<1>5. CASE daemon' = "stopped" /\ calls' = <<>>
  <2> DEFINE N == {}
  <2>1. calls' \in Seq(CallType) /\ Chain(calls') /\ Pending' = N
    BY <1>5, NoCalls DEF Pending
  <2>2. /\ \A b \in N: Justified(b)' /\ b.do \notin {"ForEach", "LeaveClient"}
        /\ \A b, d \in N: Agree(b, d)'
    OBVIOUS
  <2> HIDE DEF N
  <2> QED
    BY <1>1, <1>2, <1>3, <1>5, <2>1, <2>2, Started
<1> QED
  BY <1>1, <1>4, <1>5

(* A new client.                                                           *)
LEMMA DoAcceptInv ==
  ASSUME CollectionInv, DoAccept
  PROVE  CollectionInv'
<1>1. /\ daemon = "running" /\ daemon' = daemon /\ calls = <<>> /\ calls' = <<>>
      /\ UNCHANGED <<handler, m_SerialPortHandlerMap, s_bCyclicCallGuard>>
  BY DEF DoAccept, Handle
<1>2. PICK x \in UnusedClients:
        /\ client' = [client EXCEPT ![x] = [NoClient EXCEPT !.exists = TRUE, !.m_Registered = TRUE]]
        /\ m_HdlcdServerHandlerList' = m_HdlcdServerHandlerList \cup {x}
  <2>1. (CHOOSE y \in UnusedClients: TRUE) \in UnusedClients
    BY DEF DoAccept
  <2> QED
    BY <2>1 DEF DoAccept
<1>3. /\ x \in Clients /\ ~client[x].exists
      /\ \A h \in Handlers: ~Listed(h, x)
  <2>1. x \in Clients /\ ~client[x].exists /\ \A h \in Handlers: ~Contains(handler[h].clients, x)
    BY DEF UnusedClients
  <2>2. \A h \in Handlers: DOMAIN handler[h].clients = 1..Len(handler[h].clients)
    BY ListFacts
  <2> QED
    BY <2>1, <2>2 DEF Contains, Listed
<1>4. PICK new \in ClientType:
        /\ client' = [client EXCEPT ![x] = new]
        /\ new.exists /\ new.m_Registered /\ ~new.m_bLockedBySelf
        /\ new.m_SerialPortHandlerStopper = None
  <2>1. /\ [NoClient EXCEPT !.exists = TRUE, !.m_Registered = TRUE] \in ClientType
        /\ [NoClient EXCEPT !.exists = TRUE, !.m_Registered = TRUE].exists
        /\ [NoClient EXCEPT !.exists = TRUE, !.m_Registered = TRUE].m_Registered
        /\ ~[NoClient EXCEPT !.exists = TRUE, !.m_Registered = TRUE].m_bLockedBySelf
        /\ [NoClient EXCEPT !.exists = TRUE, !.m_Registered = TRUE].m_SerialPortHandlerStopper = None
    BY DEF NoClient, ClientType, BufferTypes
  <2> QED
    BY <1>2, <2>1
<1>5. /\ client' \in [Clients -> ClientType]
      /\ \A y \in Clients: y # x => client'[y] = client[y]
      /\ client'[x] = new
  <2>1. client \in [Clients -> ClientType]
    BY DEF CollectionInv, ObjectTypes
  <2> QED
    BY <1>3, <1>4, <2>1
<1>6. /\ \A y, h: Listed(h, y)' <=> Listed(h, y)
      /\ \A y \in Clients: y # x => Stopper(y)' = Stopper(y)
      /\ Stopper(x)' = None
  BY <1>1, <1>4, <1>5 DEF Listed, Stopper
<1>7. ObjectTypes'
  BY <1>1, <1>2, <1>3, <1>5 DEF CollectionInv, ObjectTypes
<1>8. Lists'
  BY <1>1, <1>3, <1>6 DEF CollectionInv, Lists
<1>9. Objects'
  BY <1>1, <1>4, <1>5, <1>6 DEF CollectionInv, Objects
<1>10. Used'
  <2>1. /\ \A y \in Clients: client[y].exists => client[y].m_Registered
        /\ \A y \in Clients, h \in Handlers: client[y].exists /\ Listed(h, y) => Stopper(y) = h
    BY <1>1, Idle
  <2> QED
    BY <1>3, <1>4, <1>5, <1>6, <2>1 DEF Used
<1> DEFINE N == {}
<1>11. calls' \in Seq(CallType) /\ Chain(calls') /\ Pending' = N
  BY <1>1, NoCalls DEF Pending
<1>12. /\ \A b \in N: Justified(b)' /\ b.do \notin {"ForEach", "LeaveClient"}
       /\ \A b, d \in N: Agree(b, d)'
  OBVIOUS
<1> HIDE DEF N
<1> QED
  BY <1>1, <1>7, <1>8, <1>9, <1>10, <1>11, <1>12, Started

\* x locks or unlocks its port.
LockChanged(x, locked) ==
  /\ client[x].m_Registered /\ Stopper(x) # None
  /\ client' = [client EXCEPT ![x].m_bLockedBySelf = locked]

(* Nothing but the lock of a client changes.                               *)
LEMMA LockChangedFacts ==
  ASSUME CollectionInv, NEW x \in Clients, NEW locked \in BOOLEAN, LockChanged(x, locked)
  PROVE  /\ client' \in [Clients -> ClientType] /\ SameLives
         /\ \A y \in Clients: y # x => client'[y] = client[y]
<1>1. client \in [Clients -> ClientType]
  BY DEF CollectionInv, ObjectTypes
<1>2. PICK state \in ClientType: state = client[x]
  BY <1>1
<1>3. PICK new \in ClientType:
        /\ client' = [client EXCEPT ![x] = new]
        /\ new.exists = state.exists /\ new.m_Registered = state.m_Registered
        /\ new.m_SerialPortHandlerStopper = state.m_SerialPortHandlerStopper
  <2>1. /\ [state EXCEPT !.m_bLockedBySelf = locked] \in ClientType
        /\ [state EXCEPT !.m_bLockedBySelf = locked].exists = state.exists
        /\ [state EXCEPT !.m_bLockedBySelf = locked].m_Registered = state.m_Registered
        /\ [state EXCEPT !.m_bLockedBySelf = locked].m_SerialPortHandlerStopper = state.m_SerialPortHandlerStopper
    BY DEF ClientType
  <2>2. client' = [client EXCEPT ![x] = [state EXCEPT !.m_bLockedBySelf = locked]]
    BY <1>2 DEF LockChanged
  <2> QED
    BY <2>1, <2>2
<1>4. /\ client' \in [Clients -> ClientType]
      /\ \A y \in Clients: y # x => client'[y] = client[y]
      /\ client'[x] = new
  BY <1>1, <1>3
<1>5. SameLives
  BY <1>2, <1>3, <1>4 DEF SameLives, Stopper
<1> QED
  BY <1>4, <1>5

(* The lists, the objects and what is in use stay in order.                *)
LEMMA LockChangedStep ==
  ASSUME CollectionInv, calls = <<>>, daemon # "failed",
         NEW x \in Clients, NEW locked \in BOOLEAN, LockChanged(x, locked),
         \A h \in Handlers: /\ handler'[h].clients = handler[h].clients
                            /\ handler'[h].m_Registered = handler[h].m_Registered
                            /\ handler'[h].open => handler[h].open
  PROVE  Lists' /\ Objects' /\ Used'
<1>1. /\ SameLives /\ \A y \in Clients: y # x => client'[y] = client[y]
  BY LockChangedFacts
<1>2. \A y, h: h \in Handlers => (Listed(h, y)' <=> Listed(h, y))
  BY DEF Listed
<1>3. Lists'
  BY <1>1, <1>2 DEF CollectionInv, Lists, SameLives
<1>4. Objects'
  <2>1. client[x].exists /\ Stopper(x) # None
    BY DEF CollectionInv, Objects, LockChanged
  <2>2. \A y \in Clients: client'[y].m_Registered => client'[y].exists
    BY <1>1 DEF CollectionInv, Objects, SameLives
  <2>3. \A y \in Clients: client'[y].m_bLockedBySelf => client'[y].exists /\ Stopper(y)' # None
    BY <1>1, <2>1 DEF CollectionInv, Objects, SameLives
  <2>4. \A h \in Handlers: handler'[h].open => handler'[h].m_Registered
    BY DEF CollectionInv, Objects
  <2> QED
    BY <2>2, <2>3, <2>4 DEF Objects
<1>5. Used'
  BY <1>1, <1>2, LivesUsed
<1> QED
  BY <1>3, <1>4, <1>5

(* A client gives back its lock.                                           *)
LEMMA ReleaseLockInv ==
  ASSUME CollectionInv, NEW x \in Clients, ReleaseLock(x)
  PROVE  CollectionInv'
<1>1. /\ daemon = "running" /\ daemon' = daemon /\ calls = <<>> /\ calls' = ForHandler("Resume", Stopper(x))
      /\ LockChanged(x, FALSE)
      /\ UNCHANGED <<handler, m_SerialPortHandlerMap, m_HdlcdServerHandlerList, s_bCyclicCallGuard>>
  BY DEF ReleaseLock, Handle, Attached, LockChanged, Stopper, collections
<1>2. Stopper(x) \in Handlers
  BY <1>1 DEF CollectionInv, ObjectTypes, ClientType, Stopper, LockChanged
<1>3. client' \in [Clients -> ClientType]
  BY <1>1, LockChangedFacts
<1>4. ObjectTypes'
  BY <1>1, <1>3 DEF CollectionInv, ObjectTypes
<1>5. Lists' /\ Objects' /\ Used'
  BY <1>1, LockChangedStep
<1> DEFINE a == OnPort("Resume", Stopper(x))
<1>6. PICK b \in CallType: b.do = "Resume" /\ calls' = <<b>>
  <2>1. a \in CallType /\ a.do = "Resume" /\ calls' = <<a>>
    BY <1>1, <1>2, NewCalls DEF OnPort, ForHandler
  <2> HIDE DEF a
  <2> QED
    BY <2>1
<1>7. Justified(b)'
  BY <1>6 DEF Justified, Querying, Stopping
<1> QED
  BY <1>1, <1>4, <1>5, <1>6, <1>7, StartedWithOne

(* A client locks its port, which is closed.                               *)
LEMMA AcquireLockInv ==
  ASSUME CollectionInv, NEW x \in Clients, AcquireLock(x)
  PROVE  CollectionInv'
<1>1. /\ daemon = "running" /\ daemon' = daemon /\ calls = <<>>
      /\ calls' = (IF handler[Stopper(x)].open THEN ForHandler("Propagate", Stopper(x)) ELSE <<>>)
                  \o ForHandler("Propagate", Stopper(x))
      /\ handler' = [handler EXCEPT ![Stopper(x)].m_NbrOfLocks = @ + 1, ![Stopper(x)].open = FALSE]
      /\ LockChanged(x, TRUE)
      /\ UNCHANGED <<m_SerialPortHandlerMap, m_HdlcdServerHandlerList, s_bCyclicCallGuard>>
  BY DEF AcquireLock, Handle, Attached, LockChanged, Stopper, collections
<1>2. PICK h \in Handlers: h = Stopper(x)
  BY <1>1 DEF CollectionInv, ObjectTypes, ClientType, Stopper, LockChanged
<1>3. handler \in [Handlers -> PortType]
  BY DEF CollectionInv, ObjectTypes
<1>4. PICK old \in PortType: old = handler[h]
  BY <1>3
<1>5. PICK port \in PortType:
        /\ handler' = [handler EXCEPT ![h] = port]
        /\ port.clients = old.clients /\ port.m_Registered = old.m_Registered /\ ~port.open
  <2>1. old.m_NbrOfLocks + 1 \in Int
    BY DEF PortType
  <2>2. PICK locks \in Int: locks = old.m_NbrOfLocks + 1
    BY <2>1
  <2>3. /\ [old EXCEPT !.m_NbrOfLocks = locks, !.open = FALSE] \in PortType
        /\ [old EXCEPT !.m_NbrOfLocks = locks, !.open = FALSE].clients = old.clients
        /\ [old EXCEPT !.m_NbrOfLocks = locks, !.open = FALSE].m_Registered = old.m_Registered
        /\ ~[old EXCEPT !.m_NbrOfLocks = locks, !.open = FALSE].open
    BY DEF PortType
  <2>4. handler' = [handler EXCEPT ![h] = [old EXCEPT !.m_NbrOfLocks = locks, !.open = FALSE]]
    BY <1>1, <1>2, <1>3, <1>4, <2>2
  <2> QED
    BY <2>3, <2>4
<1>6. /\ handler' \in [Handlers -> PortType]
      /\ \A g \in Handlers: /\ handler'[g].clients = handler[g].clients
                            /\ handler'[g].m_Registered = handler[g].m_Registered
                            /\ handler'[g].open => handler[g].open
  <2>1. handler' \in [Handlers -> PortType] /\ handler'[h] = port
    BY <1>3, <1>5
  <2>2. \A g \in Handlers: g # h => handler'[g] = handler[g]
    BY <1>3, <1>5
  <2> QED
    BY <1>4, <1>5, <2>1, <2>2
<1>7. client' \in [Clients -> ClientType]
  BY <1>1, LockChangedFacts
<1>8. ObjectTypes'
  BY <1>1, <1>6, <1>7 DEF CollectionInv, ObjectTypes
<1>9. Lists' /\ Objects' /\ Used'
  BY <1>1, <1>6, LockChangedStep
<1> DEFINE a == OnPort("Propagate", h)
<1>10. PICK b \in CallType: b.do = "Propagate" /\ <<b>> = ForHandler("Propagate", h)
  <2>1. a \in CallType /\ a.do = "Propagate" /\ <<a>> = ForHandler("Propagate", h)
    BY NewCalls DEF OnPort, ForHandler
  <2> HIDE DEF a
  <2> QED
    BY <2>1
<1>11. Justified(b)' /\ ~AboutPort(b) /\ MayCall(b, b)
  BY <1>10 DEF Justified, Querying, Stopping, AboutPort, MayCall, Quiet
<1>12. CASE handler[h].open
  <2>1. calls' = <<b>> \o <<b>>
    BY <1>1, <1>2, <1>10, <1>12
  <2> QED
    BY <1>1, <1>8, <1>9, <1>10, <1>11, <2>1, StartedWithTwo
<1>13. CASE ~handler[h].open
  <2>1. calls' = <<>> \o <<b>>
    BY <1>1, <1>2, <1>10, <1>13
  <2>2. <<b>> \in Seq(CallType)
    OBVIOUS
  <2>3. calls' = <<b>>
    BY <2>1, <2>2, ConcatEmptySeq
  <2> QED
    BY <1>1, <1>8, <1>9, <1>10, <1>11, <2>3, StartedWithOne
<1> QED
  BY <1>12, <1>13

(* A client is entered in the list of a port.                              *)
LEMMA EnteredStep ==
  ASSUME CollectionInv, calls = <<>>, daemon # "failed", SameLives,
         \A y \in Clients: client'[y].m_bLockedBySelf = client[y].m_bLockedBySelf,
         NEW x \in Clients, client[x].m_Registered, Stopper(x) = None,
         NEW h \in Handlers, NEW port \in PortType, handler' = [handler EXCEPT ![h] = port],
         port.open => port.m_Registered,
         NEW list \in Seq(Clients), port.clients = Append(list, x),
         list = <<>> \/ list = handler[h].clients,
         \E c \in Pending': c.do = "Attach" /\ c.client = x
  PROVE  Lists' /\ Objects' /\ Used' /\ Listed(h, x)' /\ client'[x].exists
<1>1. handler \in [Handlers -> PortType]
  BY DEF CollectionInv, ObjectTypes
<1>2. /\ \A g \in Handlers: g # h => handler'[g] = handler[g]
      /\ handler'[h] = port
  BY <1>1
<1>3. client[x].exists
  BY DEF CollectionInv, Objects
<1>4. \A g \in Handlers: ~Listed(g, x)
  BY <1>3, Idle, ConstantsAssumption
<1> DEFINE longer == Append(list, x)
<1>5. /\ longer \in Seq(Clients) /\ Len(longer) = Len(list) + 1 /\ Len(list) \in Nat
      /\ DOMAIN longer = 1..(Len(list) + 1) /\ DOMAIN list = 1..Len(list)
      /\ longer[Len(list) + 1] = x
      /\ \A i \in DOMAIN list: longer[i] = list[i]
  BY AppendProperties, LenProperties
<1> HIDE DEF longer
<1>6. handler'[h].clients = longer
  BY <1>2 DEF longer
<1>7. /\ \A i \in DOMAIN list: list[i] # x
      /\ \A i, j \in DOMAIN list: list[i] = list[j] => i = j
      /\ \A i \in DOMAIN list: Listed(h, list[i])
  <2>1. CASE list = <<>>
    <3>1. DOMAIN list = {}
      BY <2>1
    <3> QED
      BY <3>1
  <2>2. CASE list = handler[h].clients
    <3>1. \A i, j \in DOMAIN list: list[i] = list[j] => i = j
      BY <2>2 DEF CollectionInv, Lists
    <3>2. \A i \in DOMAIN list: Listed(h, list[i])
      BY <2>2 DEF Listed
    <3> QED
      BY <1>4, <3>1, <3>2
  <2> QED
    BY <2>1, <2>2
<1>8. \A i \in DOMAIN longer: (i \in DOMAIN list /\ longer[i] = list[i]) \/ (i = Len(list) + 1 /\ longer[i] = x)
  BY <1>5
<1>9. \A i, j \in DOMAIN longer: longer[i] = longer[j] => i = j
  BY <1>7, <1>8
<1>10. /\ \A y, g: g \in Handlers /\ g # h => (Listed(g, y)' <=> Listed(g, y))
       /\ \A y: Listed(h, y)' => y = x \/ Listed(h, y)
       /\ Listed(h, x)'
  <2>1. \A y, g: g \in Handlers /\ g # h => (Listed(g, y)' <=> Listed(g, y))
    BY <1>2 DEF Listed
  <2>2. \A y: Listed(h, y)' <=> \E i \in DOMAIN longer: longer[i] = y
    BY <1>6 DEF Listed
  <2>3. \A y: Listed(h, y)' => y = x \/ Listed(h, y)
    BY <1>7, <1>8, <2>2
  <2>4. Listed(h, x)'
    <3>1. Len(list) + 1 \in DOMAIN longer
      BY <1>5
    <3> QED
      BY <1>5, <2>2, <3>1
  <2> QED
    BY <2>1, <2>3, <2>4
<1>11. \A y, g: g \in Handlers /\ Listed(g, y)' => Listed(g, y) \/ (g = h /\ y = x)
  BY <1>10
<1>12. Lists'
  <2>1. ASSUME NEW g \in Handlers
        PROVE  \A i, j \in DOMAIN handler'[g].clients: handler'[g].clients[i] = handler'[g].clients[j] => i = j
    <3>1. CASE g = h
      BY <1>6, <1>9, <3>1
    <3>2. CASE g # h
      <4>1. \A i, j \in DOMAIN handler[g].clients: handler[g].clients[i] = handler[g].clients[j] => i = j
        BY DEF CollectionInv, Lists
      <4>2. handler'[g].clients = handler[g].clients
        BY <1>2, <3>2
      <4> QED
        BY <4>1, <4>2
    <3> QED
      BY <3>1, <3>2
  <2>2. \A y \in Clients, f, g \in Handlers: Listed(f, y)' /\ Listed(g, y)' => f = g
    BY <1>4, <1>11 DEF CollectionInv, Lists
  <2>3. \A y \in Clients, g \in Handlers: Listed(g, y)' => Stopper(y)' \in {None, g}
    BY <1>11 DEF CollectionInv, Lists, SameLives
  <2> QED
    BY <2>1, <2>2, <2>3 DEF Lists
<1>13. Objects'
  <2>1. \A g \in Handlers: handler'[g].open => handler'[g].m_Registered
    <3> SUFFICES ASSUME NEW g \in Handlers, handler'[g].open
                 PROVE  handler'[g].m_Registered
      OBVIOUS
    <3>1. CASE g = h
      BY <1>2, <3>1
    <3>2. CASE g # h
      BY <1>2, <3>2 DEF CollectionInv, Objects
    <3> QED
      BY <3>1, <3>2
  <2> QED
    BY <2>1 DEF CollectionInv, Objects, SameLives
<1>14. Used'
  <2>1. /\ \A y \in Clients: client[y].exists => client[y].m_Registered
        /\ \A y \in Clients, g \in Handlers: client[y].exists /\ Listed(g, y) => Stopper(y) = g
    BY Idle
  <2>2. InUse(x, {"DestroyClient", "Attach"})'
    BY DEF InUse
  <2>3. \A y \in Clients: client'[y].exists => client'[y].m_Registered
    BY <2>1 DEF SameLives
  <2>4. \A y \in Clients, g \in Handlers: client'[y].exists /\ Listed(g, y)' => Stopper(y)' = g \/ (g = h /\ y = x)
    BY <1>11, <2>1 DEF SameLives
  <2> QED
    BY <2>2, <2>3, <2>4 DEF Used
<1> QED
  BY <1>3, <1>10, <1>12, <1>13, <1>14 DEF SameLives

(* Only the type of the session is noted of the client.                    *)
LEMMA SessionFacts ==
  ASSUME CollectionInv, NEW x \in Clients, NEW type \in BufferTypes,
         client' = [client EXCEPT ![x].m_eBufferType = type]
  PROVE  /\ client' \in [Clients -> ClientType] /\ SameLives
         /\ \A y \in Clients: client'[y].m_bLockedBySelf = client[y].m_bLockedBySelf
<1>1. client \in [Clients -> ClientType]
  BY DEF CollectionInv, ObjectTypes
<1>2. PICK state \in ClientType: state = client[x]
  BY <1>1
<1>3. PICK new \in ClientType:
        /\ client' = [client EXCEPT ![x] = new]
        /\ new.exists = state.exists /\ new.m_Registered = state.m_Registered
        /\ new.m_SerialPortHandlerStopper = state.m_SerialPortHandlerStopper
        /\ new.m_bLockedBySelf = state.m_bLockedBySelf
  <2>1. /\ [state EXCEPT !.m_eBufferType = type] \in ClientType
        /\ [state EXCEPT !.m_eBufferType = type].exists = state.exists
        /\ [state EXCEPT !.m_eBufferType = type].m_Registered = state.m_Registered
        /\ [state EXCEPT !.m_eBufferType = type].m_SerialPortHandlerStopper = state.m_SerialPortHandlerStopper
        /\ [state EXCEPT !.m_eBufferType = type].m_bLockedBySelf = state.m_bLockedBySelf
    BY DEF ClientType
  <2>2. client' = [client EXCEPT ![x] = [state EXCEPT !.m_eBufferType = type]]
    BY <1>2
  <2> QED
    BY <2>1, <2>2
<1>4. /\ client' \in [Clients -> ClientType]
      /\ \A y \in Clients: y # x => client'[y] = client[y]
      /\ client'[x] = new
  BY <1>1, <1>3
<1> QED
  BY <1>2, <1>3, <1>4 DEF SameLives, Stopper

(* An entry that is added.                                                 *)
LEMMA AddedFacts ==
  ASSUME NEW state \in PortType, NEW x \in Clients, NEW type \in BufferTypes
  PROVE  /\ Added(state, x, type) \in PortType
         /\ Added(state, x, type).clients = Append(state.clients, x)
         /\ Added(state, x, type).m_Registered = state.m_Registered
         /\ Added(state, x, type).open = state.open
<1> DEFINE counts == [state.m_BufferTypeSubscribers EXCEPT ![type] = @ + 1]
           list == Append(state.clients, x)
<1>1. state.m_BufferTypeSubscribers \in [BufferTypes -> Nat] /\ state.clients \in Seq(Clients)
  BY DEF PortType
<1>2. state.m_BufferTypeSubscribers[type] + 1 \in Nat
  BY <1>1
<1>3. counts \in [BufferTypes -> Nat]
  BY <1>1, <1>2
<1>4. list \in Seq(Clients)
  BY <1>1, AppendProperties
<1>5. Added(state, x, type) = [state EXCEPT !.m_BufferTypeSubscribers = counts, !.clients = list]
  BY DEF Added, PortType
<1> HIDE DEF counts, list
<1>6. /\ [state EXCEPT !.m_BufferTypeSubscribers = counts, !.clients = list] \in PortType
      /\ [state EXCEPT !.m_BufferTypeSubscribers = counts, !.clients = list].clients = list
      /\ [state EXCEPT !.m_BufferTypeSubscribers = counts, !.clients = list].m_Registered = state.m_Registered
      /\ [state EXCEPT !.m_BufferTypeSubscribers = counts, !.clients = list].open = state.open
  BY <1>3, <1>4 DEF PortType
<1> QED
  BY <1>5, <1>6 DEF list

(* The calls of a client that attaches to a port.                          *)
LEMMA AttachCalls ==
  ASSUME NEW b \in CallType, b.do = "Attach", NEW a \in CallType, a.do \in {"Propagate", "Open"}
  PROVE  /\ calls' = <<a>> \o <<b>> => Pending' = {a, b}
         /\ calls' = <<>> \o <<b>> => Pending' = {b} /\ calls' = <<b>>
         /\ MayCall(a, b)
<1>1. MayCall(a, b)
  BY DEF MayCall, Quiet
<1>2. Exclude(a, b) /\ Exclude(b, a)
  BY DEF Exclude, Stopping, Destroying
<1>3. ToSet(<<a>> \o <<b>>) = {a, b}
  BY <1>1, <1>2, PairStack
<1>4. <<b>> \in Seq(CallType) /\ ToSet(<<b>>) = {b}
  <2>1. DOMAIN <<b>> = {1} /\ <<b>>[1] = b
    OBVIOUS
  <2> QED
    BY <2>1 DEF ToSet
<1>5. <<>> \o <<b>> = <<b>>
  BY <1>4, ConcatEmptySeq
<1> QED
  BY <1>1, <1>3, <1>4, <1>5 DEF Pending

(* A session header attaches a client to a port, which may be new.         *)
LEMMA OnFrameInv ==
  ASSUME CollectionInv, NEW x \in Clients, NEW name \in Names, NEW type \in Sessions, OnFrame(x, name, type)
  PROVE  CollectionInv'
<1>1. /\ client[x].m_Registered /\ Stopper(x) = None
      /\ client' = [client EXCEPT ![x].m_eBufferType = type]
      /\ UNCHANGED <<m_HdlcdServerHandlerList, s_bCyclicCallGuard, daemon>>
      /\ daemon = "running" /\ calls = <<>>
  BY DEF OnFrame, AwaitsHeader, Handle, Stopper
<1>2. type \in BufferTypes
  BY ConstantsAssumption
<1>3. /\ client' \in [Clients -> ClientType] /\ SameLives
      /\ \A y \in Clients: client'[y].m_bLockedBySelf = client[y].m_bLockedBySelf
  BY <1>1, <1>2, SessionFacts
<1>4. handler \in [Handlers -> PortType] /\ m_SerialPortHandlerMap \in [Names -> Handlers \cup {None}]
  BY DEF CollectionInv, ObjectTypes
<1>5. CASE m_SerialPortHandlerMap[name] # None
  <2>1. PICK h \in Handlers: h = m_SerialPortHandlerMap[name]
    BY <1>4, <1>5
  <2>2. PICK b \in CallType: /\ b.do = "Attach" /\ b.handler = h /\ b.client = x
                             /\ <<b>> = <<[do |-> "Attach", handler |-> h, client |-> x]>>
    <3> DEFINE a == Attaching(h, x)
    <3>1. /\ a \in CallType /\ a.do = "Attach" /\ a.handler = h /\ a.client = x
          /\ <<a>> = <<[do |-> "Attach", handler |-> h, client |-> x]>>
      BY NewCalls DEF Attaching
    <3> HIDE DEF a
    <3> QED
      BY <3>1
  <2>3. PICK a \in CallType: a.do = "Propagate" /\ a.handler = h /\ <<a>> = ForHandler("Propagate", h)
    <3> DEFINE c == OnPort("Propagate", h)
    <3>1. c \in CallType /\ c.do = "Propagate" /\ c.handler = h /\ <<c>> = ForHandler("Propagate", h)
      BY NewCalls DEF OnPort, ForHandler
    <3> HIDE DEF c
    <3> QED
      BY <3>1
  <2>4. /\ handler' = [handler EXCEPT ![h] = Added(handler[h], x, type)]
        /\ calls' = (IF handler[h].open THEN ForHandler("Propagate", h) ELSE <<>>)
                    \o <<[do |-> "Attach", handler |-> h, client |-> x]>>
        /\ m_SerialPortHandlerMap' = m_SerialPortHandlerMap
    BY <1>5, <2>1 DEF OnFrame, Handle
  <2>5. calls' = <<a>> \o <<b>> \/ calls' = <<>> \o <<b>>
    BY <2>2, <2>3, <2>4
  <2>6. \E c \in Pending': c.do = "Attach" /\ c.client = x
    BY <2>2, <2>3, <2>5, AttachCalls
  <2>7. PICK old \in PortType: old = handler[h]
    BY <1>4
  <2>8. old.open => old.m_Registered
    BY <2>7 DEF CollectionInv, Objects
  <2>9. PICK port \in PortType: /\ handler' = [handler EXCEPT ![h] = port] /\ port.clients = Append(old.clients, x)
                                /\ port.m_Registered = old.m_Registered /\ port.open = old.open
    BY <1>2, <2>4, <2>7, AddedFacts
  <2>10. PICK list \in Seq(Clients): list = old.clients
    BY DEF PortType
  <2>11. Lists' /\ Objects' /\ Used' /\ Listed(h, x)' /\ client'[x].exists
    <3>1. /\ port.open => port.m_Registered
          /\ port.clients = Append(list, x)
          /\ list = handler[h].clients
      BY <2>7, <2>8, <2>9, <2>10
    <3> QED
      BY <1>1, <1>3, <2>6, <2>9, <3>1, EnteredStep
  <2>12. ObjectTypes'
    <3>1. handler' \in [Handlers -> PortType]
      BY <1>4, <2>9
    <3> QED
      BY <1>1, <1>3, <2>4, <3>1 DEF CollectionInv, ObjectTypes
  <2>13. Justified(a)' /\ Justified(b)'
    <3>1. Justified(a)'
      BY <2>3 DEF Justified, Querying, Stopping
    <3>2. client'[x].m_Registered /\ Stopper(x)' = None
      BY <1>1, <1>3 DEF SameLives
    <3> QED
      BY <2>2, <2>11, <3>1, <3>2 DEF Justified, Querying, Stopping
  <2>14. CASE calls' = <<a>> \o <<b>>
    <3>1. ~AboutPort(a) /\ MayCall(a, b)
      BY <2>2, <2>3, AttachCalls DEF AboutPort, Stopping
    <3> QED
      BY <1>1, <2>2, <2>3, <2>11, <2>12, <2>13, <2>14, <3>1, StartedWithTwo
  <2>15. CASE calls' = <<>> \o <<b>>
    <3>1. calls' = <<b>>
      BY <2>2, <2>3, <2>15, AttachCalls
    <3> QED
      BY <1>1, <2>2, <2>11, <2>12, <2>13, <3>1, StartedWithOne
  <2> QED
    BY <2>5, <2>14, <2>15
<1>6. CASE m_SerialPortHandlerMap[name] = None
  <2>1. PICK h \in UnusedHandlers:
          /\ handler' = [handler EXCEPT ![h] =
               Added([NoHandler EXCEPT !.m_Registered = TRUE, !.m_SerialPortName = name], x, type)]
          /\ m_SerialPortHandlerMap' = [m_SerialPortHandlerMap EXCEPT ![name] = h]
          /\ calls' = ForHandler("Open", h) \o <<[do |-> "Attach", handler |-> h, client |-> x]>>
    <3>1. UnusedHandlers # {}
      BY <1>6 DEF OnFrame
    <3>2. (CHOOSE g \in UnusedHandlers: TRUE) \in UnusedHandlers
      BY <3>1
    <3> QED
      BY <1>6, <3>2 DEF OnFrame, Handle
  <2>2. h \in Handlers
    BY DEF UnusedHandlers
  <2>3. PICK b \in CallType: /\ b.do = "Attach" /\ b.handler = h /\ b.client = x
                             /\ <<b>> = <<[do |-> "Attach", handler |-> h, client |-> x]>>
    <3> DEFINE a == Attaching(h, x)
    <3>1. /\ a \in CallType /\ a.do = "Attach" /\ a.handler = h /\ a.client = x
          /\ <<a>> = <<[do |-> "Attach", handler |-> h, client |-> x]>>
      BY <2>2, NewCalls DEF Attaching
    <3> HIDE DEF a
    <3> QED
      BY <3>1
  <2>4. PICK a \in CallType: a.do = "Open" /\ a.handler = h /\ <<a>> = ForHandler("Open", h)
    <3> DEFINE c == OnPort("Open", h)
    <3>1. c \in CallType /\ c.do = "Open" /\ c.handler = h /\ <<c>> = ForHandler("Open", h)
      BY <2>2, NewCalls DEF OnPort, ForHandler
    <3> HIDE DEF c
    <3> QED
      BY <3>1
  <2>5. calls' = <<a>> \o <<b>>
    BY <2>1, <2>3, <2>4
  <2>6. \E c \in Pending': c.do = "Attach" /\ c.client = x
    BY <2>3, <2>4, <2>5, AttachCalls
  <2>7. PICK old \in PortType: /\ old = [NoHandler EXCEPT !.m_Registered = TRUE, !.m_SerialPortName = name]
                               /\ old.m_Registered /\ ~old.open /\ old.clients = <<>>
    <3>1. PICK base \in PortType: base = NoHandler /\ ~base.open /\ base.clients = <<>>
      <4>1. NoSubscribers \in [BufferTypes -> Nat]
        BY DEF NoSubscribers
      <4>2. <<>> \in Seq(Clients)
        OBVIOUS
      <4>3. NoHandler \in PortType /\ ~NoHandler.open /\ NoHandler.clients = <<>>
        BY <4>1, <4>2 DEF NoHandler, PortType
      <4> QED
        BY <4>3
    <3>2. /\ [base EXCEPT !.m_Registered = TRUE, !.m_SerialPortName = name] \in PortType
          /\ [base EXCEPT !.m_Registered = TRUE, !.m_SerialPortName = name].m_Registered
          /\ [base EXCEPT !.m_Registered = TRUE, !.m_SerialPortName = name].open = base.open
          /\ [base EXCEPT !.m_Registered = TRUE, !.m_SerialPortName = name].clients = base.clients
      BY DEF PortType
    <3> QED
      BY <3>1, <3>2
  <2>8. PICK port \in PortType: /\ handler' = [handler EXCEPT ![h] = port] /\ port.clients = Append(old.clients, x)
                                /\ port.m_Registered /\ ~port.open
    <3> DEFINE new == Added(old, x, type)
    <3>1. handler' = [handler EXCEPT ![h] = new]
      BY <2>1, <2>7
    <3>2. new \in PortType /\ new.clients = Append(old.clients, x) /\ new.m_Registered /\ ~new.open
      <4>1. new \in PortType /\ new.clients = Append(old.clients, x)
        BY <1>2, AddedFacts
      <4>2. new.m_Registered = old.m_Registered /\ new.open = old.open
        BY <1>2, AddedFacts
      <4> HIDE DEF new
      <4> QED
        BY <2>7, <4>1, <4>2
    <3> HIDE DEF new
    <3> QED
      BY <3>1, <3>2
  <2>9. PICK list \in Seq(Clients): list = old.clients
    BY DEF PortType
  <2>10. Lists' /\ Objects' /\ Used' /\ Listed(h, x)' /\ client'[x].exists
    <3>1. /\ port.open => port.m_Registered
          /\ port.clients = Append(list, x)
          /\ list = <<>>
      BY <2>7, <2>8, <2>9
    <3> QED
      BY <1>1, <1>3, <2>2, <2>6, <2>8, <3>1, EnteredStep
  <2>11. ObjectTypes'
    <3>1. handler' \in [Handlers -> PortType]
      BY <1>4, <2>8
    <3>2. m_SerialPortHandlerMap' \in [Names -> Handlers \cup {None}]
      BY <1>4, <2>1, <2>2
    <3> QED
      BY <1>1, <1>3, <3>1, <3>2 DEF CollectionInv, ObjectTypes
  <2>12. Justified(a)' /\ Justified(b)'
    <3>1. handler'[h].m_Registered
      BY <1>4, <2>2, <2>8
    <3>2. Justified(a)'
      BY <2>4, <3>1 DEF Justified, Querying, Stopping
    <3>3. client'[x].m_Registered /\ Stopper(x)' = None
      BY <1>1, <1>3 DEF SameLives
    <3> QED
      BY <2>3, <2>10, <3>2, <3>3 DEF Justified, Querying, Stopping
  <2>13. MayCall(a, b)
    BY <2>3, <2>4, AttachCalls
  <2> QED
    BY <1>1, <2>3, <2>4, <2>5, <2>10, <2>11, <2>12, <2>13, StartedWithTwo
<1> QED
  BY <1>5, <1>6

-----------------------------------------------------------------------------
(* The invariant holds, and with it the property.                          *)

(* At first there is nothing.                                              *)
LEMMA InitInv ==
  ASSUME Init
  PROVE  CollectionInv
<1>1. /\ client = [x \in Clients |-> NoClient] /\ handler = [h \in Handlers |-> NoHandler]
      /\ m_SerialPortHandlerMap = [n \in Names |-> None] /\ m_HdlcdServerHandlerList = {}
      /\ s_bCyclicCallGuard = FALSE /\ calls = <<>> /\ daemon = "running"
  BY DEF Init
<1>2. NoClient \in ClientType /\ ~NoClient.exists /\ ~NoClient.m_Registered /\ ~NoClient.m_bLockedBySelf
  BY DEF NoClient, ClientType, BufferTypes
<1>3. NoHandler \in PortType /\ NoHandler.clients = <<>> /\ ~NoHandler.open
  <2>1. NoSubscribers \in [BufferTypes -> Nat]
    BY DEF NoSubscribers
  <2>2. <<>> \in Seq(Clients)
    OBVIOUS
  <2> QED
    BY <2>1, <2>2 DEF NoHandler, PortType
<1>4. ObjectTypes
  BY <1>1, <1>2, <1>3 DEF ObjectTypes
<1>5. calls \in Seq(CallType) /\ Chain(calls) /\ Pending = {}
  BY <1>1, NoCalls DEF Pending
<1>6. /\ \A x \in Clients: ~client[x].exists /\ ~client[x].m_Registered /\ ~client[x].m_bLockedBySelf
      /\ \A h \in Handlers: handler[h].clients = <<>> /\ ~handler[h].open
  BY <1>1, <1>2, <1>3
<1>7. Lists /\ Objects
  <2>1. \A h \in Handlers: DOMAIN handler[h].clients = {}
    BY <1>6
  <2>2. \A x, h: h \in Handlers => ~Listed(h, x)
    BY <2>1 DEF Listed
  <2> QED
    BY <1>6, <2>1, <2>2 DEF Lists, Objects
<1>8. Stack /\ NobodyMissed
  BY <1>1, <1>5, <1>6 DEF Stack, Together, CallsJustified, GuardLocked, Used, NobodyMissed
<1> QED
  BY <1>1, <1>4, <1>5, <1>7, <1>8 DEF CollectionInv

(* A step that changes nothing.                                            *)
LEMMA StutterInv ==
  ASSUME CollectionInv, UNCHANGED vars
  PROVE  CollectionInv'
<1>1. UNCHANGED <<client, handler, m_SerialPortHandlerMap, m_HdlcdServerHandlerList, s_bCyclicCallGuard, calls, daemon>>
  BY DEF vars, objects, collections
<1>2. ObjectTypes' /\ Lists' /\ Objects'
  BY <1>1 DEF CollectionInv, ObjectTypes, Lists, Objects, Listed, Stopper
<1>3. NobodyMissed'
  BY <1>1 DEF CollectionInv, NobodyMissed, Complete, Pending, Listed
<1>4. ASSUME Stack
      PROVE  Stack'
  <2>1. Chain(calls)' /\ Together'
    BY <1>1, <1>4 DEF Stack, Together, Agree, Concerns, Sends, Pending, Stopper
  <2>2. CallsJustified'
    BY <1>1, <1>4 DEF Stack, CallsJustified, Justified, Pending, Listed, Stopper
  <2>3. GuardLocked' /\ Used'
    BY <1>1, <1>4 DEF Stack, GuardLocked, Used, InUse, Pending, Listed, Stopper
  <2> QED
    BY <2>1, <2>2, <2>3 DEF Stack
<1> QED
  BY <1>1, <1>2, <1>3, <1>4 DEF CollectionInv

(* A call goes on.                                                         *)
LEMMA ContinueInv ==
  ASSUME CollectionInv, Continue
  PROVE  CollectionInv'
<1>1. CASE VisitQuietly
  BY <1>1, VisitQuietlyInv
<1>2. CASE VisitToQuery
  BY <1>2, VisitToQueryInv
<1>3. CASE VisitToStop
  BY <1>3, VisitToStopInv
<1>4. CASE LeaveClient
  BY <1>4, LeaveClientInv
<1>5. CASE PassOutdated
  BY <1>5, PassOutdatedInv
<1>6. CASE EndForEach
  BY <1>6, EndForEachInv
<1>7. CASE BeginForEach
  BY <1>7, BeginForEachInv
<1>8. CASE OpenSerialPort
  BY <1>8, OpenSerialPortInv
<1>9. CASE ResumeSerialPort
  BY <1>9, ResumeSerialPortInv
<1>10. CASE StopHandler
  BY <1>10, StopHandlerInv
<1>11. CASE StopClient
  BY <1>11, StopClientInv
<1>12. CASE DestroyClient
  BY <1>12, DestroyClientInv
<1>13. CASE ReleaseStopper
  BY <1>13, ReleaseStopperInv
<1>14. CASE Attach
  BY <1>14, AttachInv
<1> QED
  BY <1>1, <1>2, <1>3, <1>4, <1>5, <1>6, <1>7, <1>8, <1>9, <1>10, <1>11, <1>12, <1>13, <1>14 DEF Continue

(* A handler starts.                                                       *)
LEMMA NextHandlerInv ==
  ASSUME CollectionInv, NextHandler
  PROVE  CollectionInv'
<1>1. CASE DoAccept
  BY <1>1, DoAcceptInv
<1>2. ASSUME NEW x \in Clients, OnClosed(x) \/ AcquireLock(x) \/ ReleaseLock(x)
      PROVE  CollectionInv'
  BY <1>2, OnClosedInv, AcquireLockInv, ReleaseLockInv
<1>3. ASSUME NEW x \in Clients, NEW name \in Names, NEW type \in Sessions, OnFrame(x, name, type)
      PROVE  CollectionInv'
  BY <1>3, OnFrameInv
<1>4. ASSUME NEW h \in Handlers, StopRequest(h) \/ StationCalls(h)
      PROVE  CollectionInv'
  BY <1>4, StopRequestInv, StationCallsInv
<1>5. CASE Signal
  BY <1>5, SignalInv
<1> QED
  BY <1>1, <1>2, <1>3, <1>4, <1>5 DEF NextHandler

(* The stack of calls is in order, and no iteration has missed anybody.    *)
THEOREM CollectionInvariance == Spec => []CollectionInv
<1>1. Init => CollectionInv
  BY InitInv
<1>2. CollectionInv /\ [Next]_vars => CollectionInv'
  BY ContinueInv, NextHandlerInv, ShutdownInv, StutterInv DEF Next
<1> QED
  BY <1>1, <1>2, PTL DEF Spec

(* Every iteration in progress has visited all clients that are still      *)
(* there, or has them ahead.                                               *)
LEMMA CompleteIsAhead ==
  ASSUME CollectionInv, NEW it \in Iterations
  PROVE  /\ it.next \in ToSet(handler[it.handler].clients) \cup {None}
         /\ LiveEntries(it.handler) \subseteq it.seen \cup AheadOf(it)
<1>1. it \in Pending /\ it.do = "ForEach"
  BY DEF Iterations, Pending, ToSet
<1>2. Complete(it)
  BY <1>1 DEF CollectionInv, NobodyMissed
<1>3. it \in CallType
  BY <1>1 DEF CollectionInv, Pending, ToSet
<1>4. PICK h \in Handlers: h = it.handler
  BY <1>1, <1>3, CallFacts
<1>5. PICK list \in Seq(Clients): /\ list = handler[h].clients
                                  /\ DOMAIN list = 1..Len(list) /\ Len(list) \in Nat
  BY ListFacts
<1>6. LiveEntries(it.handler) = {list[i]: i \in {i \in DOMAIN list: client[list[i]].exists}}
  BY <1>4, <1>5 DEF LiveEntries, ToSet
<1>7. CASE /\ it.next = None
           /\ \A i \in DOMAIN list: client[list[i]].exists => list[i] \in it.seen
  BY <1>6, <1>7
<1>8. ASSUME NEW n \in DOMAIN list, it.next = list[n],
             \A i \in 1..(n - 1): client[list[i]].exists => list[i] \in it.seen
      PROVE  /\ it.next \in ToSet(handler[it.handler].clients) \cup {None}
             /\ LiveEntries(it.handler) \subseteq it.seen \cup AheadOf(it)
  <2>1. it.next \in ToSet(handler[it.handler].clients)
    BY <1>4, <1>5, <1>8 DEF ToSet
  <2>2. ASSUME NEW i \in DOMAIN list, client[list[i]].exists
        PROVE  list[i] \in it.seen \cup AheadOf(it)
    <3>1. CASE i < n
      <4>1. i \in 1..(n - 1)
        BY <1>5, <3>1
      <4> QED
        BY <1>8, <2>2, <4>1
    <3>2. CASE ~(i < n)
      <4>1. n \in 1..i
        BY <1>5, <3>2
      <4>2. \E j \in 1..i: list[j] = it.next
        BY <1>8, <4>1
      <4>3. AheadOf(it) = {list[k]: k \in {k \in DOMAIN list: \E j \in 1..k: list[j] = it.next}}
        BY <1>4, <1>5 DEF AheadOf
      <4> QED
        BY <4>2, <4>3
    <3> QED
      BY <3>1, <3>2
  <2> QED
    BY <1>6, <2>1, <2>2
<1> QED
  BY <1>2, <1>4, <1>5, <1>7, <1>8 DEF Complete

(* Nobody is passed over, however deeply iterations are nested, and        *)
(* whatever they remove from the list.                                     *)
THEOREM NobodyPassedOver == Spec => []NobodyIsPassedOver
<1>1. CollectionInv => NobodyIsPassedOver
  BY CompleteIsAhead DEF NobodyIsPassedOver
<1> QED
  BY <1>1, CollectionInvariance, PTL
=============================================================================
