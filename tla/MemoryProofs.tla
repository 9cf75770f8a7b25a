---------------------------- MODULE MemoryProofs ----------------------------
(***************************************************************************)
(* Proofs about the memory interface, for all demands and queue sizes.     *)
(***************************************************************************)
EXTENDS MemoryProperties, SequenceTheorems, TLAPS
-----------------------------------------------------------------------------
(***************************************************************************)
(* Queues as sets: what their operations do to the set of their elements,  *)
(* and when they keep the elements distinct.                               *)
(***************************************************************************)
\* A sequence given as a function.
LEMMA FunctionIsSeq ==
  ASSUME NEW S, NEW n \in Nat, NEW f \in [1 .. n -> S]
  PROVE  f \in Seq(S) /\ Len(f) = n
<1>1. f \in Seq(S) BY SeqDef
<1>2. 1 .. Len(f) = 1 .. n /\ Len(f) \in Nat BY <1>1, LenProperties
<1> QED BY <1>1, <1>2

\* A line put at the end of a queue.
LEMMA AppendFacts ==
  ASSUME NEW S, NEW s \in Seq(S), NEW x \in S
  PROVE  /\ Append(s, x) \in Seq(S)
         /\ ToSet(Append(s, x)) = ToSet(s) \cup {x}
         /\ IsInjective(s) /\ x \notin ToSet(s) => IsInjective(Append(s, x))
<1>1. Append(s, x) \in Seq(S) /\ Len(Append(s, x)) = Len(s) + 1 OBVIOUS
<1>2. \A i \in 1 .. Len(s) : Append(s, x)[i] = s[i] OBVIOUS
<1>3. Append(s, x)[Len(s) + 1] = x OBVIOUS
<1>4. DOMAIN Append(s, x) = DOMAIN s \cup {Len(s) + 1} /\ DOMAIN s = 1 .. Len(s)
  BY <1>1
<1>5. ToSet(Append(s, x)) = ToSet(s) \cup {x}
  BY <1>2, <1>3, <1>4 DEF ToSet
<1>6. IsInjective(s) /\ x \notin ToSet(s) => IsInjective(Append(s, x))
  BY <1>2, <1>3, <1>4 DEF ToSet, IsInjective
<1> QED BY <1>1, <1>5, <1>6

\* A line taken from the front of a queue.
LEMMA TailFacts ==
  ASSUME NEW S, NEW s \in Seq(S), s # <<>>
  PROVE  /\ Head(s) \in S /\ Tail(s) \in Seq(S)
         /\ ToSet(s) = ToSet(Tail(s)) \cup {Head(s)}
         /\ IsInjective(s) => IsInjective(Tail(s)) /\ Head(s) \notin ToSet(Tail(s))
<1>1. Tail(s) \in Seq(S) /\ Len(s) > 0 /\ Len(Tail(s)) = Len(s) - 1 OBVIOUS
<1>2. \A i \in 1 .. Len(s) - 1 : Tail(s)[i] = s[i + 1] OBVIOUS
<1>3. Head(s) = s[1] /\ Head(s) \in S OBVIOUS
<1>4. DOMAIN s = 1 .. Len(s) /\ DOMAIN Tail(s) = 1 .. Len(s) - 1 BY <1>1
<1>5. \A i \in 2 .. Len(s) : i - 1 \in DOMAIN Tail(s) /\ Tail(s)[i - 1] = s[i]
  BY <1>1, <1>2, <1>4
<1>6. ToSet(s) = ToSet(Tail(s)) \cup {Head(s)}
  <2>1. ASSUME NEW x \in ToSet(s) PROVE x \in ToSet(Tail(s)) \cup {Head(s)}
    <3>1. PICK i \in DOMAIN s : s[i] = x BY <2>1 DEF ToSet
    <3>2. CASE i = 1 BY <3>1, <3>2, <1>3
    <3>3. CASE i # 1
      <4>1. i \in 2 .. Len(s) BY <3>1, <3>3, <1>1, <1>4
      <4> QED BY <4>1, <3>1, <1>5 DEF ToSet
    <3> QED BY <3>2, <3>3
  <2>2. ASSUME NEW x \in ToSet(Tail(s)) PROVE x \in ToSet(s)
    <3>1. PICK i \in DOMAIN Tail(s) : Tail(s)[i] = x BY <2>2 DEF ToSet
    <3>2. i + 1 \in DOMAIN s /\ s[i + 1] = x BY <3>1, <1>1, <1>2, <1>4
    <3> QED BY <3>2 DEF ToSet
  <2>3. Head(s) \in ToSet(s) BY <1>1, <1>3, <1>4 DEF ToSet
  <2> QED BY <2>1, <2>2, <2>3
<1>7. ASSUME IsInjective(s) PROVE IsInjective(Tail(s)) /\ Head(s) \notin ToSet(Tail(s))
  <2>1. \A i \in DOMAIN Tail(s) : i + 1 \in DOMAIN s /\ Tail(s)[i] = s[i + 1] /\ i + 1 # 1
    BY <1>1, <1>2, <1>4
  <2>2. ASSUME NEW a \in DOMAIN Tail(s), NEW b \in DOMAIN Tail(s), Tail(s)[a] = Tail(s)[b]
        PROVE  a = b
    <3>1. a + 1 = b + 1 BY <2>1, <2>2, <1>7 DEF IsInjective
    <3> QED BY <3>1, <1>4
  <2>3. 1 \in DOMAIN s BY <1>1, <1>4
  <2>4. Head(s) \notin ToSet(Tail(s)) BY <2>1, <2>3, <1>3, <1>7 DEF ToSet, IsInjective
  <2> QED BY <2>2, <2>4 DEF IsInjective
<1> QED BY <1>1, <1>3, <1>6, <1>7

\* The lines that came, put behind those that came before.
LEMMA ConcatFacts ==
  ASSUME NEW S, NEW s \in Seq(S), NEW t \in Seq(S)
  PROVE  /\ s \o t \in Seq(S)
         /\ ToSet(s \o t) = ToSet(s) \cup ToSet(t)
         /\ IsInjective(s) /\ IsInjective(t) /\ ToSet(s) \cap ToSet(t) = {}
              => IsInjective(s \o t)
<1>1. s \o t \in Seq(S) /\ Len(s \o t) = Len(s) + Len(t) OBVIOUS
<1>2. \A i \in 1 .. Len(s) : (s \o t)[i] = s[i] OBVIOUS
<1>3. \A i \in Len(s) + 1 .. Len(s) + Len(t) : (s \o t)[i] = t[i - Len(s)] OBVIOUS
<1>4. /\ DOMAIN s = 1 .. Len(s) /\ DOMAIN t = 1 .. Len(t)
      /\ DOMAIN (s \o t) = 1 .. Len(s) + Len(t)
      /\ Len(s) \in Nat /\ Len(t) \in Nat
  BY <1>1
<1>5. \A i \in DOMAIN (s \o t) :
         \/ i \in DOMAIN s /\ (s \o t)[i] = s[i]
         \/ i \notin DOMAIN s /\ i - Len(s) \in DOMAIN t /\ (s \o t)[i] = t[i - Len(s)]
  BY <1>2, <1>3, <1>4
<1>6. ToSet(s \o t) = ToSet(s) \cup ToSet(t)
  <2>1. ToSet(s \o t) \subseteq ToSet(s) \cup ToSet(t) BY <1>5 DEF ToSet
  <2>2. ToSet(s) \subseteq ToSet(s \o t) BY <1>2, <1>4 DEF ToSet
  <2>3. ASSUME NEW x \in ToSet(t) PROVE x \in ToSet(s \o t)
    <3>1. PICK i \in DOMAIN t : t[i] = x BY <2>3 DEF ToSet
    <3>2. i + Len(s) \in Len(s) + 1 .. Len(s) + Len(t) /\ (i + Len(s)) - Len(s) = i
      BY <3>1, <1>4
    <3>3. i + Len(s) \in DOMAIN (s \o t) BY <3>2, <1>4
    <3> QED BY <3>1, <3>2, <3>3, <1>3 DEF ToSet
  <2> QED BY <2>1, <2>2, <2>3
<1>7. ASSUME IsInjective(s), IsInjective(t), ToSet(s) \cap ToSet(t) = {}
      PROVE  IsInjective(s \o t)
  <2> SUFFICES ASSUME NEW a \in DOMAIN (s \o t), NEW b \in DOMAIN (s \o t),
                      (s \o t)[a] = (s \o t)[b]
               PROVE  a = b
    BY DEF IsInjective
  <2>1. CASE a \in DOMAIN s /\ b \in DOMAIN s
    BY <2>1, <1>2, <1>4, <1>7 DEF IsInjective
  <2>2. CASE a \in DOMAIN s /\ b \notin DOMAIN s
    BY <2>2, <1>5, <1>7 DEF ToSet
  <2>3. CASE a \notin DOMAIN s /\ b \in DOMAIN s
    BY <2>3, <1>5, <1>7 DEF ToSet
  <2>4. CASE a \notin DOMAIN s /\ b \notin DOMAIN s
    <3>1. a - Len(s) = b - Len(s) BY <2>4, <1>5, <1>7 DEF IsInjective
    <3> QED BY <3>1, <1>4
  <2> QED BY <2>1, <2>2, <2>3, <2>4
<1> QED BY <1>1, <1>6, <1>7
-----------------------------------------------------------------------------
\* A request as the buffers make it, in particular: a read has at least one line.
LEMMA NewReqFacts ==
  ASSUME NEW d \in Demands
  PROVE  /\ NewReq(d) \in Req
         /\ NewReq(d).id = d.id /\ NewReq(d).req_type = d.req_type
         /\ LinesOf(NewReq(d)) \in Seq(Nat) \ {<<>>}
<1>1. /\ d \in Demand
      /\ d.addrs = <<>> => d.len > 0
  BY DemandsAssumption
<1>2. /\ d.id \in Nat /\ d.req_type \in {"read", "write"} /\ d.addrs \in Seq(Nat)
      /\ d.start \in Nat /\ d.len \in Nat
  BY <1>1 DEF Demand
<1>3. \A a \in Nat : LineOf(a) \in Nat /\ a % 63 \in Nat
  BY DEF LineOf
<1>4. CASE d.addrs = <<>>
  <2> DEFINE count == (d.len + (d.start % 63) + 63) \div 64
  <2>1. NewReq(d) = [id |-> d.id, req_type |-> d.req_type, use_continue_addr |-> TRUE,
                     addr |-> [i \in DOMAIN d.addrs |-> LineOf(d.addrs[i])],
                     single_addr |-> LineOf(d.start), single_len |-> d.len + (d.start % 63)]
    BY <1>4 DEF NewReq, set_addr
  <2>2. [i \in DOMAIN d.addrs |-> LineOf(d.addrs[i])] \in Seq(Nat)
    <3>1. DOMAIN d.addrs = 1 .. 0 BY <1>2, <1>4, LenProperties
    <3>2. [i \in DOMAIN d.addrs |-> LineOf(d.addrs[i])] \in [1 .. 0 -> Nat] BY <3>1
    <3> QED BY <3>2, FunctionIsSeq
  <2>3. LineOf(d.start) \in Nat /\ d.start % 63 \in Nat /\ d.len + (d.start % 63) \in Nat
    <3>1. LineOf(d.start) \in Nat /\ d.start % 63 \in Nat BY <1>2, <1>3, Zenon
    <3> QED BY <3>1, <1>2
  <2>4. NewReq(d) \in Req BY <1>2, <2>1, <2>2, <2>3 DEF Req
  <2>5. count \in Nat /\ count >= 1
    <3>1. d.len + (d.start % 63) + 63 \in Nat /\ d.len + (d.start % 63) + 63 >= 64
      BY <1>1, <1>2, <1>4, <2>3
    <3>2. ASSUME NEW k \in Nat, k >= 64 PROVE k \div 64 \in Nat /\ k \div 64 >= 1
      BY <3>2
    <3> QED BY <3>1, <3>2
  <2>6. LinesOf(NewReq(d)) = [i \in 1 .. count |-> LineOf(d.start) + 64 * (i - 1)]
    BY <2>1 DEF LinesOf
  <2>7. \A i \in 1 .. count : LineOf(d.start) + 64 * (i - 1) \in Nat
    BY <2>3, <2>5
  <2>8. LinesOf(NewReq(d)) \in Seq(Nat) /\ Len(LinesOf(NewReq(d))) = count
    <3>1. LinesOf(NewReq(d)) \in [1 .. count -> Nat] BY <2>6, <2>7
    <3> HIDE DEF count
    <3> QED BY <3>1, <2>5, FunctionIsSeq
  <2> QED BY <2>1, <2>4, <2>5, <2>8
<1>5. CASE d.addrs # <<>>
  <2> DEFINE lines == [i \in DOMAIN d.addrs |-> LineOf(d.addrs[i])]
  <2>1. NewReq(d) = [id |-> d.id, req_type |-> d.req_type, use_continue_addr |-> FALSE,
                     addr |-> lines, single_addr |-> 0, single_len |-> 0]
    BY <1>5 DEF NewReq
  <2>2. DOMAIN d.addrs = 1 .. Len(d.addrs) /\ Len(d.addrs) \in Nat /\ Len(d.addrs) > 0
    BY <1>2, <1>5
  <2>3. \A i \in 1 .. Len(d.addrs) : LineOf(d.addrs[i]) \in Nat
    <3>1. \A i \in 1 .. Len(d.addrs) : d.addrs[i] \in Nat BY <1>2
    <3> QED BY <3>1, <1>3, Zenon
  <2>4. lines = [i \in 1 .. Len(d.addrs) |-> LineOf(d.addrs[i])] BY <2>2
  <2>5. lines \in Seq(Nat) /\ Len(lines) = Len(d.addrs)
    <3>1. lines \in [1 .. Len(d.addrs) -> Nat] BY <2>3, <2>4
    <3> HIDE DEF lines
    <3> QED BY <3>1, <2>2, FunctionIsSeq
  <2>6. LinesOf(NewReq(d)) = lines BY <2>1 DEF LinesOf
  <2> HIDE DEF lines
  <2>7. lines # <<>> BY <2>2, <2>5
  <2>8. NewReq(d) \in Req BY <1>2, <2>1, <2>5 DEF Req
  <2> QED BY <2>1, <2>5, <2>6, <2>7, <2>8
<1> QED BY <1>4, <1>5

\* Nothing is sent in the beginning.
LEMMA InitInv == Init => QueuesInvariant
<1> SUFFICES ASSUME Init PROVE QueuesInvariant OBVIOUS
<1> USE DEF Init
<1>1. TypeOK BY DEF TypeOK
<1>2. QueuedOnce /\ Queued BY DEF QueuedOnce, Queued
<1>3. Cutting /\ Pending BY DEF Cutting, Pending
<1>4. MapsAgree BY DEF MapsAgree, Turned
<1>5. EachAwaitedLineUnderWayOnce
  <2>1. ToSet(<<>>) = {} /\ IsInjective(<<>>) BY DEF ToSet, IsInjective
  <2> QED BY <2>1 DEF EachAwaitedLineUnderWayOnce, UnderWayOnce, LinesUnderWay
<1> QED BY <1>1, <1>2, <1>3, <1>4, <1>5 DEF QueuesInvariant

\* The parts of the invariant that a step leaves alone, by the variables they look at.
LEMMA QueuedUnchanged ==
  ASSUME QueuedOnce, Queued, UNCHANGED <<demanded, req_queue, task_return_queue, id_to_reqs_map>>
  PROVE  QueuedOnce' /\ Queued'
BY DEF QueuedOnce, Queued, LinesOf

\* Which requests are pending, by the variables that say so.
LEMMA PendingUnchanged ==
  ASSUME Pending, UNCHANGED <<demanded, task_return_queue, id_to_reqs_map>>
  PROVE  Pending'
BY DEF Pending

\* The agreement of the two maps looks at the maps only.
LEMMA MapsUnchanged ==
  ASSUME MapsAgree, UNCHANGED maps
  PROVE  MapsAgree'
BY DEF MapsAgree, maps

\* Where the awaited lines are, by the four places and the map of those who wait.
LEMMA UnderWayUnchanged ==
  ASSUME EachAwaitedLineUnderWayOnce,
         UNCHANGED <<out_send_queue, m_mem, response_queue, addr_to_req_map>>
  PROVE  EachAwaitedLineUnderWayOnce'
BY DEF EachAwaitedLineUnderWayOnce, UnderWayOnce, LinesUnderWay, IsAwaited, ToSet, IsInjective, m_mem

\* The ends of the loops change the phase only.
LEMMA PhaseInv ==
  ASSUME QueuesInvariant, StartCycle \/ DramDone \/ WriteWaits \/ RequestsDone \/ ResponsesDone
  PROVE  QueuesInvariant'
<1> USE DEF QueuesInvariant
<1>1. /\ UNCHANGED <<demanded, req_queue, next_line, out_send_queue, response_queue,
                     task_return_queue, maps, m_mem, transferred>>
      /\ phase' \in {"client", "dram", "requests", "responses", "to dram"}
      /\ phase = "requests" => req_queue = <<>> \/ FirstReq.req_type = "write"
      /\ phase' \in {"responses", "to dram"} =>
            \/ phase = "requests" /\ req_queue = <<>>
            \/ phase = "responses"
  BY DEF StartCycle, DramDone, WriteWaits, RequestsDone, ResponsesDone
<1>2. TypeOK' BY <1>1 DEF TypeOK, maps, m_mem
<1>3. QueuedOnce' /\ Queued' BY <1>1, QueuedUnchanged DEF maps
<1>4. Cutting' BY <1>1 DEF Cutting, FirstReq
<1>5. Pending' BY <1>1, PendingUnchanged DEF maps
<1>6. MapsAgree' BY <1>1, MapsUnchanged
<1>7. EachAwaitedLineUnderWayOnce' BY <1>1, UnderWayUnchanged DEF maps
<1> QED BY <1>2, <1>3, <1>4, <1>5, <1>6, <1>7

\* A request at the end of the queue: its id was not used before.
LEMMA SendInv ==
  ASSUME QueuesInvariant, NEW d \in Demands, send(d)
  PROVE  QueuesInvariant'
<1> USE DEF QueuesInvariant
<1> DEFINE req == NewReq(d)
<1>1. /\ req \in Req /\ req.id = d.id /\ req.req_type = d.req_type
      /\ LinesOf(req) \in Seq(Nat) \ {<<>>}
      /\ d.id \in Ids /\ d.id \notin demanded
      /\ d.req_type \in {"read", "write"}
  BY NewReqFacts, DemandsAssumption DEF send, Ids, Demand
<1> HIDE DEF req
<1>2. /\ req_queue \in Seq(Req)
      /\ req_queue' = Append(req_queue, req)
      /\ demanded' = demanded \cup {d.id}
      /\ id_to_reqs_map' = IF d.req_type = "read" THEN id_to_reqs_map \cup {d.id}
                                                  ELSE id_to_reqs_map
      /\ phase = "client" /\ UNCHANGED <<phase, next_line, task_return_queue>>
      /\ UNCHANGED <<out_send_queue, response_queue, addr_to_req_map, req_id_to_addr_map,
                     m_mem, transferred>>
  BY DEF send, TypeOK, req
<1>3. /\ DOMAIN req_queue = 1 .. Len(req_queue) /\ Len(req_queue) \in Nat
      /\ DOMAIN req_queue' = DOMAIN req_queue \cup {Len(req_queue) + 1}
      /\ \A i \in DOMAIN req_queue : req_queue'[i] = req_queue[i]
      /\ req_queue'[Len(req_queue) + 1] = req
      /\ req_queue' \in Seq(Req)
  BY <1>1, <1>2
<1>4. TypeOK' BY <1>1, <1>2, <1>3 DEF TypeOK, m_mem
<1>5. \A i \in DOMAIN req_queue : req_queue[i].id \in demanded /\ req_queue[i].id # d.id
  BY <1>1 DEF Queued
<1>6. QueuedOnce' BY <1>1, <1>3, <1>5 DEF QueuedOnce
<1>7. Queued'
  <2>1. ASSUME NEW i \in DOMAIN req_queue'
        PROVE  /\ req_queue'[i].id \in demanded' \ task_return_queue'
               /\ req_queue'[i].req_type = "read" <=> req_queue'[i].id \in id_to_reqs_map'
               /\ req_queue'[i].req_type = "read" =>
                     LinesOf(req_queue'[i]) \in Seq(Nat) \ {<<>>}
    <3>1. CASE i \in DOMAIN req_queue BY <3>1, <1>2, <1>3, <1>5 DEF Queued
    <3>2. CASE i = Len(req_queue) + 1
      BY <3>2, <1>1, <1>2, <1>3 DEF Pending
    <3> QED BY <3>1, <3>2, <1>3
  <2> QED BY <2>1 DEF Queued, LinesOf
<1>8. Cutting' BY <1>2 DEF Cutting
<1>9. Pending' BY <1>1, <1>2 DEF Pending
<1>10. MapsAgree' BY <1>2 DEF MapsAgree
<1>11. EachAwaitedLineUnderWayOnce' BY <1>2, UnderWayUnchanged
<1> QED BY <1>4, <1>6, <1>7, <1>8, <1>9, <1>10, <1>11

\* An answer that is taken.
LEMMA GetReqInv ==
  ASSUME QueuesInvariant, NEW id \in task_return_queue, get_req(id)
  PROVE  QueuesInvariant'
<1> USE DEF QueuesInvariant
<1>1. /\ task_return_queue' = task_return_queue \ {id}
      /\ UNCHANGED <<phase, demanded, req_queue, next_line, out_send_queue, response_queue,
                     maps, m_mem, transferred>>
  BY DEF get_req
<1>2. TypeOK' BY <1>1 DEF TypeOK, maps, m_mem
<1>3. QueuedOnce' /\ Queued' BY <1>1 DEF QueuedOnce, Queued, LinesOf, maps
<1>4. Cutting' /\ Pending' BY <1>1 DEF Cutting, Pending, FirstReq, LinesOf, maps
<1>5. MapsAgree' BY <1>1, MapsUnchanged
<1>6. EachAwaitedLineUnderWayOnce' BY <1>1, UnderWayUnchanged DEF maps
<1> QED BY <1>2, <1>3, <1>4, <1>5, <1>6

\* What all steps that move lines between the queues leave alone.
LEMMA LinesOnly ==
  ASSUME QueuesInvariant,
         UNCHANGED <<demanded, req_queue, next_line, task_return_queue, maps>>,
         phase' # phase => phase = "to dram" /\ phase' = "client"
  PROVE  QueuedOnce' /\ Queued' /\ Cutting' /\ Pending' /\ MapsAgree'
<1> USE DEF QueuesInvariant
<1>1. QueuedOnce' /\ Queued' BY QueuedUnchanged DEF maps
<1>2. Cutting' BY DEF Cutting, FirstReq, LinesOf
<1>3. Pending' BY PendingUnchanged DEF maps
<1>4. MapsAgree' BY MapsUnchanged
<1> QED BY <1>1, <1>2, <1>3, <1>4

\* A line moves from the DRAM to its answers.
LEMMA DramAnswersInv ==
  ASSUME QueuesInvariant, NEW line \in dram, DramAnswers(line)
  PROVE  QueuesInvariant'
<1> USE DEF QueuesInvariant
<1>1. /\ dram' = dram \ {line}
      /\ dram_return' = Append(dram_return, line)
      /\ UNCHANGED <<phase, demanded, req_queue, next_line, out_send_queue, response_queue,
                     task_return_queue, maps, transferred>>
  BY DEF DramAnswers
<1>2. dram_return \in Seq(Nat) /\ line \in Nat BY DEF TypeOK
<1>3. line \notin ToSet(dram_return) BY DEF EachAwaitedLineUnderWayOnce, UnderWayOnce
<1>4. /\ dram_return' \in Seq(Nat) /\ ToSet(dram_return') = ToSet(dram_return) \cup {line}
      /\ IsInjective(dram_return) => IsInjective(dram_return')
  BY <1>1, <1>2, <1>3, AppendFacts
<1>5. TypeOK' BY <1>1, <1>4 DEF TypeOK, maps
<1>6. EachAwaitedLineUnderWayOnce'
  <2>1. /\ ToSet(out_send_queue)' = ToSet(out_send_queue)
        /\ ToSet(response_queue)' = ToSet(response_queue)
        /\ ToSet(dram_return)' = ToSet(dram_return) \cup {line}
    BY <1>1, <1>4 DEF ToSet
  <2>2. LinesUnderWay' = LinesUnderWay BY <1>1, <2>1 DEF LinesUnderWay
  <2>3. UnderWayOnce'
    <3>1. /\ IsInjective(out_send_queue)' /\ IsInjective(response_queue)'
          /\ IsInjective(dram_return)'
      BY <1>1, <1>4 DEF EachAwaitedLineUnderWayOnce, UnderWayOnce, IsInjective
    <3> QED BY <1>1, <2>1, <3>1 DEF EachAwaitedLineUnderWayOnce, UnderWayOnce
  <2> QED BY <1>1, <2>2, <2>3 DEF EachAwaitedLineUnderWayOnce, IsAwaited, maps
<1>7. UNCHANGED <<demanded, req_queue, next_line, task_return_queue, maps>> /\ phase' = phase
  BY <1>1
<1>8. QueuedOnce' /\ Queued' /\ Cutting' /\ Pending' /\ MapsAgree' BY <1>7, LinesOnly
<1> QED BY <1>5, <1>6, <1>8

\* A line moves from out_send_queue to the DRAM.
LEMMA SendLineInv ==
  ASSUME QueuesInvariant, SendLine
  PROVE  QueuesInvariant'
<1> USE DEF QueuesInvariant
<1> DEFINE line == Head(out_send_queue)
<1>1. /\ out_send_queue # <<>>
      /\ dram' = dram \cup {line}
      /\ out_send_queue' = Tail(out_send_queue)
      /\ UNCHANGED <<phase, demanded, req_queue, next_line, response_queue,
                     task_return_queue, maps, dram_return, transferred>>
  BY DEF SendLine
<1>2. out_send_queue \in Seq(Nat) BY DEF TypeOK
<1>3. /\ line \in Nat /\ out_send_queue' \in Seq(Nat)
      /\ ToSet(out_send_queue) = ToSet(out_send_queue') \cup {line}
      /\ IsInjective(out_send_queue) =>
            IsInjective(out_send_queue') /\ line \notin ToSet(out_send_queue')
  BY <1>1, <1>2, TailFacts
<1> HIDE DEF line
<1>4. TypeOK' BY <1>1, <1>3 DEF TypeOK, maps
<1>5. EachAwaitedLineUnderWayOnce'
  <2>1. /\ ToSet(out_send_queue)' = ToSet(out_send_queue')
        /\ ToSet(response_queue)' = ToSet(response_queue)
        /\ ToSet(dram_return)' = ToSet(dram_return)
    BY <1>1 DEF ToSet
  <2>2. LinesUnderWay' = LinesUnderWay BY <1>1, <1>3, <2>1 DEF LinesUnderWay
  <2>3. UnderWayOnce'
    <3>1. /\ IsInjective(out_send_queue)' /\ IsInjective(response_queue)'
          /\ IsInjective(dram_return)' /\ line \notin ToSet(out_send_queue')
      BY <1>1, <1>3 DEF EachAwaitedLineUnderWayOnce, UnderWayOnce, IsInjective
    <3> QED BY <1>1, <1>3, <2>1, <3>1 DEF EachAwaitedLineUnderWayOnce, UnderWayOnce
  <2> QED BY <1>1, <2>2, <2>3 DEF EachAwaitedLineUnderWayOnce, IsAwaited, maps
<1>6. UNCHANGED <<demanded, req_queue, next_line, task_return_queue, maps>> /\ phase' = phase
  BY <1>1
<1>7. QueuedOnce' /\ Queued' /\ Cutting' /\ Pending' /\ MapsAgree' BY <1>6, LinesOnly
<1> QED BY <1>4, <1>5, <1>7

\* The lines that have come move to response_queue.
LEMMA EndCycleInv ==
  ASSUME QueuesInvariant, EndCycle
  PROVE  QueuesInvariant'
<1> USE DEF QueuesInvariant
<1>1. /\ response_queue' = response_queue \o dram_return
      /\ dram_return' = <<>>
      /\ phase = "to dram" /\ phase' = "client"
      /\ UNCHANGED <<demanded, req_queue, next_line, out_send_queue, task_return_queue,
                     maps, dram, transferred>>
  BY DEF EndCycle
<1>2. response_queue \in Seq(Nat) /\ dram_return \in Seq(Nat) BY DEF TypeOK
<1>3. UnderWayOnce BY DEF EachAwaitedLineUnderWayOnce
<1>4. /\ IsInjective(response_queue) /\ IsInjective(dram_return)
      /\ ToSet(response_queue) \cap ToSet(dram_return) = {}
  BY <1>3 DEF UnderWayOnce
<1>5. /\ response_queue' \in Seq(Nat)
      /\ ToSet(response_queue') = ToSet(response_queue) \cup ToSet(dram_return)
      /\ IsInjective(response_queue')
  <2>1. LET queue == response_queue \o dram_return
        IN  /\ queue \in Seq(Nat)
            /\ ToSet(queue) = ToSet(response_queue) \cup ToSet(dram_return)
            /\ IsInjective(queue)
    BY <1>2, <1>4, ConcatFacts
  <2> QED BY <2>1, <1>1
<1>6. /\ dram_return' \in Seq(Nat)
      /\ ToSet(dram_return') = {} /\ IsInjective(dram_return')
  <2>1. <<>> \in Seq(Nat) /\ ToSet(<<>>) = {} /\ IsInjective(<<>>)
    BY DEF ToSet, IsInjective
  <2> QED BY <2>1, <1>1
<1>7. TypeOK' BY <1>1, <1>5, <1>6 DEF TypeOK, maps
<1>8. EachAwaitedLineUnderWayOnce'
  <2>1. LinesUnderWay' = LinesUnderWay BY <1>1, <1>5, <1>6 DEF LinesUnderWay
  <2>2. UnderWayOnce'
    <3>1. UnderWayOnce' <=>
            /\ IsInjective(out_send_queue') /\ IsInjective(dram_return')
            /\ IsInjective(response_queue')
            /\ ToSet(out_send_queue') \cap
                  (dram' \cup ToSet(dram_return') \cup ToSet(response_queue')) = {}
            /\ dram' \cap (ToSet(dram_return') \cup ToSet(response_queue')) = {}
            /\ ToSet(dram_return') \cap ToSet(response_queue') = {}
      BY DEF UnderWayOnce
    <3> QED BY <1>1, <1>3, <1>5, <1>6, <3>1 DEF UnderWayOnce
  <2> QED BY <1>1, <2>1, <2>2 DEF EachAwaitedLineUnderWayOnce, IsAwaited, maps
<1>9. UNCHANGED <<demanded, req_queue, next_line, task_return_queue, maps>>
  BY <1>1
<1>10. QueuedOnce' /\ Queued' /\ Cutting' /\ Pending' /\ MapsAgree' BY <1>1, <1>9, LinesOnly
<1> QED BY <1>7, <1>8, <1>10
-----------------------------------------------------------------------------
\* What is left in req_queue when the request at its front is gone.
LEMMA QueueTail ==
  ASSUME TypeOK, QueuedOnce, req_queue # <<>>, req_queue' = Tail(req_queue)
  PROVE  /\ req_queue' \in Seq(Req) /\ QueuedOnce'
         /\ \A i \in DOMAIN req_queue' :
               /\ i + 1 \in DOMAIN req_queue /\ req_queue'[i] = req_queue[i + 1]
               /\ req_queue'[i].id # FirstReq.id
<1>1. req_queue \in Seq(Req) BY DEF TypeOK
<1>2. req_queue' \in Seq(Req) /\ Len(req_queue) > 0 /\ Len(req_queue') = Len(req_queue) - 1
  BY <1>1
<1>3. DOMAIN req_queue = 1 .. Len(req_queue) /\ DOMAIN req_queue' = 1 .. Len(req_queue) - 1
  BY <1>1, <1>2
<1>4. \A i \in 1 .. Len(req_queue) - 1 : req_queue'[i] = req_queue[i + 1] BY <1>1
<1>5. FirstReq = req_queue[1] /\ 1 \in DOMAIN req_queue BY <1>1, <1>2, <1>3 DEF FirstReq
<1>6. \A i \in DOMAIN req_queue' :
         i + 1 \in DOMAIN req_queue /\ req_queue'[i] = req_queue[i + 1] /\ i + 1 # 1
  BY <1>2, <1>3, <1>4
<1>7. \A i \in DOMAIN req_queue' : req_queue'[i].id # FirstReq.id
  BY <1>5, <1>6 DEF QueuedOnce
<1>8. ASSUME NEW i \in DOMAIN req_queue', NEW j \in DOMAIN req_queue',
             req_queue'[i].id = req_queue'[j].id
      PROVE  i = j
  <2>1. i + 1 = j + 1 BY <1>6, <1>8 DEF QueuedOnce
  <2> QED BY <2>1, <1>3
<1>9. QueuedOnce' BY <1>8 DEF QueuedOnce
<1> QED BY <1>2, <1>6, <1>7, <1>9

\* The request at the front, and the line of it that is next.
LEMMA FirstReqFacts ==
  ASSUME QueuesInvariant, req_queue # <<>>
  PROVE  /\ FirstReq \in Req /\ 1 \in DOMAIN req_queue /\ FirstReq = req_queue[1]
         /\ FirstReq.id \in demanded \ task_return_queue /\ FirstReq.id \in Ids
         /\ FirstReq.req_type = "read" <=> FirstReq.id \in id_to_reqs_map
         /\ FirstReq.req_type = "read" =>
               /\ LinesOf(FirstReq) \in Seq(Nat)
               /\ next_line \in 1 .. Len(LinesOf(FirstReq))
               /\ LinesOf(FirstReq)[next_line] \in Nat
<1> USE DEF QueuesInvariant
<1>1. req_queue \in Seq(Req) /\ next_line \in Nat \ {0} /\ demanded \subseteq Ids BY DEF TypeOK
<1>2. FirstReq \in Req /\ 1 \in DOMAIN req_queue /\ FirstReq = req_queue[1]
  BY <1>1 DEF FirstReq
<1>3. /\ FirstReq.id \in demanded \ task_return_queue
      /\ FirstReq.req_type = "read" <=> FirstReq.id \in id_to_reqs_map
      /\ FirstReq.req_type = "read" => LinesOf(FirstReq) \in Seq(Nat) \ {<<>>}
  BY <1>2 DEF Queued
<1>4. ASSUME FirstReq.req_type = "read"
      PROVE  /\ LinesOf(FirstReq) \in Seq(Nat)
             /\ next_line \in 1 .. Len(LinesOf(FirstReq))
             /\ LinesOf(FirstReq)[next_line] \in Nat
  <2> DEFINE lines == LinesOf(FirstReq)
  <2>1. lines \in Seq(Nat) \ {<<>>} /\ (next_line # 1 => next_line <= Len(lines))
    BY <1>3, <1>4 DEF Cutting
  <2> HIDE DEF lines
  <2>2. Len(lines) \in Nat /\ Len(lines) > 0 BY <2>1
  <2>3. next_line \in 1 .. Len(lines) BY <1>1, <2>1, <2>2
  <2>4. lines[next_line] \in Nat BY <2>1, <2>3
  <2> QED BY <2>1, <2>3, <2>4 DEF lines
<1> QED BY <1>1, <1>2, <1>3, <1>4

\* Two maps agree if they hold the same pairs, turned round.
LEMMA PairForm ==
  ASSUME NEW A \in SUBSET (Nat \X Ids), NEW R \in SUBSET (Ids \X Nat)
  PROVE  R = Turned(A) <=>
           \A id \in Ids, line \in Nat : <<line, id>> \in A <=> <<id, line>> \in R
<1> DEFINE T == Turned(A)
<1> USE DEF Turned
<1>1. \A id \in Ids, line \in Nat : <<id, line>> \in T <=> <<line, id>> \in A
  <2> TAKE id \in Ids, line \in Nat
  <2>1. ASSUME <<line, id>> \in A PROVE <<id, line>> \in T
    <3>1. <<line, id>>[1] = line /\ <<line, id>>[2] = id OBVIOUS
    <3> QED BY <2>1, <3>1
  <2>2. ASSUME <<id, line>> \in T PROVE <<line, id>> \in A
    <3>1. PICK pair \in A : <<id, line>> = <<pair[2], pair[1]>> BY <2>2
    <3>2. pair = <<pair[1], pair[2]>> BY <3>1
    <3> QED BY <3>1, <3>2
  <2> QED BY <2>1, <2>2
<1>2. T \subseteq Ids \X Nat OBVIOUS
<1> HIDE DEF T, Turned
<1>3. R = T <=> \A id \in Ids, line \in Nat : <<id, line>> \in R <=> <<id, line>> \in T
  BY <1>2
<1>4. R = T <=> \A id \in Ids, line \in Nat : <<line, id>> \in A <=> <<id, line>> \in R
  BY <1>1, <1>3
<1> QED BY <1>4 DEF T
-----------------------------------------------------------------------------
\* What set_addr() leaves of a request.
LEMMA SetAddrFacts ==
  ASSUME NEW req \in Req, NEW addr \in Nat, NEW len \in Nat
  PROVE  /\ set_addr(req, addr, len) \in Req
         /\ set_addr(req, addr, len).id = req.id
         /\ set_addr(req, addr, len).req_type = req.req_type
<1> DEFINE base == LineOf(addr)
           size == len + (addr % 63)
<1>1. base \in Nat /\ size \in Nat BY DEF LineOf
<1>2. set_addr(req, addr, len) = [req EXCEPT !.use_continue_addr = TRUE,
                                             !.single_addr = base, !.single_len = size]
  BY DEF set_addr
<1> HIDE DEF base, size
<1> QED BY <1>1, <1>2 DEF Req

\* A line of a read: it is queued unless it is under way already.
LEMMA SendReqsInv ==
  ASSUME QueuesInvariant, send_reqs
  PROVE  QueuesInvariant'
<1> USE DEF QueuesInvariant
<1> DEFINE lines == LinesOf(FirstReq)
           line  == lines[next_line]
           id    == FirstReq.id
<1>1. /\ phase = "requests" /\ req_queue # <<>> /\ FirstReq.req_type = "read"
      /\ out_send_queue' = IF IsAwaited(line) THEN out_send_queue
                                              ELSE Append(out_send_queue, line)
      /\ addr_to_req_map' = addr_to_req_map \cup {<<line, id>>}
      /\ req_id_to_addr_map' = req_id_to_addr_map \cup {<<id, line>>}
      /\ \/ next_line < Len(lines) /\ next_line' = next_line + 1 /\ UNCHANGED req_queue
         \/ next_line' = 1 /\ req_queue' = Tail(req_queue)
      /\ UNCHANGED <<phase, demanded, response_queue, task_return_queue, id_to_reqs_map,
                     dram, dram_return, transferred>>
  BY DEF send_reqs, m_mem
<1>2. /\ id \in demanded /\ id \in Ids /\ id \in id_to_reqs_map
      /\ lines \in Seq(Nat) /\ next_line \in 1 .. Len(lines) /\ line \in Nat
  BY <1>1, FirstReqFacts
<1> HIDE DEF line, id
<1>3. ASSUME next_line < Len(lines), next_line' = next_line + 1, UNCHANGED req_queue
      PROVE  QueuedOnce' /\ Queued' /\ Cutting' /\ req_queue' \in Seq(Req) /\ next_line' \in Nat \ {0}
  <2>1. QueuedOnce' /\ Queued' BY <1>1, <1>3, QueuedUnchanged
  <2>2. Cutting'
    <3>1. FirstReq' = FirstReq /\ LinesOf(FirstReq)' = LinesOf(FirstReq)
      BY <1>3 DEF FirstReq, LinesOf
    <3>2. next_line + 1 <= Len(lines) BY <1>2, <1>3
    <3> QED BY <1>1, <1>3, <3>1, <3>2 DEF Cutting
  <2>3. req_queue \in Seq(Req) /\ next_line \in Nat \ {0} BY DEF TypeOK
  <2>4. req_queue' \in Seq(Req) /\ next_line' \in Nat \ {0} BY <1>3, <2>3
  <2> QED BY <2>1, <2>2, <2>4
<1>4. ASSUME next_line' = 1, req_queue' = Tail(req_queue)
      PROVE  QueuedOnce' /\ Queued' /\ Cutting' /\ req_queue' \in Seq(Req) /\ next_line' \in Nat \ {0}
  <2>1. /\ req_queue' \in Seq(Req) /\ QueuedOnce'
        /\ \A i \in DOMAIN req_queue' :
              i + 1 \in DOMAIN req_queue /\ req_queue'[i] = req_queue[i + 1]
    BY <1>1, <1>4, QueueTail
  <2>2. Queued' BY <1>1, <2>1, ZenonT(30) DEF Queued, LinesOf
  <2>3. Cutting' BY <1>1, <1>4 DEF Cutting
  <2>4. next_line' \in Nat \ {0} BY <1>4
  <2> QED BY <2>1, <2>2, <2>3, <2>4
<1>5. QueuedOnce' /\ Queued' /\ Cutting' /\ req_queue' \in Seq(Req) /\ next_line' \in Nat \ {0}
  BY <1>1, <1>3, <1>4
<1>6. /\ out_send_queue' \in Seq(Nat)
      /\ ToSet(out_send_queue') = ToSet(out_send_queue) \cup
                                     (IF IsAwaited(line) THEN {} ELSE {line})
      /\ IsInjective(out_send_queue')
  <2>1. /\ out_send_queue \in Seq(Nat) /\ IsInjective(out_send_queue)
        /\ line \in ToSet(out_send_queue) => IsAwaited(line)
    BY DEF TypeOK, EachAwaitedLineUnderWayOnce, UnderWayOnce, LinesUnderWay
  <2>2. CASE IsAwaited(line) BY <1>1, <2>1, <2>2
  <2>3. CASE ~IsAwaited(line)
    <3>1. out_send_queue' = Append(out_send_queue, line) BY <1>1, <2>3
    <3>2. LET queue == Append(out_send_queue, line)
          IN  /\ queue \in Seq(Nat) /\ IsInjective(queue)
              /\ ToSet(queue) = ToSet(out_send_queue) \cup {line}
      BY <1>2, <2>1, <2>3, AppendFacts
    <3> QED BY <2>3, <3>1, <3>2
  <2> QED BY <2>2, <2>3
<1>7. TypeOK'
  <2>1. <<line, id>> \in Nat \X Ids /\ <<id, line>> \in Ids \X Nat BY <1>2
  <2>2. /\ addr_to_req_map' \subseteq Nat \X Ids
        /\ req_id_to_addr_map' \subseteq Ids \X Nat
    BY <1>1, <2>1 DEF TypeOK
  <2> QED BY <1>1, <1>5, <1>6, <2>2 DEF TypeOK
<1>8. Pending' BY <1>1, PendingUnchanged
<1>9. MapsAgree'
  <2>1. /\ addr_to_req_map \in SUBSET (Nat \X Ids) /\ req_id_to_addr_map \in SUBSET (Ids \X Nat)
        /\ addr_to_req_map' \in SUBSET (Nat \X Ids)
        /\ req_id_to_addr_map' \in SUBSET (Ids \X Nat)
    BY <1>7 DEF TypeOK
  <2>2. \A i \in Ids, a \in Nat : <<a, i>> \in addr_to_req_map <=> <<i, a>> \in req_id_to_addr_map
    BY <2>1, PairForm DEF MapsAgree
  <2>3. \A i \in Ids, a \in Nat :
           <<a, i>> \in addr_to_req_map' <=> <<i, a>> \in req_id_to_addr_map'
    BY <1>1, <2>2
  <2>4. req_id_to_addr_map' = Turned(addr_to_req_map')
    <3>1. \A A \in SUBSET (Nat \X Ids), R \in SUBSET (Ids \X Nat) :
             (\A i \in Ids, a \in Nat : <<a, i>> \in A <=> <<i, a>> \in R) => R = Turned(A)
      BY PairForm
    <3> QED BY <2>1, <2>3, <3>1
  <2>5. \A pair \in req_id_to_addr_map' : pair[1] \in id_to_reqs_map'
    BY <1>1, <1>2 DEF MapsAgree
  <2> QED BY <2>4, <2>5 DEF MapsAgree
<1>10. EachAwaitedLineUnderWayOnce'
  <2>1. \A a : IsAwaited(a)' <=> IsAwaited(a) \/ a = line
    <3>1. <<line, id>>[1] = line OBVIOUS
    <3> QED BY <1>1, <3>1 DEF IsAwaited
  <2>2. LinesUnderWay' = ToSet(out_send_queue') \cup dram' \cup ToSet(dram_return')
                            \cup ToSet(response_queue')
    BY DEF LinesUnderWay
  <2>3. LinesUnderWay' = LinesUnderWay \cup {line}
    <3>1. IsAwaited(line) => line \in LinesUnderWay
      BY DEF EachAwaitedLineUnderWayOnce, IsAwaited
    <3> QED BY <1>1, <1>6, <2>2, <3>1 DEF LinesUnderWay
  <2>4. \A a \in LinesUnderWay' : IsAwaited(a)'
    BY <2>1, <2>3 DEF EachAwaitedLineUnderWayOnce
  <2>5. \A pair \in addr_to_req_map' : pair[1] \in LinesUnderWay'
    <3>1. <<line, id>>[1] = line OBVIOUS
    <3> QED BY <1>1, <2>3, <3>1 DEF EachAwaitedLineUnderWayOnce
  <2>6. UnderWayOnce'
    <3>1. UnderWayOnce' <=>
            /\ IsInjective(out_send_queue') /\ IsInjective(dram_return')
            /\ IsInjective(response_queue')
            /\ ToSet(out_send_queue') \cap
                  (dram' \cup ToSet(dram_return') \cup ToSet(response_queue')) = {}
            /\ dram' \cap (ToSet(dram_return') \cup ToSet(response_queue')) = {}
            /\ ToSet(dram_return') \cap ToSet(response_queue') = {}
      BY DEF UnderWayOnce
    <3>2. ~IsAwaited(line) => line \notin LinesUnderWay
      BY DEF EachAwaitedLineUnderWayOnce
    <3> QED BY <1>1, <1>6, <3>1, <3>2 DEF EachAwaitedLineUnderWayOnce, UnderWayOnce, LinesUnderWay
  <2> QED BY <2>4, <2>5, <2>6 DEF EachAwaitedLineUnderWayOnce
<1> QED BY <1>5, <1>7, <1>8, <1>9, <1>10

\* A line of a write: the write stays at the front until its last line.
LEMMA SendWriteLineInv ==
  ASSUME QueuesInvariant, SendWriteLine
  PROVE  QueuesInvariant'
<1> USE DEF QueuesInvariant
<1> DEFINE id   == FirstReq.id
           rest == set_addr(FirstReq, FirstReq.single_addr + 64, FirstReq.single_len - 64)
<1>1. /\ phase = "requests" /\ req_queue # <<>> /\ FirstReq.req_type = "write"
      /\ transferred' = transferred \cup {<<id, FirstReq.single_addr>>}
      /\ \/ /\ task_return_queue' = task_return_queue \cup {id}
            /\ req_queue' = Tail(req_queue)
            /\ phase' = "client"
         \/ /\ FirstReq.single_len > 64
            /\ req_queue' = [req_queue EXCEPT ![1] = rest]
            /\ UNCHANGED <<task_return_queue, phase>>
      /\ UNCHANGED <<demanded, next_line, out_send_queue, response_queue, maps, m_mem>>
  <2>1. FirstReq \in Req BY FirstReqFacts DEF SendWriteLine
  <2>2. FirstReq.single_len \in Nat BY <2>1 DEF Req
  <2>3. FirstReq.single_len <= 64 \/ FirstReq.single_len > 64 BY <2>2
  <2> QED BY <2>3 DEF SendWriteLine
<1>2. /\ FirstReq \in Req /\ 1 \in DOMAIN req_queue /\ FirstReq = req_queue[1]
      /\ id \in demanded /\ id \in Ids /\ id \notin id_to_reqs_map
  BY <1>1, FirstReqFacts
<1>3. next_line = 1 BY <1>1 DEF Cutting
<1>4. EachAwaitedLineUnderWayOnce' /\ MapsAgree'
  BY <1>1, UnderWayUnchanged, MapsUnchanged DEF maps
<1>5. <<id, FirstReq.single_addr>> \in Ids \X Nat BY <1>2 DEF Req
<1>6. CASE /\ task_return_queue' = task_return_queue \cup {id}
           /\ req_queue' = Tail(req_queue)
           /\ phase' = "client"
  <2>1. /\ req_queue' \in Seq(Req) /\ QueuedOnce'
        /\ \A i \in DOMAIN req_queue' :
              /\ i + 1 \in DOMAIN req_queue /\ req_queue'[i] = req_queue[i + 1]
              /\ req_queue'[i].id # id
    BY <1>1, <1>6, QueueTail
  <2>2. TypeOK'
    <3>1. transferred' \subseteq Ids \X Nat BY <1>1, <1>5 DEF TypeOK
    <3>2. task_return_queue' \subseteq Ids BY <1>2, <1>6 DEF TypeOK
    <3> QED BY <1>1, <1>6, <2>1, <3>1, <3>2 DEF TypeOK, maps, m_mem
  <2>3. Queued'
    <3>1. ASSUME NEW i \in DOMAIN req_queue'
          PROVE  /\ req_queue'[i].id \in demanded' \ task_return_queue'
                 /\ req_queue'[i].req_type = "read" <=> req_queue'[i].id \in id_to_reqs_map'
                 /\ req_queue'[i].req_type = "read" =>
                       LinesOf(req_queue'[i]) \in Seq(Nat) \ {<<>>}
      BY <1>1, <1>6, <2>1 DEF Queued, maps
    <3> QED BY <3>1 DEF Queued, LinesOf
  <2>4. Cutting' BY <1>1, <1>3, <1>6 DEF Cutting
  <2>5. Pending' BY <1>1, <1>2, <1>6 DEF Pending, maps
  <2> QED BY <1>4, <2>1, <2>2, <2>3, <2>4, <2>5
<1>7. CASE /\ FirstReq.single_len > 64
           /\ req_queue' = [req_queue EXCEPT ![1] = rest]
           /\ UNCHANGED <<task_return_queue, phase>>
  <2>1. rest \in Req /\ rest.id = id /\ rest.req_type = "write"
    <3>1. FirstReq.single_addr + 64 \in Nat /\ FirstReq.single_len - 64 \in Nat
      BY <1>2, <1>7 DEF Req
    <3> DEFINE addr == FirstReq.single_addr + 64
               len  == FirstReq.single_len - 64
    <3>2. rest = set_addr(FirstReq, addr, len) OBVIOUS
    <3> HIDE DEF rest, addr, len
    <3>3. addr \in Nat /\ len \in Nat BY <3>1 DEF addr, len
    <3>4. rest \in Req /\ rest.id = FirstReq.id /\ rest.req_type = FirstReq.req_type
      BY <1>2, <3>2, <3>3, SetAddrFacts, ZenonT(30)
    <3> QED BY <1>1, <3>4
  <2> HIDE DEF rest
  <2>2. /\ req_queue \in Seq(Req) /\ req_queue' \in Seq(Req)
        /\ DOMAIN req_queue' = DOMAIN req_queue
        /\ req_queue'[1] = rest
        /\ \A i \in DOMAIN req_queue : i # 1 => req_queue'[i] = req_queue[i]
    <3>1. req_queue \in Seq(Req) BY DEF TypeOK
    <3>2. 1 \in 1 .. Len(req_queue) /\ DOMAIN req_queue = 1 .. Len(req_queue) BY <1>2, <3>1
    <3> QED BY <1>7, <2>1, <3>1, <3>2
  <2>3. /\ \A i \in DOMAIN req_queue : req_queue'[i].id = req_queue[i].id
        /\ \A i \in DOMAIN req_queue : req_queue'[i].req_type = req_queue[i].req_type
    BY <1>1, <1>2, <2>1, <2>2
  <2>4. TypeOK' BY <1>1, <1>5, <1>7, <2>2 DEF TypeOK, maps, m_mem
  <2>5. QueuedOnce' BY <2>2, <2>3 DEF QueuedOnce
  <2>6. Queued'
    <3>1. ASSUME NEW i \in DOMAIN req_queue', req_queue'[i].req_type = "read"
          PROVE  LinesOf(req_queue'[i]) \in Seq(Nat) \ {<<>>}
      <4>1. i # 1 BY <2>1, <2>2, <3>1
      <4> QED BY <4>1, <2>2, <3>1 DEF Queued
    <3>2. ASSUME NEW i \in DOMAIN req_queue'
          PROVE  /\ req_queue'[i].id \in demanded' \ task_return_queue'
                 /\ req_queue'[i].req_type = "read" <=> req_queue'[i].id \in id_to_reqs_map'
      BY <1>1, <1>7, <2>2, <2>3 DEF Queued, maps
    <3> QED BY <3>1, <3>2 DEF Queued, LinesOf
  <2>7. Cutting' BY <1>1, <1>3, <1>7 DEF Cutting
  <2>8. Pending' BY <1>1, <1>7, PendingUnchanged DEF maps
  <2> QED BY <1>4, <2>4, <2>5, <2>6, <2>7, <2>8
<1> QED BY <1>1, <1>6, <1>7
\* The pairs of a read and a line that comes, as single memberships.
LEMMA WaitingFacts ==
  ASSUME TypeOK, NEW line \in Nat
  PROVE  /\ Waiting(line) \subseteq Ids
         /\ \A id \in Ids : id \in Waiting(line) <=> <<line, id>> \in addr_to_req_map
<1>1. addr_to_req_map \subseteq Nat \X Ids BY DEF TypeOK
<1>2. Waiting(line) \subseteq Ids BY <1>1 DEF Waiting
<1>3. ASSUME NEW id \in Ids, id \in Waiting(line) PROVE <<line, id>> \in addr_to_req_map
  <2>1. PICK pair \in addr_to_req_map : pair[1] = line /\ pair[2] = id BY <1>3 DEF Waiting
  <2>2. pair = <<line, id>> BY <1>1, <2>1
  <2> QED BY <2>1, <2>2
<1>4. ASSUME NEW id \in Ids, <<line, id>> \in addr_to_req_map PROVE id \in Waiting(line)
  <2>1. <<line, id>>[1] = line /\ <<line, id>>[2] = id OBVIOUS
  <2> QED BY <1>4, <2>1 DEF Waiting
<1> QED BY <1>2, <1>3, <1>4

\* A line that came: it is no longer awaited, and the reads that are done no longer wait.
LEMMA HandleResponseInv ==
  ASSUME QueuesInvariant, HandleResponse
  PROVE  QueuesInvariant'
<1> USE DEF QueuesInvariant
<1> DEFINE line == Head(response_queue)
           done == Finished(line)
           gone == {<<id, line>> : id \in Waiting(line)}
<1>1. /\ phase = "responses" /\ response_queue # <<>>
      /\ response_queue' = Tail(response_queue)
      /\ task_return_queue' = task_return_queue \cup done
      /\ id_to_reqs_map' = id_to_reqs_map \ done
      /\ req_id_to_addr_map' = req_id_to_addr_map \ gone
      /\ addr_to_req_map' = {pair \in addr_to_req_map : pair[1] # line}
      /\ transferred' = transferred \cup gone
      /\ UNCHANGED <<phase, demanded, req_queue, next_line, out_send_queue, dram, dram_return>>
  BY DEF HandleResponse, m_mem
<1>2. response_queue \in Seq(Nat) /\ IsInjective(response_queue)
  BY DEF TypeOK, EachAwaitedLineUnderWayOnce, UnderWayOnce
<1>3. /\ line \in Nat /\ response_queue' \in Seq(Nat)
      /\ ToSet(response_queue) = ToSet(response_queue') \cup {line}
      /\ IsInjective(response_queue') /\ line \notin ToSet(response_queue')
  <2>1. LET rest == Tail(response_queue)
        IN  /\ line \in Nat /\ rest \in Seq(Nat)
            /\ ToSet(response_queue) = ToSet(rest) \cup {line}
            /\ IsInjective(rest) /\ line \notin ToSet(rest)
    BY <1>1, <1>2, TailFacts
  <2> QED BY <1>1, <2>1
<1> HIDE DEF line
<1>4. /\ Waiting(line) \subseteq Ids
      /\ \A id \in Ids : id \in Waiting(line) <=> <<line, id>> \in addr_to_req_map
  BY <1>3, WaitingFacts
<1>5. /\ \A i \in Ids, a \in Nat : <<i, a>> \in gone <=> a = line /\ i \in Waiting(line)
      /\ gone \subseteq Ids \X Nat
  <2>1. gone \subseteq Ids \X Nat BY <1>3, <1>4
  <2>2. ASSUME NEW i \in Ids, NEW a \in Nat, <<i, a>> \in gone
        PROVE  a = line /\ i \in Waiting(line)
    <3>1. PICK id \in Waiting(line) : <<i, a>> = <<id, line>> BY <2>2
    <3> QED BY <3>1
  <2>3. ASSUME NEW i \in Ids, i \in Waiting(line) PROVE <<i, line>> \in gone BY <2>3
  <2> QED BY <2>1, <2>2, <2>3
<1> HIDE DEF gone
<1>6. /\ \A i \in Ids, a \in Nat : <<a, i>> \in addr_to_req_map <=> <<i, a>> \in req_id_to_addr_map
      /\ addr_to_req_map \in SUBSET (Nat \X Ids) /\ req_id_to_addr_map \in SUBSET (Ids \X Nat)
  <2>1. addr_to_req_map \in SUBSET (Nat \X Ids) /\ req_id_to_addr_map \in SUBSET (Ids \X Nat)
    BY DEF TypeOK
  <2> QED BY <2>1, PairForm DEF MapsAgree
<1>7. /\ \A i \in Ids, a \in Nat : <<i, a>> \in req_id_to_addr_map => i \in id_to_reqs_map
      /\ done \subseteq Waiting(line) /\ done \subseteq id_to_reqs_map
      /\ \A i \in done, a \in Nat : <<i, a>> \in req_id_to_addr_map => a = line
  <2>1. ASSUME NEW i \in Ids, NEW a \in Nat, <<i, a>> \in req_id_to_addr_map
        PROVE  i \in id_to_reqs_map
    <3>1. <<i, a>>[1] = i OBVIOUS
    <3> QED BY <2>1, <3>1 DEF MapsAgree
  <2>2. done \subseteq Waiting(line) BY DEF Finished
  <2>3. done \subseteq id_to_reqs_map BY <1>3, <1>4, <1>6, <2>1, <2>2
  <2>4. ASSUME NEW i \in done, NEW a \in Nat, <<i, a>> \in req_id_to_addr_map PROVE a = line
    <3>1. <<i, a>>[1] = i /\ <<i, a>>[2] = a OBVIOUS
    <3> QED BY <2>4, <3>1 DEF Finished
  <2> QED BY <2>1, <2>2, <2>3, <2>4
<1> HIDE DEF done
<1>8. TypeOK'
  <2>1. task_return_queue' \subseteq Ids /\ id_to_reqs_map' \subseteq Ids
    BY <1>1, <1>4, <1>7 DEF TypeOK
  <2>2. /\ addr_to_req_map' \subseteq Nat \X Ids /\ req_id_to_addr_map' \subseteq Ids \X Nat
        /\ transferred' \subseteq Ids \X Nat
    BY <1>1, <1>5, <1>6 DEF TypeOK
  <2> QED BY <1>1, <1>3, <2>1, <2>2 DEF TypeOK
<1>9. QueuedOnce' /\ Queued' /\ Cutting'
  <2>1. req_queue' = <<>> BY <1>1 DEF Cutting
  <2>2. next_line' = 1 BY <1>1 DEF Cutting
  <2> QED BY <1>1, <2>1, <2>2 DEF QueuedOnce, Queued, Cutting
<1>10. Pending' BY <1>1, <1>7 DEF Pending
<1>11. \A i \in Ids, a \in Nat :
          /\ <<a, i>> \in addr_to_req_map' <=> <<a, i>> \in addr_to_req_map /\ a # line
          /\ <<i, a>> \in req_id_to_addr_map' <=> <<i, a>> \in req_id_to_addr_map /\ a # line
  <2> TAKE i \in Ids, a \in Nat
  <2>1. <<a, i>>[1] = a OBVIOUS
  <2>2. <<a, i>> \in addr_to_req_map' <=> <<a, i>> \in addr_to_req_map /\ a # line
    BY <1>1, <2>1
  <2>3. <<i, a>> \in req_id_to_addr_map' <=> <<i, a>> \in req_id_to_addr_map /\ a # line
    BY <1>1, <1>4, <1>5, <1>6
  <2> QED BY <2>2, <2>3
<1>12. MapsAgree'
  <2>1. /\ addr_to_req_map' \in SUBSET (Nat \X Ids)
        /\ req_id_to_addr_map' \in SUBSET (Ids \X Nat)
    BY <1>8 DEF TypeOK
  <2>2. \A i \in Ids, a \in Nat :
           <<a, i>> \in addr_to_req_map' <=> <<i, a>> \in req_id_to_addr_map'
    BY <1>6, <1>11
  <2>3. req_id_to_addr_map' = Turned(addr_to_req_map')
    <3>1. \A A \in SUBSET (Nat \X Ids), R \in SUBSET (Ids \X Nat) :
             (\A i \in Ids, a \in Nat : <<a, i>> \in A <=> <<i, a>> \in R) => R = Turned(A)
      BY PairForm
    <3> QED BY <2>1, <2>2, <3>1
  <2>4. ASSUME NEW pair \in req_id_to_addr_map' PROVE pair[1] \in id_to_reqs_map'
    <3>1. /\ pair[1] \in Ids /\ pair[2] \in Nat /\ pair = <<pair[1], pair[2]>>
      BY <2>1
    <3>2. <<pair[1], pair[2]>> \in req_id_to_addr_map /\ pair[2] # line
      BY <1>11, <2>4, <3>1
    <3>3. pair[1] \in id_to_reqs_map /\ pair[1] \notin done BY <1>7, <3>1, <3>2
    <3> QED BY <1>1, <3>3
  <2> QED BY <2>3, <2>4 DEF MapsAgree
<1>13. EachAwaitedLineUnderWayOnce'
  <2>1. \A a : IsAwaited(a)' <=> IsAwaited(a) /\ a # line
    BY <1>1 DEF IsAwaited
  <2>2. LinesUnderWay' = ToSet(out_send_queue') \cup dram' \cup ToSet(dram_return')
                            \cup ToSet(response_queue')
    BY DEF LinesUnderWay
  <2>3. LinesUnderWay' = LinesUnderWay \ {line}
    BY <1>1, <1>3, <2>2 DEF LinesUnderWay, EachAwaitedLineUnderWayOnce, UnderWayOnce
  <2>4. \A a \in LinesUnderWay' : IsAwaited(a)'
    BY <2>1, <2>3 DEF EachAwaitedLineUnderWayOnce
  <2>5. \A pair \in addr_to_req_map' : pair[1] \in LinesUnderWay'
    BY <1>1, <2>3 DEF EachAwaitedLineUnderWayOnce
  <2>6. UnderWayOnce'
    <3>1. UnderWayOnce' <=>
            /\ IsInjective(out_send_queue') /\ IsInjective(dram_return')
            /\ IsInjective(response_queue')
            /\ ToSet(out_send_queue') \cap
                  (dram' \cup ToSet(dram_return') \cup ToSet(response_queue')) = {}
            /\ dram' \cap (ToSet(dram_return') \cup ToSet(response_queue')) = {}
            /\ ToSet(dram_return') \cap ToSet(response_queue') = {}
      BY DEF UnderWayOnce
    <3> QED BY <1>1, <1>3, <3>1 DEF EachAwaitedLineUnderWayOnce, UnderWayOnce
  <2> QED BY <2>4, <2>5, <2>6 DEF EachAwaitedLineUnderWayOnce
<1> QED BY <1>8, <1>9, <1>10, <1>12, <1>13
-----------------------------------------------------------------------------
\* A step that changes nothing keeps the invariant.
LEMMA StutterInv ==
  ASSUME QueuesInvariant, UNCHANGED memory
  PROVE  QueuesInvariant'
<1> USE DEF QueuesInvariant
<1>1. UNCHANGED <<phase, demanded, req_queue, next_line, out_send_queue, response_queue,
                  task_return_queue, maps, m_mem, transferred>>
  BY DEF memory
<1>2. TypeOK' BY <1>1 DEF TypeOK, maps, m_mem
<1>3. EachAwaitedLineUnderWayOnce' BY <1>1, UnderWayUnchanged DEF maps
<1>4. QueuedOnce' /\ Queued' /\ Cutting' /\ Pending' /\ MapsAgree' BY <1>1, LinesOnly
<1> QED BY <1>2, <1>3, <1>4

\* Every step keeps the invariant.
LEMMA NextInv ==
  ASSUME QueuesInvariant, [Next]_memory
  PROVE  QueuesInvariant'
<1>1. ASSUME NEW d \in Demands, send(d) PROVE QueuesInvariant' BY <1>1, SendInv
<1>2. ASSUME NEW id \in task_return_queue, get_req(id) PROVE QueuesInvariant'
  BY <1>2, GetReqInv
<1>3. ASSUME NEW line \in dram, DramAnswers(line) PROVE QueuesInvariant'
  BY <1>3, DramAnswersInv
<1>4. CASE StartCycle \/ DramDone \/ WriteWaits \/ RequestsDone \/ ResponsesDone
  BY <1>4, PhaseInv
<1>5. CASE send_reqs BY <1>5, SendReqsInv
<1>6. CASE SendWriteLine BY <1>6, SendWriteLineInv
<1>7. CASE HandleResponse BY <1>7, HandleResponseInv
<1>8. CASE SendLine BY <1>8, SendLineInv
<1>9. CASE EndCycle BY <1>9, EndCycleInv
<1>10. CASE UNCHANGED memory BY <1>10, StutterInv
<1> QED BY <1>1, <1>2, <1>3, <1>4, <1>5, <1>6, <1>7, <1>8, <1>9, <1>10 DEF Next

(***************************************************************************)
(* memory_interface.cc:15-151: the invariant holds at all times, and with  *)
(* it its parts.                                                           *)
(***************************************************************************)
THEOREM QueuesInvariantHolds == Spec => []QueuesInvariant
<1>1. Init => QueuesInvariant BY InitInv
<1>2. QueuesInvariant /\ [Next]_memory => QueuesInvariant' BY NextInv
<1> QED BY <1>1, <1>2, PTL DEF Spec

\* The variables keep their types, the addresses and lengths that % 63 gives among them.
THEOREM MemoryTypeCorrect == Spec => []TypeOK
<1>1. QueuesInvariant => TypeOK BY DEF QueuesInvariant
<1> QED BY <1>1, QueuesInvariantHolds, PTL

(***************************************************************************)
(* memory_interface.cc:49-57: an awaited line is under way once, so that   *)
(* sharing neither fetches a line twice nor loses it.                      *)
(***************************************************************************)
THEOREM AwaitedLinesUnderWayOnce == Spec => []EachAwaitedLineUnderWayOnce
<1>1. QueuesInvariant => EachAwaitedLineUnderWayOnce BY DEF QueuesInvariant
<1> QED BY <1>1, QueuesInvariantHolds, PTL

(***************************************************************************)
(* memory_interface.h:41-65 and memory_interface.cc:124: the maps agree,   *)
(* and the look-up of a finished read finds it.                            *)
(***************************************************************************)
THEOREM MapsAlwaysAgree == Spec => []MapsAgree
<1>1. QueuesInvariant => MapsAgree BY DEF QueuesInvariant
<1> QED BY <1>1, QueuesInvariantHolds, PTL
-----------------------------------------------------------------------------
(***************************************************************************)
(* The interface implements the port.                                      *)
(***************************************************************************)
\* The ids of the requests in req_queue, by their places.
LEMMA QueuedPlaces ==
  ASSUME TypeOK
  PROVE  \A id : id \in QueuedIds <=> \E i \in DOMAIN req_queue : req_queue[i].id = id
BY DEF TypeOK, QueuedIds, ToSet

\* A request at the end of the queue, and the ids in it.
LEMMA SendQueued ==
  ASSUME TypeOK, NEW d \in Demands, send(d)
  PROVE  /\ DOMAIN req_queue' = DOMAIN req_queue \cup {Len(req_queue) + 1}
         /\ \A i \in DOMAIN req_queue : req_queue'[i] = req_queue[i]
         /\ req_queue'[Len(req_queue) + 1] = NewReq(d) /\ NewReq(d).id = d.id
         /\ QueuedIds' = QueuedIds \cup {d.id}
         /\ req_queue # <<>> => FirstReq' = FirstReq
<1> DEFINE req == NewReq(d)
<1>1. /\ req.id = d.id /\ req \in Req
      /\ req_queue' = Append(req_queue, req) /\ req_queue \in Seq(Req)
  BY NewReqFacts DEF send, TypeOK
<1> HIDE DEF req
<1>2. /\ DOMAIN req_queue' = DOMAIN req_queue \cup {Len(req_queue) + 1}
      /\ \A i \in DOMAIN req_queue : req_queue'[i] = req_queue[i]
      /\ req_queue'[Len(req_queue) + 1] = req
  BY <1>1
<1>3. \A id : id \in QueuedIds' <=> \E i \in DOMAIN req_queue' : req_queue'[i].id = id
  BY DEF QueuedIds, ToSet
<1>4. \A id : id \in QueuedIds' <=> id \in QueuedIds \/ id = d.id
  BY <1>1, <1>2, <1>3, QueuedPlaces
<1>5. req_queue # <<>> => FirstReq' = FirstReq BY <1>1 DEF FirstReq
<1> QED BY <1>1, <1>2, <1>4, <1>5 DEF req

\* The ids in the queue when the request at its front is gone.
LEMMA TailQueued ==
  ASSUME TypeOK, QueuedOnce, req_queue # <<>>, req_queue' = Tail(req_queue)
  PROVE  QueuedIds' = QueuedIds \ {FirstReq.id} /\ FirstReq.id \in QueuedIds
<1>1. req_queue \in Seq(Req) BY DEF TypeOK
<1>2. LET rest == Tail(req_queue)
      IN  ToSet(req_queue) = ToSet(rest) \cup {FirstReq}
  BY <1>1, TailFacts DEF FirstReq
<1>3. QueuedIds' = {req.id : req \in ToSet(Tail(req_queue))} BY DEF QueuedIds, ToSet
<1>4. QueuedIds = QueuedIds' \cup {FirstReq.id} BY <1>2, <1>3 DEF QueuedIds
<1>5. FirstReq.id \notin QueuedIds'
  <2>1. \A id : id \in QueuedIds' <=> \E i \in DOMAIN req_queue' : req_queue'[i].id = id
    BY DEF QueuedIds, ToSet
  <2>2. \A i \in DOMAIN req_queue' : req_queue'[i].id # FirstReq.id BY QueueTail
  <2> QED BY <2>1, <2>2
<1> QED BY <1>4, <1>5

\* What is pending was sent and is not answered, also what is still in req_queue.
LEMMA PendingFacts ==
  ASSUME QueuesInvariant
  PROVE  PendingIds \subseteq demanded \ task_return_queue
<1> USE DEF QueuesInvariant
<1>1. QueuedIds \subseteq demanded \ task_return_queue BY QueuedPlaces DEF Queued
<1>2. id_to_reqs_map \subseteq demanded \ task_return_queue BY DEF Pending
<1> QED BY <1>1, <1>2 DEF PendingIds

\* A request is sent to the port once.
LEMMA SendStep ==
  ASSUME QueuesInvariant, QueuesInvariant', NEW d \in Demands, send(d)
  PROVE  port!Send
<1> USE DEF QueuesInvariant
<1>1. /\ d.id \notin demanded
      /\ id_to_reqs_map' \in {id_to_reqs_map, id_to_reqs_map \cup {d.id}}
      /\ UNCHANGED task_return_queue
  BY DEF send
<1>4. QueuedIds' = QueuedIds \cup {d.id} BY SendQueued
<1>5. PendingIds' = PendingIds \cup {d.id} BY <1>1, <1>4 DEF PendingIds
<1>6. d.id \notin PendingIds \cup task_return_queue
  <2>1. task_return_queue \subseteq demanded BY DEF Pending
  <2> QED BY <1>1, <2>1, PendingFacts
<1> QED BY <1>1, <1>5, <1>6 DEF port!Send

\* The steps that leave the queue and the reads alone do not show at the port.
LEMMA PendingKept ==
  ASSUME UNCHANGED <<req_queue, id_to_reqs_map>>
  PROVE  UNCHANGED PendingIds
BY DEF PendingIds, QueuedIds, ToSet

\* A read that is cut stays pending, also when it leaves the queue.
LEMMA SendReqsStep ==
  ASSUME QueuesInvariant, QueuesInvariant', send_reqs
  PROVE  UNCHANGED <<PendingIds, task_return_queue>>
<1> USE DEF QueuesInvariant
<1>1. /\ req_queue # <<>> /\ FirstReq.req_type = "read"
      /\ UNCHANGED req_queue \/ req_queue' = Tail(req_queue)
      /\ UNCHANGED <<task_return_queue, id_to_reqs_map>>
  BY DEF send_reqs
<1>2. CASE UNCHANGED req_queue BY <1>1, <1>2, PendingKept
<1>3. CASE req_queue' = Tail(req_queue)
  <2>1. FirstReq.id \in id_to_reqs_map BY <1>1, FirstReqFacts
  <2>2. QueuedIds = QueuedIds' \cup {FirstReq.id} BY <1>1, <1>3, TailQueued
  <2> QED BY <1>1, <2>1, <2>2 DEF PendingIds
<1> QED BY <1>1, <1>2, <1>3

\* A write is finished with its last line.
LEMMA SendWriteLineStep ==
  ASSUME QueuesInvariant, QueuesInvariant', SendWriteLine
  PROVE  port!Finish \/ UNCHANGED <<PendingIds, task_return_queue>>
<1> USE DEF QueuesInvariant
<1> DEFINE id == FirstReq.id
           rest == set_addr(FirstReq, FirstReq.single_addr + 64, FirstReq.single_len - 64)
<1>1. /\ req_queue # <<>> /\ FirstReq.req_type = "write"
      /\ \/ /\ task_return_queue' = task_return_queue \cup {id}
            /\ req_queue' = Tail(req_queue)
         \/ /\ req_queue' = [req_queue EXCEPT ![1] = rest]
            /\ UNCHANGED task_return_queue
      /\ UNCHANGED id_to_reqs_map
  BY DEF SendWriteLine, maps
<1>2. /\ FirstReq \in Req /\ 1 \in DOMAIN req_queue /\ FirstReq = req_queue[1]
      /\ id \notin id_to_reqs_map
  BY <1>1, FirstReqFacts
<1>3. rest.id = id BY <1>2 DEF set_addr, Req
<1> HIDE DEF rest
<1>4. \A i : i \in QueuedIds' <=> \E k \in DOMAIN req_queue' : req_queue'[k].id = i
  BY DEF QueuedIds, ToSet
<1>5. ASSUME task_return_queue' = task_return_queue \cup {id}, req_queue' = Tail(req_queue)
      PROVE  port!Finish
  <2>1. id \in QueuedIds /\ QueuedIds' = QueuedIds \ {id} BY <1>1, <1>5, TailQueued
  <2>3. PendingIds' = PendingIds \ {id} /\ id \in PendingIds
    BY <1>1, <1>2, <2>1 DEF PendingIds
  <2> QED BY <1>5, <2>3 DEF port!Finish
<1>6. ASSUME req_queue' = [req_queue EXCEPT ![1] = rest], UNCHANGED task_return_queue
      PROVE  UNCHANGED <<PendingIds, task_return_queue>>
  <2>1. req_queue \in Seq(Req) BY DEF TypeOK
  <2>2. /\ DOMAIN req_queue' = DOMAIN req_queue
        /\ \A i \in DOMAIN req_queue : req_queue'[i].id = req_queue[i].id
    BY <1>2, <1>3, <1>6, <2>1
  <2>3. QueuedIds' = QueuedIds
    <3>1. \A i : i \in QueuedIds' <=> i \in QueuedIds BY <1>4, <2>2, QueuedPlaces
    <3> QED BY <3>1
  <2> QED BY <1>1, <1>6, <2>3 DEF PendingIds
<1> QED BY <1>1, <1>5, <1>6

\* All the reads that a line was the last of are finished together.
LEMMA HandleResponseStep ==
  ASSUME QueuesInvariant, QueuesInvariant', HandleResponse
  PROVE  port!Finish \/ UNCHANGED <<PendingIds, task_return_queue>>
<1> USE DEF QueuesInvariant
<1> DEFINE line == Head(response_queue)
           done == Finished(line)
<1>1. /\ phase = "responses" /\ response_queue # <<>>
      /\ task_return_queue' = task_return_queue \cup done
      /\ id_to_reqs_map' = id_to_reqs_map \ done
      /\ UNCHANGED req_queue
  BY DEF HandleResponse
<1>2. req_queue = <<>> BY <1>1 DEF Cutting
<1>3. PendingIds = id_to_reqs_map /\ PendingIds' = id_to_reqs_map'
  BY <1>1, <1>2 DEF PendingIds, QueuedIds, ToSet
<1>4. done \subseteq id_to_reqs_map
  <2>1. response_queue \in Seq(Nat) BY DEF TypeOK
  <2>2. line \in Nat BY <1>1, <2>1
  <2>3. done \subseteq Waiting(line) BY DEF Finished
  <2> HIDE DEF line, done
  <2>4. ASSUME NEW id \in done PROVE id \in id_to_reqs_map
    <3>1. id \in Ids /\ <<line, id>> \in addr_to_req_map BY <2>2, <2>3, WaitingFacts
    <3>2. <<id, line>> \in req_id_to_addr_map
      <4>1. <<line, id>>[1] = line /\ <<line, id>>[2] = id OBVIOUS
      <4> QED BY <3>1, <4>1 DEF MapsAgree, Turned
    <3>3. <<id, line>>[1] = id OBVIOUS
    <3> QED BY <3>2, <3>3 DEF MapsAgree
  <2> QED BY <2>4
<1> HIDE DEF done
<1>5. CASE done = {} BY <1>1, <1>3, <1>5
<1>6. CASE done # {}
  <2>1. PendingIds' \subseteq PendingIds /\ PendingIds' # PendingIds
    BY <1>1, <1>3, <1>4, <1>6
  <2>2. PendingIds \ PendingIds' = done BY <1>1, <1>3, <1>4
  <2> QED BY <1>1, <2>1, <2>2 DEF port!Finish
<1> QED BY <1>5, <1>6

\* Every step of the interface is a step of the port, or does not show there.
LEMMA PortStep ==
  ASSUME QueuesInvariant, QueuesInvariant', [Next]_memory
  PROVE  port!Next \/ UNCHANGED <<PendingIds, task_return_queue>>
<1>1. ASSUME NEW d \in Demands, send(d) PROVE port!Next BY <1>1, SendStep DEF port!Next
<1>2. ASSUME NEW id \in task_return_queue, get_req(id) PROVE port!Next
  <2>1. /\ task_return_queue' = task_return_queue \ {id}
        /\ UNCHANGED <<req_queue, id_to_reqs_map>>
    BY <1>2 DEF get_req, maps
  <2>2. UNCHANGED PendingIds BY <2>1, PendingKept
  <2> QED BY <2>1, <2>2 DEF port!Next, port!Take
<1>3. ASSUME \/ \E line \in dram : DramAnswers(line)
             \/ StartCycle \/ DramDone \/ WriteWaits \/ RequestsDone \/ ResponsesDone
             \/ SendLine \/ EndCycle \/ UNCHANGED memory
      PROVE  UNCHANGED <<PendingIds, task_return_queue>>
  <2>1. UNCHANGED <<req_queue, id_to_reqs_map, task_return_queue>>
    BY <1>3 DEF DramAnswers, StartCycle, DramDone, WriteWaits, RequestsDone, ResponsesDone,
                SendLine, EndCycle, memory, maps
  <2> QED BY <2>1, PendingKept
<1>4. CASE send_reqs BY <1>4, SendReqsStep
<1>5. CASE SendWriteLine BY <1>5, SendWriteLineStep DEF port!Next
<1>6. CASE HandleResponse BY <1>6, HandleResponseStep DEF port!Next
<1> QED BY <1>1, <1>2, <1>3, <1>4, <1>5, <1>6 DEF Next

(***************************************************************************)
(* memory_interface.cc:15-151: whatever requests share, each is finished   *)
(* once and answered once, as the buffers expect of the memory.            *)
(***************************************************************************)
THEOREM MemoryImplementsPort == Spec => ImplementsMemoryPort
<1>1. Init => port!Init
  BY DEF Init, port!Init, PendingIds, QueuedIds, ToSet
<1>2. QueuesInvariant /\ QueuesInvariant' /\ [Next]_memory
         => [port!Next]_<<PendingIds, task_return_queue>>
  BY PortStep
<1> QED BY <1>1, <1>2, QueuesInvariantHolds, PTL DEF Spec, ImplementsMemoryPort, port!Spec
-----------------------------------------------------------------------------
(***************************************************************************)
(* The lines of a read that are awaited and those that have come.          *)
(***************************************************************************)
\* Pairs of an id and a line, as the lines of each id.
LEMMA LinesOfPairs ==
  ASSUME NEW P \in SUBSET (Ids \X Nat), NEW id \in Ids
  PROVE  LET lines == {pair[2] : pair \in {p \in P : p[1] = id}}
         IN  lines \subseteq Nat /\ \A line \in Nat : line \in lines <=> <<id, line>> \in P
<1> DEFINE lines == {pair[2] : pair \in {p \in P : p[1] = id}}
<1>1. lines \subseteq Nat OBVIOUS
<1>2. ASSUME NEW line \in Nat, line \in lines PROVE <<id, line>> \in P
  <2>1. PICK pair \in P : pair[1] = id /\ pair[2] = line BY <1>2
  <2>2. pair = <<id, line>> BY <2>1
  <2> QED BY <2>1, <2>2
<1>3. ASSUME NEW line \in Nat, <<id, line>> \in P PROVE line \in lines
  <2>1. <<id, line>>[1] = id /\ <<id, line>>[2] = line OBVIOUS
  <2> QED BY <1>3, <2>1
<1> HIDE DEF lines
<1>4. lines \subseteq Nat /\ \A line \in Nat : line \in lines <=> <<id, line>> \in P
  BY <1>1, <1>2, <1>3
<1> QED BY <1>4 DEF lines

\* The lines of a read, by the maps and the history, before and after a step.
LEMMA AwaitedFacts ==
  ASSUME TypeOK
  PROVE  \A id \in Ids :
            /\ AwaitedLines(id) \subseteq Nat /\ TransferredLines(id) \subseteq Nat
            /\ \A line \in Nat :
                  /\ line \in AwaitedLines(id) <=> <<id, line>> \in req_id_to_addr_map
                  /\ line \in TransferredLines(id) <=> <<id, line>> \in transferred
<1> TAKE id \in Ids
<1>1. req_id_to_addr_map \in SUBSET (Ids \X Nat) /\ transferred \in SUBSET (Ids \X Nat)
  BY DEF TypeOK
<1>2. \A P \in SUBSET (Ids \X Nat) :
         LET lines == {pair[2] : pair \in {p \in P : p[1] = id}}
         IN  lines \subseteq Nat /\ \A line \in Nat : line \in lines <=> <<id, line>> \in P
  BY LinesOfPairs
<1>3. /\ AwaitedLines(id) \subseteq Nat
      /\ \A line \in Nat : line \in AwaitedLines(id) <=> <<id, line>> \in req_id_to_addr_map
  BY <1>1, <1>2 DEF AwaitedLines
<1>4. /\ TransferredLines(id) \subseteq Nat
      /\ \A line \in Nat : line \in TransferredLines(id) <=> <<id, line>> \in transferred
  BY <1>1, <1>2 DEF TransferredLines
<1> QED BY <1>3, <1>4

\* The same in the next state.
LEMMA AwaitedFactsNext ==
  ASSUME TypeOK'
  PROVE  \A id \in Ids :
            /\ AwaitedLines(id)' \subseteq Nat /\ TransferredLines(id)' \subseteq Nat
            /\ \A line \in Nat :
                  /\ line \in AwaitedLines(id)' <=> <<id, line>> \in req_id_to_addr_map'
                  /\ line \in TransferredLines(id)' <=> <<id, line>> \in transferred'
<1> TAKE id \in Ids
<1>1. req_id_to_addr_map' \in SUBSET (Ids \X Nat) /\ transferred' \in SUBSET (Ids \X Nat)
  BY DEF TypeOK
<1>2. \A P \in SUBSET (Ids \X Nat) :
         LET lines == {pair[2] : pair \in {p \in P : p[1] = id}}
         IN  lines \subseteq Nat /\ \A line \in Nat : line \in lines <=> <<id, line>> \in P
  BY LinesOfPairs
<1>3. /\ AwaitedLines(id)' \subseteq Nat
      /\ \A line \in Nat : line \in AwaitedLines(id)' <=> <<id, line>> \in req_id_to_addr_map'
  BY <1>1, <1>2 DEF AwaitedLines
<1>4. /\ TransferredLines(id)' \subseteq Nat
      /\ \A line \in Nat : line \in TransferredLines(id)' <=> <<id, line>> \in transferred'
  BY <1>1, <1>2 DEF TransferredLines
<1> QED BY <1>3, <1>4

\* The lines cut off a read: all of them, those before next_line, or none.
LEMMA CutOffFacts ==
  ASSUME NEW d \in Demands
  PROVE  /\ d.id \notin QueuedIds => CutOff(d) = ToSet(LinesOf(NewReq(d)))
         /\ d.id \in QueuedIds /\ FirstReq.id # d.id => CutOff(d) = {}
         /\ d.id \in QueuedIds /\ next_line = 1 => CutOff(d) = {}
         /\ d.id \in QueuedIds /\ FirstReq.id = d.id =>
               CutOff(d) = {LinesOf(NewReq(d))[k] : k \in 1 .. next_line - 1}
<1> DEFINE lines == LinesOf(NewReq(d))
<1>1. lines \in Seq(Nat) BY NewReqFacts
<1>2. ToSet(lines) = {lines[k] : k \in 1 .. Len(lines)} BY <1>1 DEF ToSet
<1>3. CutOff(d) = {lines[k] : k \in 1 .. IF d.id \notin QueuedIds THEN Len(lines)
                                         ELSE IF FirstReq.id = d.id THEN next_line - 1 ELSE 0}
  BY DEF CutOff
<1> HIDE DEF lines
<1>4. {lines[k] : k \in 1 .. 0} = {} OBVIOUS
<1>5. d.id \notin QueuedIds => CutOff(d) = ToSet(lines) BY <1>2, <1>3
<1>6. d.id \in QueuedIds /\ FirstReq.id # d.id => CutOff(d) = {} BY <1>3, <1>4
<1>7. d.id \in QueuedIds /\ FirstReq.id = d.id => CutOff(d) = {lines[k] : k \in 1 .. next_line - 1}
  BY <1>3
<1>8. d.id \in QueuedIds /\ next_line = 1 => CutOff(d) = {} BY <1>6, <1>7, <1>4
<1> QED BY <1>5, <1>6, <1>7, <1>8 DEF lines

\* The same in the next state.
LEMMA CutOffFactsNext ==
  ASSUME NEW d \in Demands
  PROVE  /\ d.id \notin QueuedIds' => CutOff(d)' = ToSet(LinesOf(NewReq(d)))
         /\ d.id \in QueuedIds' /\ FirstReq'.id # d.id => CutOff(d)' = {}
         /\ d.id \in QueuedIds' /\ next_line' = 1 => CutOff(d)' = {}
         /\ d.id \in QueuedIds' /\ FirstReq'.id = d.id =>
               CutOff(d)' = {LinesOf(NewReq(d))[k] : k \in 1 .. next_line' - 1}
<1> DEFINE lines == LinesOf(NewReq(d))
<1>1. lines \in Seq(Nat) BY NewReqFacts
<1>2. ToSet(lines) = {lines[k] : k \in 1 .. Len(lines)} BY <1>1 DEF ToSet
<1>3. CutOff(d)' = {lines[k] : k \in 1 .. IF d.id \notin QueuedIds' THEN Len(lines)
                                          ELSE IF FirstReq'.id = d.id THEN next_line' - 1 ELSE 0}
  BY DEF CutOff
<1> HIDE DEF lines
<1>4. {lines[k] : k \in 1 .. 0} = {} OBVIOUS
<1>5. d.id \notin QueuedIds' => CutOff(d)' = ToSet(lines) BY <1>2, <1>3
<1>6. d.id \in QueuedIds' /\ FirstReq'.id # d.id => CutOff(d)' = {} BY <1>3, <1>4
<1>7. d.id \in QueuedIds' /\ FirstReq'.id = d.id =>
         CutOff(d)' = {lines[k] : k \in 1 .. next_line' - 1}
  BY <1>3
<1>8. d.id \in QueuedIds' /\ next_line' = 1 => CutOff(d)' = {} BY <1>6, <1>7, <1>4
<1> QED BY <1>5, <1>6, <1>7, <1>8 DEF lines

\* Nothing is sent in the beginning.
LEMMA InitTransfers == Init => TransfersInvariant
BY DEF Init, TransfersInvariant, KeptDemands

\* The steps that neither cut a line off nor complete one.
LEMMA TransfersUnchanged ==
  ASSUME TransfersInvariant,
         UNCHANGED <<demanded, req_queue, next_line, id_to_reqs_map, req_id_to_addr_map,
                     transferred>>
  PROVE  TransfersInvariant'
<1>1. KeptDemands' BY DEF TransfersInvariant, KeptDemands, FromDemand
<1>2. ASSUME NEW d \in Demands, LinesAccounted(d) PROVE LinesAccounted(d)'
  <2>1. QueuedIds' = QueuedIds /\ FirstReq' = FirstReq BY DEF QueuedIds, FirstReq, ToSet
  <2>2. CutOff(d)' = CutOff(d) BY <2>1 DEF CutOff
  <2>3. AwaitedLines(d.id)' = AwaitedLines(d.id) /\ TransferredLines(d.id)' = TransferredLines(d.id)
    BY DEF AwaitedLines, TransferredLines
  <2> QED BY <1>2, <2>1, <2>2, <2>3 DEF LinesAccounted
<1>3. ASSUME NEW d \in Demands, WriteAccounted(d) PROVE WriteAccounted(d)'
  <2>1. QueuedIds' = QueuedIds /\ TransferredLines(d.id)' = TransferredLines(d.id)
    BY DEF QueuedIds, ToSet, TransferredLines
  <2> QED BY <1>3, <2>1 DEF WriteAccounted
<1> QED BY <1>1, <1>2, <1>3 DEF TransfersInvariant

\* A write of which no line goes keeps its account, wherever it is in the queue.
LEMMA WriteKept ==
  ASSUME NEW d \in Demands, WriteAccounted(d),
         id_to_reqs_map' \subseteq id_to_reqs_map \/ d.id \notin id_to_reqs_map',
         \A pair \in transferred' \ transferred : pair[1] # d.id,
         transferred \subseteq transferred',
         \A i \in DOMAIN req_queue' : req_queue'[i].id = d.id =>
            \E j \in DOMAIN req_queue : req_queue'[i] = req_queue[j],
         d.id \notin QueuedIds' => d.id \notin QueuedIds
  PROVE  WriteAccounted(d)'
<1>1. {p \in transferred' : p[1] = d.id} = {p \in transferred : p[1] = d.id} OBVIOUS
<1>2. TransferredLines(d.id)' = TransferredLines(d.id) BY <1>1 DEF TransferredLines
<1>3. ASSUME NEW i \in DOMAIN req_queue', req_queue'[i].id = d.id
      PROVE  Remains(req_queue'[i], d, TransferredLines(d.id))
  <2>1. PICK j \in DOMAIN req_queue : req_queue'[i] = req_queue[j] BY <1>3
  <2> QED BY <1>3, <2>1 DEF WriteAccounted
<1> QED BY <1>2, <1>3 DEF WriteAccounted

\* What a read's account says, by its parts.
LEMMA AccountAfter ==
  ASSUME TypeOK', NEW d \in Demands,
         \A line \in Nat :
            /\ line \in CutOff(d)' <=> \/ <<d.id, line>> \in req_id_to_addr_map'
                                       \/ <<d.id, line>> \in transferred'
            /\ ~ (<<d.id, line>> \in req_id_to_addr_map' /\ <<d.id, line>> \in transferred')
            /\ d.id \in QueuedIds' => <<d.id, line>> \notin transferred',
         CutOff(d)' \subseteq Nat,
         d.id \in id_to_reqs_map' \ QueuedIds' =>
            \E line \in Nat : <<d.id, line>> \in req_id_to_addr_map'
  PROVE  LinesAccounted(d)'
<1>1. d.id \in Ids BY DEF Ids
<1>2. /\ AwaitedLines(d.id)' \subseteq Nat /\ TransferredLines(d.id)' \subseteq Nat
      /\ \A line \in Nat :
            /\ line \in AwaitedLines(d.id)' <=> <<d.id, line>> \in req_id_to_addr_map'
            /\ line \in TransferredLines(d.id)' <=> <<d.id, line>> \in transferred'
  BY <1>1, AwaitedFactsNext
<1>3. AwaitedLines(d.id)' \cup TransferredLines(d.id)' = CutOff(d)' BY <1>2
<1>4. AwaitedLines(d.id)' \cap TransferredLines(d.id)' = {} BY <1>2
<1>5. d.id \in QueuedIds' => TransferredLines(d.id)' = {} BY <1>2
<1>6. d.id \in id_to_reqs_map' \ QueuedIds' => AwaitedLines(d.id)' # {} BY <1>2
<1> QED BY <1>3, <1>4, <1>5, <1>6 DEF LinesAccounted

\* What the account says before a step, line by line.
LEMMA AccountBefore ==
  ASSUME TypeOK, NEW d \in Demands, LinesAccounted(d)
  PROVE  /\ \A line \in Nat :
               /\ line \in CutOff(d) <=> \/ <<d.id, line>> \in req_id_to_addr_map
                                         \/ <<d.id, line>> \in transferred
               /\ ~ (<<d.id, line>> \in req_id_to_addr_map /\ <<d.id, line>> \in transferred)
               /\ d.id \in QueuedIds => <<d.id, line>> \notin transferred
         /\ CutOff(d) \subseteq Nat
         /\ d.id \in id_to_reqs_map \ QueuedIds =>
               \E line \in Nat : <<d.id, line>> \in req_id_to_addr_map
<1>1. d.id \in Ids BY DEF Ids
<1>2. /\ AwaitedLines(d.id) \subseteq Nat /\ TransferredLines(d.id) \subseteq Nat
      /\ \A line \in Nat :
            /\ line \in AwaitedLines(d.id) <=> <<d.id, line>> \in req_id_to_addr_map
            /\ line \in TransferredLines(d.id) <=> <<d.id, line>> \in transferred
  BY <1>1, AwaitedFacts
<1>3. /\ AwaitedLines(d.id) \cup TransferredLines(d.id) = CutOff(d)
      /\ AwaitedLines(d.id) \cap TransferredLines(d.id) = {}
      /\ d.id \in QueuedIds => TransferredLines(d.id) = {}
      /\ d.id \in id_to_reqs_map \ QueuedIds => AwaitedLines(d.id) # {}
  BY DEF LinesAccounted
<1>4. CutOff(d) \subseteq Nat BY <1>2, <1>3
<1>5. d.id \in id_to_reqs_map \ QueuedIds =>
         \E line \in Nat : <<d.id, line>> \in req_id_to_addr_map
  BY <1>2, <1>3
<1> QED BY <1>2, <1>3, <1>4, <1>5

\* A write of which nothing has gone yet.
LEMMA NewWriteRemains ==
  ASSUME NEW d \in Demands, d.req_type = "write"
  PROVE  Remains(NewReq(d), d, {})
<1>1. /\ d \in Demand /\ d.addrs = <<>>
  BY DemandsAssumption
<1>2. d.start \in Nat /\ d.len \in Nat BY <1>1 DEF Demand
<1>3. /\ NewReq(d).single_addr = LineOf(d.start)
      /\ NewReq(d).single_len = d.len + (d.start % 63)
  BY <1>1 DEF NewReq, set_addr
<1>4. LineOf(d.start) \in Nat /\ LineOf(d.start) % 64 = 0 /\ d.start % 63 \in Nat
  BY <1>2 DEF LineOf
<1> QED BY <1>2, <1>3, <1>4 DEF Remains

\* A line of a write that has gone: it is the first one or follows another.
LEMMA LineGone ==
  ASSUME NEW d \in Demands, NEW req \in Req, NEW lines \in SUBSET Nat, Remains(req, d, lines)
  PROVE  Consecutive(LineOf(d.start), lines \cup {req.single_addr})
<1> DEFINE first == LineOf(d.start)
<1>1. req.single_addr \in Nat BY DEF Req
<1>2. \/ lines = {} /\ req.single_addr = first
      \/ Consecutive(first, lines) /\ req.single_addr - 64 \in lines
  BY DEF Remains
<1> HIDE DEF first
<1>3. ASSUME lines = {}, req.single_addr = first
      PROVE  Consecutive(first, lines \cup {req.single_addr})
  BY <1>3 DEF Consecutive
<1>4. ASSUME Consecutive(first, lines), req.single_addr - 64 \in lines
      PROVE  Consecutive(first, lines \cup {req.single_addr})
  BY <1>4 DEF Consecutive
<1>5. Consecutive(first, lines \cup {req.single_addr}) BY <1>2, <1>3, <1>4
<1> QED BY <1>5 DEF first

\* With the line that holds the rest of a write there is room for all its bytes.
LEMMA LastLineGone ==
  ASSUME NEW d \in Demands, NEW req \in Req, NEW lines \in SUBSET Nat, Remains(req, d, lines),
         req.single_len <= 64
  PROVE  RoomFor(d, lines \cup {req.single_addr})
<1>1. Consecutive(LineOf(d.start), lines \cup {req.single_addr}) BY LineGone
<1>2. /\ req.single_addr \in Nat /\ req.single_len \in Nat
      /\ req.single_addr + req.single_len >= LineOf(d.start) + d.len
      /\ LineOf(d.start) \in Nat /\ d.len \in Nat
  <2>1. d.start \in Nat /\ d.len \in Nat BY DemandsAssumption DEF Demand
  <2>2. LineOf(d.start) \in Nat BY <2>1 DEF LineOf
  <2> QED BY <2>1, <2>2 DEF Remains, Req
<1>3. req.single_addr + 64 >= LineOf(d.start) + d.len BY <1>2
<1> QED BY <1>1, <1>3 DEF RoomFor

\* What set_addr() leaves of a write after another line has gone.
LEMMA RestRemains ==
  ASSUME NEW d \in Demands, NEW req \in Req, NEW lines \in SUBSET Nat, Remains(req, d, lines),
         req.single_len > 64
  PROVE  Remains(set_addr(req, req.single_addr + 64, req.single_len - 64), d,
                 lines \cup {req.single_addr})
<1> DEFINE rest == set_addr(req, req.single_addr + 64, req.single_len - 64)
           base == LineOf(d.start)
           more == (req.single_addr + 64) % 63
           line == LineOf(req.single_addr + 64)
<1>1. Consecutive(base, lines \cup {req.single_addr}) BY LineGone
<1>2. /\ req.single_addr \in Nat /\ req.single_len \in Nat /\ req.single_addr % 64 = 0
      /\ req.single_addr + req.single_len >= base + d.len
      /\ base \in Nat /\ d.len \in Nat
  <2>1. d.start \in Nat /\ d.len \in Nat BY DemandsAssumption DEF Demand
  <2>2. LineOf(d.start) \in Nat BY <2>1 DEF LineOf
  <2> QED BY <2>1, <2>2 DEF Remains, Req
<1>3. rest.single_addr = line /\ rest.single_len = req.single_len - 64 + more
  BY DEF set_addr, Req
<1>4. more \in Nat BY <1>2
<1>5. line = req.single_addr + 64 /\ line % 64 = 0 BY <1>2 DEF LineOf
<1> HIDE DEF rest, base, more, line
<1>6. rest.single_addr + rest.single_len >= base + d.len BY <1>2, <1>3, <1>4, <1>5
<1>7. rest.single_addr - 64 = req.single_addr BY <1>2, <1>3, <1>5
<1> QED BY <1>1, <1>3, <1>5, <1>6, <1>7 DEF Remains, rest, base

\* A request with a new id: nothing is cut off it yet, and nothing has come.
LEMMA SendTransfers ==
  ASSUME QueuesInvariant, QueuesInvariant', TransfersInvariant, NEW d \in Demands, send(d)
  PROVE  TransfersInvariant'
<1> USE DEF QueuesInvariant
<1>1. /\ d.id \notin demanded /\ demanded' = demanded \cup {d.id}
      /\ id_to_reqs_map' \subseteq id_to_reqs_map \cup {d.id}
      /\ UNCHANGED <<next_line, req_id_to_addr_map, transferred>>
      /\ next_line = 1
  BY DEF send, Cutting
<1>2. /\ DOMAIN req_queue' = DOMAIN req_queue \cup {Len(req_queue) + 1}
      /\ \A i \in DOMAIN req_queue : req_queue'[i] = req_queue[i]
      /\ req_queue'[Len(req_queue) + 1] = NewReq(d) /\ NewReq(d).id = d.id
      /\ QueuedIds' = QueuedIds \cup {d.id}
      /\ req_queue # <<>> => FirstReq' = FirstReq
  BY SendQueued
<1>3. KeptDemands'
  <2>1. ASSUME NEW i \in DOMAIN req_queue', NEW e \in Demands, req_queue'[i].id = e.id
        PROVE  FromDemand(req_queue'[i], e)
    <3>1. CASE i \in DOMAIN req_queue
      BY <1>2, <2>1, <3>1 DEF TransfersInvariant, KeptDemands
    <3>2. CASE i = Len(req_queue) + 1
      <4>1. e = d /\ req_queue'[i] = NewReq(d) BY <1>2, <2>1, <3>2, DemandsAssumption
      <4>2. NewReq(d).req_type = d.req_type BY NewReqFacts
      <4> QED BY <4>1, <4>2 DEF FromDemand
    <3> QED BY <1>2, <3>1, <3>2
  <2> QED BY <2>1 DEF KeptDemands, FromDemand
<1>4. \A pair \in transferred' : pair[1] \in demanded' BY <1>1 DEF TransfersInvariant
<1>5. \A id \in Ids, line \in Nat :
         \/ <<id, line>> \in req_id_to_addr_map
         \/ <<id, line>> \in transferred
         => id \in demanded
  <2> TAKE id \in Ids, line \in Nat
  <2>1. <<id, line>>[1] = id OBVIOUS
  <2> QED BY <2>1 DEF MapsAgree, Pending, TransfersInvariant
<1>6. ASSUME NEW e \in Demands, e.id \in demanded', e.req_type = "read"
      PROVE  LinesAccounted(e)'
  <2>1. e.id \in Ids BY DEF Ids
  <2>2. CASE e.id = d.id
    <3>1. e.id \in QueuedIds' BY <1>2, <2>2
    <3>2. CutOff(e)' = {} BY <1>1, <3>1, CutOffFactsNext
    <3>3. \A line \in Nat : <<e.id, line>> \notin req_id_to_addr_map' /\ <<e.id, line>> \notin transferred'
      BY <1>1, <1>5, <2>1, <2>2
    <3> QED BY <3>1, <3>2, <3>3, AccountAfter
  <2>3. CASE e.id # d.id
    <3>1. e.id \in demanded BY <1>1, <1>6, <2>3
    <3>2. LinesAccounted(e) BY <1>6, <3>1 DEF TransfersInvariant
    <3>3. e.id \in QueuedIds' <=> e.id \in QueuedIds BY <1>2, <2>3
    <3>4. CutOff(e)' = CutOff(e) BY <1>1, <3>3, CutOffFacts, CutOffFactsNext
    <3> QED BY <1>1, <2>3, <3>2, <3>3, <3>4, AccountBefore, AccountAfter
  <2> QED BY <2>2, <2>3
<1>7. ASSUME NEW e \in Demands, e.id \in demanded', e.req_type = "write"
      PROVE  WriteAccounted(e)'
  <2>1. CASE e.id = d.id
    <3>1. e = d BY <2>1, DemandsAssumption
    <3>2. d.id \notin id_to_reqs_map'
      BY <1>1, <1>7, <3>1 DEF send, Pending
    <3>3. TransferredLines(d.id)' = {}
      BY <1>1 DEF TransferredLines, TransfersInvariant
    <3>4. ASSUME NEW i \in DOMAIN req_queue', req_queue'[i].id = d.id
          PROVE  req_queue'[i] = NewReq(d)
      BY <1>1, <1>2, <3>4 DEF Queued
    <3>5. Remains(NewReq(d), d, {}) BY <1>7, <3>1, NewWriteRemains
    <3>6. d.id \in QueuedIds' BY <1>2
    <3> QED BY <3>1, <3>2, <3>3, <3>4, <3>5, <3>6 DEF WriteAccounted
  <2>2. CASE e.id # d.id
    <3>1. e.id \in demanded /\ WriteAccounted(e)
      BY <1>1, <1>7, <2>2 DEF TransfersInvariant
    <3>2. e.id \notin id_to_reqs_map' BY <1>1, <2>2, <3>1 DEF WriteAccounted
    <3>3. ASSUME NEW i \in DOMAIN req_queue', req_queue'[i].id = e.id
          PROVE  \E j \in DOMAIN req_queue : req_queue'[i] = req_queue[j]
      BY <1>2, <2>2, <3>3
    <3> QED BY <1>1, <1>2, <3>1, <3>2, <3>3, WriteKept
  <2> QED BY <2>1, <2>2
<1> QED BY <1>3, <1>4, <1>6, <1>7 DEF TransfersInvariant

\* A line that is cut off the read at the front, which is the demand it was made for.
LEMMA SendReqsTransfers ==
  ASSUME QueuesInvariant, QueuesInvariant', TransfersInvariant, send_reqs
  PROVE  TransfersInvariant'
<1> USE DEF QueuesInvariant
<1> DEFINE lines == LinesOf(FirstReq)
           line  == lines[next_line]
           id    == FirstReq.id
<1>1. /\ req_queue # <<>> /\ FirstReq.req_type = "read"
      /\ req_id_to_addr_map' = req_id_to_addr_map \cup {<<id, line>>}
      /\ \/ next_line < Len(lines) /\ next_line' = next_line + 1 /\ UNCHANGED req_queue
         \/ ~ (next_line < Len(lines)) /\ next_line' = 1 /\ req_queue' = Tail(req_queue)
      /\ UNCHANGED <<demanded, id_to_reqs_map, transferred>>
  BY DEF send_reqs
<1>2. /\ id \in demanded /\ id \in Ids /\ id \in id_to_reqs_map
      /\ 1 \in DOMAIN req_queue /\ FirstReq = req_queue[1]
      /\ lines \in Seq(Nat) /\ next_line \in 1 .. Len(lines) /\ line \in Nat
  BY <1>1, FirstReqFacts
<1>3. id \in QueuedIds BY <1>2, QueuedPlaces
<1>4. PICK d \in Demands : d.id = id BY <1>2 DEF Ids
<1>5. d.req_type = "read" /\ FirstReq = NewReq(d) /\ LinesAccounted(d)
  <2>1. FromDemand(FirstReq, d) BY <1>2, <1>4 DEF TransfersInvariant, KeptDemands
  <2>2. d.req_type = "read" /\ FirstReq = NewReq(d) BY <1>1, <2>1 DEF FromDemand
  <2> QED BY <1>2, <1>4, <2>2 DEF TransfersInvariant
<1>6. lines = LinesOf(NewReq(d)) BY <1>5
<1> HIDE DEF lines, line, id
<1>7. CutOff(d) = {lines[k] : k \in 1 .. next_line - 1}
  BY <1>3, <1>4, <1>6, CutOffFacts DEF id
<1>8. KeptDemands'
  <2>1. ASSUME NEW i \in DOMAIN req_queue', NEW e \in Demands, req_queue'[i].id = e.id
        PROVE  FromDemand(req_queue'[i], e)
    <3>1. \E j \in DOMAIN req_queue : req_queue'[i] = req_queue[j]
      <4>1. CASE UNCHANGED req_queue BY <2>1, <4>1
      <4>2. CASE req_queue' = Tail(req_queue) BY <1>1, <2>1, <4>2, QueueTail
      <4> QED BY <1>1, <4>1, <4>2
    <3> QED BY <2>1, <3>1 DEF TransfersInvariant, KeptDemands
  <2> QED BY <2>1 DEF KeptDemands, FromDemand
<1>9. \A pair \in transferred' : pair[1] \in demanded' BY <1>1 DEF TransfersInvariant
<1>10. \A i \in Ids, a \in Nat :
          <<i, a>> \in req_id_to_addr_map' <=> <<i, a>> \in req_id_to_addr_map \/ (i = id /\ a = line)
  BY <1>1
<1>11. ASSUME next_line < Len(lines), next_line' = next_line + 1, UNCHANGED req_queue
       PROVE  /\ QueuedIds' = QueuedIds /\ FirstReq' = FirstReq
              /\ CutOff(d)' = CutOff(d) \cup {line}
  <2>1. QueuedIds' = QueuedIds /\ FirstReq' = FirstReq BY <1>11 DEF QueuedIds, FirstReq, ToSet
  <2>2. CutOff(d)' = {lines[k] : k \in 1 .. next_line' - 1}
    BY <1>3, <1>4, <1>6, <2>1, CutOffFactsNext DEF id
  <2>3. 1 .. next_line' - 1 = (1 .. next_line - 1) \cup {next_line} BY <1>2, <1>11
  <2>4. CutOff(d)' = {lines[k] : k \in 1 .. next_line - 1} \cup {lines[next_line]}
    BY <2>2, <2>3
  <2> QED BY <1>7, <2>1, <2>4 DEF line
<1>12. ASSUME ~ (next_line < Len(lines)), next_line' = 1, req_queue' = Tail(req_queue)
       PROVE  /\ QueuedIds' = QueuedIds \ {id}
              /\ CutOff(d)' = CutOff(d) \cup {line}
  <2>1. QueuedIds' = QueuedIds \ {id} BY <1>1, <1>12, TailQueued DEF id
  <2>2. CutOff(d)' = ToSet(lines) BY <1>4, <1>6, <2>1, CutOffFactsNext
  <2>3. ToSet(lines) = {lines[k] : k \in 1 .. Len(lines)} BY <1>2 DEF ToSet
  <2>4. 1 .. Len(lines) = (1 .. next_line - 1) \cup {next_line} BY <1>2, <1>12
  <2>5. CutOff(d)' = {lines[k] : k \in 1 .. next_line - 1} \cup {lines[next_line]}
    BY <2>2, <2>3, <2>4
  <2> QED BY <1>7, <2>1, <2>5 DEF line
<1>13. CutOff(d)' = CutOff(d) \cup {line} /\ QueuedIds' \subseteq QueuedIds
  BY <1>1, <1>11, <1>12
<1>14. \A a \in Nat : <<id, a>> \notin transferred
  BY <1>3, <1>4, <1>5, AccountBefore
<1>15. LinesAccounted(d)'
  <2>1. /\ \A a \in Nat : a \in CutOff(d) <=> <<id, a>> \in req_id_to_addr_map
        /\ CutOff(d) \subseteq Nat
    BY <1>4, <1>5, <1>14, AccountBefore
  <2>2. \A a \in Nat : <<id, a>> \in req_id_to_addr_map' <=> a \in CutOff(d)'
    BY <1>2, <1>10, <1>13, <2>1
  <2>3. \A a \in Nat : <<id, a>> \notin transferred' BY <1>1, <1>14
  <2>4. CutOff(d)' \subseteq Nat BY <1>2, <1>13, <2>1
  <2>5. <<id, line>> \in req_id_to_addr_map' /\ line \in Nat BY <1>2, <1>10
  <2> QED BY <1>4, <2>2, <2>3, <2>4, <2>5, AccountAfter
<1>16. ASSUME NEW e \in Demands, e.id \in demanded', e.req_type = "read", e.id # id
       PROVE  LinesAccounted(e)'
  <2>1. e.id \in Ids BY DEF Ids
  <2>2. LinesAccounted(e) BY <1>1, <1>16 DEF TransfersInvariant
  <2>3. e.id \in QueuedIds' <=> e.id \in QueuedIds BY <1>1, <1>11, <1>12, <1>16
  <2>4. CutOff(e)' = CutOff(e)
    <3>1. CASE e.id \notin QueuedIds BY <2>3, <3>1, CutOffFacts, CutOffFactsNext
    <3>2. CASE e.id \in QueuedIds
      <4>1. CutOff(e) = {} BY <1>16, <3>2, CutOffFacts DEF id
      <4>2. next_line' = 1 \/ FirstReq'.id # e.id BY <1>1, <1>11, <1>16 DEF id
      <4>3. CutOff(e)' = {} BY <2>3, <3>2, <4>2, CutOffFactsNext
      <4> QED BY <4>1, <4>3
    <3> QED BY <3>1, <3>2
  <2>5. \A a \in Nat : <<e.id, a>> \in req_id_to_addr_map' <=> <<e.id, a>> \in req_id_to_addr_map
    BY <1>10, <1>16, <2>1
  <2> QED BY <1>1, <2>2, <2>3, <2>4, <2>5, AccountBefore, AccountAfter
<1>17. \A e \in Demands : e.id \in demanded' /\ e.req_type = "read" => LinesAccounted(e)'
  <2>1. ASSUME NEW e \in Demands, e.id = id PROVE e = d BY <1>4, <2>1, DemandsAssumption
  <2> QED BY <1>15, <1>16, <2>1
<1>18. ASSUME NEW e \in Demands, e.id \in demanded', e.req_type = "write"
       PROVE  WriteAccounted(e)'
  <2>1. WriteAccounted(e) BY <1>1, <1>18 DEF TransfersInvariant
  <2>2. e.id # id BY <1>2, <2>1 DEF WriteAccounted
  <2>3. e.id \notin QueuedIds' => e.id \notin QueuedIds BY <1>1, <1>11, <1>12, <2>2
  <2>4. ASSUME NEW i \in DOMAIN req_queue'
        PROVE  \E j \in DOMAIN req_queue : req_queue'[i] = req_queue[j]
    <3>1. CASE UNCHANGED req_queue BY <2>4, <3>1
    <3>2. CASE req_queue' = Tail(req_queue) BY <1>1, <2>4, <3>2, QueueTail
    <3> QED BY <1>1, <3>1, <3>2
  <2> QED BY <1>1, <2>1, <2>3, <2>4, WriteKept
<1> QED BY <1>8, <1>9, <1>17, <1>18 DEF TransfersInvariant

\* A line of a write: no read is concerned, and of the writes only this one.
LEMMA SendWriteLineTransfers ==
  ASSUME QueuesInvariant, QueuesInvariant', TransfersInvariant, SendWriteLine
  PROVE  TransfersInvariant'
<1> USE DEF QueuesInvariant
<1> DEFINE id   == FirstReq.id
           rest == set_addr(FirstReq, FirstReq.single_addr + 64, FirstReq.single_len - 64)
<1>1. /\ req_queue # <<>> /\ FirstReq.req_type = "write"
      /\ transferred' = transferred \cup {<<id, FirstReq.single_addr>>}
      /\ \/ FirstReq.single_len <= 64 /\ req_queue' = Tail(req_queue)
         \/ ~ (FirstReq.single_len <= 64) /\ req_queue' = [req_queue EXCEPT ![1] = rest]
      /\ UNCHANGED <<demanded, next_line, id_to_reqs_map, req_id_to_addr_map>>
  BY DEF SendWriteLine, maps
<1>2. /\ FirstReq \in Req /\ 1 \in DOMAIN req_queue /\ FirstReq = req_queue[1]
      /\ id \in demanded /\ id \in Ids
  BY <1>1, FirstReqFacts
<1>3. next_line = 1 BY <1>1 DEF Cutting
<1>4. rest.id = id /\ rest.req_type = "write" BY <1>1, <1>2 DEF set_addr, Req
<1> HIDE DEF rest
<1>5. \A e \in Demands : e.id = id => e.req_type = "write"
  BY <1>1, <1>2 DEF TransfersInvariant, KeptDemands, FromDemand
<1>6. ASSUME req_queue' = Tail(req_queue)
      PROVE  KeptDemands' /\ QueuedIds' = QueuedIds \ {id}
  <2>1. ASSUME NEW i \in DOMAIN req_queue', NEW e \in Demands, req_queue'[i].id = e.id
        PROVE  FromDemand(req_queue'[i], e)
    <3>1. i + 1 \in DOMAIN req_queue /\ req_queue'[i] = req_queue[i + 1]
      BY <1>1, <1>6, QueueTail
    <3> QED BY <2>1, <3>1 DEF TransfersInvariant, KeptDemands
  <2>2. KeptDemands' BY <2>1 DEF KeptDemands, FromDemand
  <2> QED BY <1>1, <1>6, <2>2, TailQueued
<1>7. ASSUME req_queue' = [req_queue EXCEPT ![1] = rest]
      PROVE  KeptDemands' /\ QueuedIds' = QueuedIds
  <2>1. req_queue \in Seq(Req) BY DEF TypeOK
  <2>2. /\ DOMAIN req_queue' = DOMAIN req_queue
        /\ \A i \in DOMAIN req_queue : i # 1 => req_queue'[i] = req_queue[i]
        /\ req_queue'[1] = rest
        /\ \A i \in DOMAIN req_queue : req_queue'[i].id = req_queue[i].id
    BY <1>2, <1>4, <1>7, <2>1
  <2>3. ASSUME NEW i \in DOMAIN req_queue', NEW e \in Demands, req_queue'[i].id = e.id
        PROVE  FromDemand(req_queue'[i], e)
    <3>1. CASE i = 1 BY <1>4, <1>5, <2>2, <2>3, <3>1 DEF FromDemand
    <3>2. CASE i # 1 BY <2>2, <2>3, <3>2 DEF TransfersInvariant, KeptDemands
    <3> QED BY <3>1, <3>2
  <2>4. KeptDemands' BY <2>3 DEF KeptDemands, FromDemand
  <2>5. \A i : i \in QueuedIds' <=> \E k \in DOMAIN req_queue' : req_queue'[k].id = i
    BY DEF QueuedIds, ToSet
  <2>6. QueuedIds' = QueuedIds
    <3>1. \A i : i \in QueuedIds' <=> i \in QueuedIds BY <2>2, <2>5, QueuedPlaces
    <3> QED BY <3>1
  <2> QED BY <2>4, <2>6
<1> HIDE DEF id
<1>8. \A pair \in transferred' : pair[1] \in demanded'
  <2>1. <<id, FirstReq.single_addr>>[1] = id OBVIOUS
  <2> QED BY <1>1, <1>2, <2>1 DEF TransfersInvariant
<1>9. ASSUME NEW e \in Demands, e.id \in demanded', e.req_type = "read"
      PROVE  LinesAccounted(e)'
  <2>1. e.id \in Ids /\ e.id # id BY <1>5, <1>9 DEF Ids
  <2>2. LinesAccounted(e) BY <1>1, <1>9 DEF TransfersInvariant
  <2>3. e.id \in QueuedIds' <=> e.id \in QueuedIds BY <1>1, <1>6, <1>7, <2>1
  <2>4. CutOff(e)' = CutOff(e) BY <1>1, <1>3, <2>3, CutOffFacts, CutOffFactsNext
  <2>5. \A a \in Nat : <<e.id, a>> \in transferred' <=> <<e.id, a>> \in transferred
    BY <1>1, <2>1
  <2> QED BY <1>1, <2>2, <2>3, <2>4, <2>5, AccountBefore, AccountAfter
<1>10. ASSUME NEW e \in Demands, e.id \in demanded', e.req_type = "write", e.id # id
       PROVE  WriteAccounted(e)'
  <2>1. WriteAccounted(e) BY <1>1, <1>10 DEF TransfersInvariant
  <2>2. e.id \notin QueuedIds' => e.id \notin QueuedIds BY <1>1, <1>6, <1>7, <1>10
  <2>3. \A pair \in transferred' \ transferred : pair[1] # e.id
    <3>1. <<id, FirstReq.single_addr>>[1] = id OBVIOUS
    <3> QED BY <1>1, <1>10, <3>1
  <2>4. ASSUME NEW i \in DOMAIN req_queue', req_queue'[i].id = e.id
        PROVE  \E j \in DOMAIN req_queue : req_queue'[i] = req_queue[j]
    <3>1. CASE req_queue' = Tail(req_queue) BY <1>1, <2>4, <3>1, QueueTail
    <3>2. CASE req_queue' = [req_queue EXCEPT ![1] = rest]
      <4>1. req_queue \in Seq(Req) BY DEF TypeOK
      <4>2. i \in DOMAIN req_queue /\ i # 1 BY <1>2, <1>4, <1>10, <2>4, <3>2, <4>1
      <4> QED BY <3>2, <4>1, <4>2
    <3> QED BY <1>1, <3>1, <3>2
  <2> QED BY <1>1, <2>1, <2>2, <2>3, <2>4, WriteKept
<1>11. ASSUME NEW d \in Demands, d.id = id PROVE WriteAccounted(d)'
  <2> DEFINE lines == TransferredLines(d.id)
             now   == lines \cup {FirstReq.single_addr}
  <2>1. WriteAccounted(d) BY <1>2, <1>5, <1>11 DEF TransfersInvariant
  <2>2. Remains(FirstReq, d, lines) BY <1>2, <1>11, <2>1 DEF WriteAccounted, id
  <2>0. d.id \in Ids BY DEF Ids
  <2>3. FirstReq.single_addr \in Nat BY <1>2 DEF Req
  <2>4. /\ lines \subseteq Nat
        /\ \A a \in Nat : a \in lines <=> <<d.id, a>> \in transferred
    BY <2>0, AwaitedFacts
  <2>5. TransferredLines(d.id)' = now
    <3>1. /\ TransferredLines(d.id)' \subseteq Nat
          /\ \A a \in Nat : a \in TransferredLines(d.id)' <=> <<d.id, a>> \in transferred'
      BY <2>0, AwaitedFactsNext
    <3>2. \A a \in Nat : <<d.id, a>> \in transferred' <=>
                           <<d.id, a>> \in transferred \/ a = FirstReq.single_addr
      BY <1>1, <1>11
    <3> QED BY <2>3, <2>4, <3>1, <3>2
  <2>6. d.id \notin id_to_reqs_map' BY <1>1, <2>1 DEF WriteAccounted
  <2> HIDE DEF lines, now
  <2>7. CASE FirstReq.single_len <= 64 /\ req_queue' = Tail(req_queue)
    <3>1. RoomFor(d, now) BY <1>2, <2>2, <2>4, <2>7, LastLineGone DEF now
    <3>2. \A i \in DOMAIN req_queue' : req_queue'[i].id # d.id
      BY <1>1, <1>11, <2>7, QueueTail DEF id
    <3> QED BY <1>11, <2>5, <2>6, <3>1, <3>2 DEF WriteAccounted
  <2>8. CASE ~ (FirstReq.single_len <= 64) /\ req_queue' = [req_queue EXCEPT ![1] = rest]
    <3>1. Remains(rest, d, now)
      <4>1. FirstReq.single_len > 64 BY <1>2, <2>8 DEF Req
      <4> QED BY <1>2, <2>2, <2>4, <4>1, RestRemains DEF now, rest
    <3>2. ASSUME NEW i \in DOMAIN req_queue', req_queue'[i].id = d.id
          PROVE  req_queue'[i] = rest
      <4>1. req_queue \in Seq(Req) BY DEF TypeOK
      <4>2. i = 1 BY <1>2, <1>11, <2>8, <3>2, <4>1 DEF QueuedOnce, id
      <4> QED BY <1>2, <2>8, <4>1, <4>2
    <3>3. d.id \in QueuedIds'
      <4>1. id \in QueuedIds BY <1>2, QueuedPlaces DEF id
      <4> QED BY <1>7, <1>11, <2>8, <4>1
    <3> QED BY <1>11, <2>5, <2>6, <3>1, <3>2, <3>3 DEF WriteAccounted
  <2> QED BY <1>1, <2>7, <2>8
<1>12. \A e \in Demands : e.id \in demanded' /\ e.req_type = "write" => WriteAccounted(e)'
  BY <1>10, <1>11
<1> QED BY <1>1, <1>6, <1>7, <1>8, <1>9, <1>12 DEF TransfersInvariant

\* A line that came: from now on it has come for all the reads that waited for it.
LEMMA HandleResponseTransfers ==
  ASSUME QueuesInvariant, QueuesInvariant', TransfersInvariant, HandleResponse
  PROVE  TransfersInvariant'
<1> USE DEF QueuesInvariant
<1> DEFINE line == Head(response_queue)
           done == Finished(line)
           gone == {<<id, line>> : id \in Waiting(line)}
<1>1. /\ phase = "responses" /\ response_queue # <<>>
      /\ id_to_reqs_map' = id_to_reqs_map \ done
      /\ req_id_to_addr_map' = req_id_to_addr_map \ gone
      /\ transferred' = transferred \cup gone
      /\ UNCHANGED <<demanded, req_queue, next_line>>
  BY DEF HandleResponse
<1>2. /\ req_queue = <<>> /\ QueuedIds = {} /\ QueuedIds' = {}
  <2>1. req_queue = <<>> BY <1>1 DEF Cutting
  <2> QED BY <1>1, <2>1 DEF QueuedIds, ToSet
<1>3. line \in Nat
  <2>1. response_queue \in Seq(Nat) BY DEF TypeOK
  <2> QED BY <1>1, <2>1
<1> HIDE DEF line
<1>4. /\ Waiting(line) \subseteq Ids
      /\ \A i \in Ids : i \in Waiting(line) <=> <<i, line>> \in req_id_to_addr_map
  <2>1. /\ Waiting(line) \subseteq Ids
        /\ \A i \in Ids : i \in Waiting(line) <=> <<line, i>> \in addr_to_req_map
    BY <1>3, WaitingFacts
  <2>2. addr_to_req_map \in SUBSET (Nat \X Ids) /\ req_id_to_addr_map \in SUBSET (Ids \X Nat)
    BY DEF TypeOK
  <2>3. \A i \in Ids, a \in Nat : <<a, i>> \in addr_to_req_map <=> <<i, a>> \in req_id_to_addr_map
    BY <2>2, PairForm DEF MapsAgree
  <2> QED BY <1>3, <2>1, <2>3
<1>5. \A i \in Ids, a \in Nat : <<i, a>> \in gone <=> a = line /\ <<i, line>> \in req_id_to_addr_map
  <2>1. ASSUME NEW i \in Ids, NEW a \in Nat, <<i, a>> \in gone
        PROVE  a = line /\ i \in Waiting(line)
    <3>1. PICK id \in Waiting(line) : <<i, a>> = <<id, line>> BY <2>1
    <3> QED BY <3>1
  <2>2. ASSUME NEW i \in Ids, i \in Waiting(line) PROVE <<i, line>> \in gone BY <2>2
  <2> QED BY <1>4, <2>1, <2>2
<1>6. \A pair \in gone : pair[1] \in Waiting(line)
  <2>1. \A id : <<id, line>>[1] = id OBVIOUS
  <2> QED BY <2>1
<1> HIDE DEF gone
<1>7. \A i \in Ids, a \in Nat :
         /\ <<i, a>> \in req_id_to_addr_map' <=> <<i, a>> \in req_id_to_addr_map /\ a # line
         /\ <<i, a>> \in transferred' <=>
               \/ <<i, a>> \in transferred
               \/ a = line /\ <<i, line>> \in req_id_to_addr_map
  BY <1>1, <1>5
<1>8. KeptDemands' BY <1>1, <1>2 DEF KeptDemands, FromDemand
<1>9. \A pair \in transferred' : pair[1] \in demanded'
  <2>1. Waiting(line) \subseteq demanded
    <3>1. ASSUME NEW i \in Waiting(line) PROVE i \in demanded
      <4>1. <<i, line>> \in req_id_to_addr_map BY <1>4
      <4>2. <<i, line>>[1] = i OBVIOUS
      <4> QED BY <4>1, <4>2 DEF MapsAgree, Pending
    <3> QED BY <3>1
  <2> QED BY <1>1, <1>6, <2>1 DEF TransfersInvariant
<1>10. ASSUME NEW e \in Demands, e.id \in demanded', e.req_type = "read"
       PROVE  LinesAccounted(e)'
  <2>1. e.id \in Ids BY DEF Ids
  <2>2. LinesAccounted(e) BY <1>1, <1>10 DEF TransfersInvariant
  <2>3. CutOff(e)' = CutOff(e) BY <1>2, CutOffFacts, CutOffFactsNext
  <2>4. e.id \in id_to_reqs_map' \ QueuedIds' =>
           \E a \in Nat : <<e.id, a>> \in req_id_to_addr_map'
    <3> SUFFICES ASSUME e.id \in id_to_reqs_map, e.id \notin done
                 PROVE  \E a \in Nat : <<e.id, a>> \in req_id_to_addr_map'
      BY <1>1
    <3>1. PICK b \in Nat : <<e.id, b>> \in req_id_to_addr_map BY <1>2, <2>2, AccountBefore
    <3>2. CASE b # line BY <1>7, <2>1, <3>1, <3>2
    <3>3. CASE b = line
      <4>1. e.id \in Waiting(line) BY <1>4, <2>1, <3>1, <3>3
      <4>2. PICK pair \in req_id_to_addr_map : pair[1] = e.id /\ pair[2] # line
        BY <4>1 DEF Finished
      <4>3. pair \in Ids \X Nat BY DEF TypeOK
      <4>4. pair = <<pair[1], pair[2]>> /\ pair[2] \in Nat BY <4>3
      <4>5. <<e.id, pair[2]>> \in req_id_to_addr_map BY <4>2, <4>4
      <4> QED BY <1>7, <2>1, <4>2, <4>4, <4>5
    <3> QED BY <3>2, <3>3
  <2> HIDE DEF done
  <2>5. /\ \A a \in Nat :
              /\ a \in CutOff(e)' <=> \/ <<e.id, a>> \in req_id_to_addr_map'
                                      \/ <<e.id, a>> \in transferred'
              /\ ~ (<<e.id, a>> \in req_id_to_addr_map' /\ <<e.id, a>> \in transferred')
        /\ CutOff(e)' \subseteq Nat
    BY <1>3, <1>7, <2>1, <2>2, <2>3, AccountBefore
  <2> QED BY <1>2, <2>4, <2>5, AccountAfter
<1>11. ASSUME NEW e \in Demands, e.id \in demanded', e.req_type = "write"
       PROVE  WriteAccounted(e)'
  <2>1. WriteAccounted(e) BY <1>1, <1>11 DEF TransfersInvariant
  <2>2. e.id \notin Waiting(line)
    <3>1. ASSUME e.id \in Waiting(line) PROVE e.id \in id_to_reqs_map
      <4>1. <<e.id, line>> \in req_id_to_addr_map BY <1>4, <3>1
      <4>2. <<e.id, line>>[1] = e.id OBVIOUS
      <4> QED BY <4>1, <4>2 DEF MapsAgree
    <3> QED BY <2>1, <3>1 DEF WriteAccounted
  <2>3. \A pair \in transferred' \ transferred : pair[1] # e.id BY <1>1, <1>6, <2>2
  <2> HIDE DEF done
  <2> QED BY <1>1, <1>2, <2>1, <2>3, WriteKept
<1> QED BY <1>8, <1>9, <1>10, <1>11 DEF TransfersInvariant

\* Every step keeps the account of the lines.
LEMMA NextTransfers ==
  ASSUME QueuesInvariant, QueuesInvariant', TransfersInvariant, [Next]_memory
  PROVE  TransfersInvariant'
<1>1. ASSUME NEW d \in Demands, send(d) PROVE TransfersInvariant' BY <1>1, SendTransfers
<1>2. ASSUME \/ \E id \in task_return_queue : get_req(id)
             \/ \E line \in dram : DramAnswers(line)
             \/ StartCycle \/ DramDone \/ WriteWaits \/ RequestsDone \/ ResponsesDone
             \/ SendLine \/ EndCycle \/ UNCHANGED memory
      PROVE  TransfersInvariant'
  <2>1. UNCHANGED <<demanded, req_queue, next_line, id_to_reqs_map, req_id_to_addr_map,
                    transferred>>
    BY <1>2 DEF get_req, DramAnswers, StartCycle, DramDone, WriteWaits, RequestsDone,
                ResponsesDone, SendLine, EndCycle, memory, maps
  <2> QED BY <2>1, TransfersUnchanged
<1>3. CASE send_reqs BY <1>3, SendReqsTransfers
<1>4. CASE SendWriteLine BY <1>4, SendWriteLineTransfers
<1>5. CASE HandleResponse BY <1>5, HandleResponseTransfers
<1> QED BY <1>1, <1>2, <1>3, <1>4, <1>5 DEF Next

(***************************************************************************)
(* memory_interface.cc:15-151: the invariant holds at all times, with the  *)
(* account of the lines of each read.                                      *)
(***************************************************************************)
THEOREM MemoryInvariantHolds == Spec => []MemoryIndInv
<1>1. Init => TransfersInvariant BY InitTransfers
<1>2. QueuesInvariant /\ QueuesInvariant' /\ TransfersInvariant /\ [Next]_memory
         => TransfersInvariant'
  BY NextTransfers
<1>3. QueuesInvariant /\ TransfersInvariant => MemoryIndInv BY DEF MemoryIndInv
<1> QED BY <1>1, <1>2, <1>3, QueuesInvariantHolds, PTL DEF Spec

\* With nothing awaited all lines have come; a read that is not done misses one.
LEMMA ReadsTransferred ==
  ASSUME MemoryIndInv, NEW id \in demanded, DemandOf(id).req_type = "read"
  PROVE  ~IsPending(id) <=> TransferredLines(id) = ToSet(LinesOf(NewReq(DemandOf(id))))
<1> USE DEF MemoryIndInv, QueuesInvariant
<1> DEFINE d == DemandOf(id)
           wanted == ToSet(LinesOf(NewReq(d)))
<1>1. d \in Demands /\ d.id = id
  <2>1. id \in Ids BY DEF TypeOK
  <2> QED BY <2>1 DEF Ids, DemandOf
<1>2. d.req_type = "read" OBVIOUS
<1> HIDE DEF d
<1>3. LinesAccounted(d) BY <1>1, <1>2 DEF TransfersInvariant
<1>4. /\ AwaitedLines(id) \cup TransferredLines(id) = CutOff(d)
      /\ AwaitedLines(id) \cap TransferredLines(id) = {}
      /\ id \in QueuedIds => TransferredLines(id) = {}
      /\ id \in id_to_reqs_map \ QueuedIds => AwaitedLines(id) # {}
  BY <1>1, <1>3 DEF LinesAccounted
<1>5. IsPending(id) <=> id \in id_to_reqs_map \/ id \in QueuedIds
  BY DEF IsPending, PendingIds
<1>6. id \notin QueuedIds => CutOff(d) = wanted BY <1>1, CutOffFacts
<1>7. wanted # {}
  <2>1. LinesOf(NewReq(d)) \in Seq(Nat) \ {<<>>} BY <1>1, NewReqFacts
  <2> DEFINE lines == LinesOf(NewReq(d))
  <2>2. lines \in Seq(Nat) /\ lines # <<>> BY <2>1
  <2> HIDE DEF lines
  <2>3. 1 \in DOMAIN lines BY <2>2
  <2>4. lines[1] \in ToSet(lines) BY <2>3 DEF ToSet
  <2> QED BY <2>4 DEF lines
<1> HIDE DEF wanted
<1>8. id \notin id_to_reqs_map => AwaitedLines(id) = {} BY DEF AwaitedLines, MapsAgree
<1>9. ~IsPending(id) <=> TransferredLines(id) = wanted
  <2>1. CASE id \in QueuedIds BY <1>4, <1>5, <1>7, <2>1
  <2>2. CASE id \notin QueuedIds /\ id \in id_to_reqs_map BY <1>4, <1>5, <1>6, <2>2
  <2>3. CASE id \notin QueuedIds /\ id \notin id_to_reqs_map
    BY <1>4, <1>5, <1>6, <1>8, <2>3
  <2> QED BY <2>1, <2>2, <2>3
<1> QED BY <1>9 DEF d, wanted

\* Once a write has left the queue, there is room for it in the lines that have gone.
LEMMA WritesTransferred ==
  ASSUME MemoryIndInv, NEW id \in demanded, DemandOf(id).req_type = "write", ~IsPending(id)
  PROVE  RoomFor(DemandOf(id), TransferredLines(id))
<1> USE DEF MemoryIndInv, QueuesInvariant
<1> DEFINE d == DemandOf(id)
<1>1. d \in Demands /\ d.id = id
  <2>1. id \in Ids BY DEF TypeOK
  <2> QED BY <2>1 DEF Ids, DemandOf
<1>2. WriteAccounted(d) BY <1>1 DEF TransfersInvariant
<1>3. id \notin QueuedIds BY DEF IsPending, PendingIds
<1> QED BY <1>1, <1>2, <1>3 DEF WriteAccounted

\* Both together are the property.
LEMMA AllTransferred == MemoryIndInv => DoneWhenTransferred
BY ReadsTransferred, WritesTransferred DEF DoneWhenTransferred

(***************************************************************************)
(* memory_interface.cc:61-129 and memory_interface.h:41-65 (the loops over *)
(* req_queue and response_queue, and receive_req()): a read is done        *)
(* exactly when each line it was cut into has come, also those fetched for *)
(* other reads; a write only when consecutive lines with room for all its  *)
(* bytes, from its first on, have gone.                                    *)
(***************************************************************************)
THEOREM RequestsDoneWhenTransferred == Spec => []DoneWhenTransferred
<1> QED BY AllTransferred, MemoryInvariantHolds, PTL
=============================================================================
