------------------------------ MODULE HubProofs ------------------------------
(***************************************************************************)
(* Proofs about Hub for any connections, sessions, tokens, updates and     *)
(* capacity of the channels.                                               *)
(*                                                                         *)
(* The argument.  A connection is in the hub's map exactly while its       *)
(* handler is past Register and its reader is not past Unregister.  Both   *)
(* need the write lock, so the connections that a broadcast has yet to     *)
(* come to stay in the map (InRoom), and a channel is closed only once its *)
(* connection has left it.  What a connection has been sent is about its   *)
(* session, once each (Sent).                                              *)
(*                                                                         *)
(* As long as its writer runs, a connection keeps what it got (Reached):   *)
(* so it suffices to look at the step that drops an update.  The channel   *)
(* then holds Capacity updates, which are all different.                   *)
(***************************************************************************)
EXTENDS HubHistory, FiniteSetTheorems, SequenceTheorems, TLAPS

\* The connections that a broadcast has yet to come to are in the map, and have
\* not been sent the update; those it began with have been registered.
InRoom ==
    \A u \in Updates :
        /\ \A c \in todo[u] :
              /\ stage[c] \in {"reading", "leaving"}
              /\ topic[u] = {token[c].session}
              /\ u \notin Elements(queue[c]) \union Elements(written[c])
        /\ \A c \in audience[u] : stage[c] \in {"reading", "leaving", "gone"}

ClosedAreGone == \A c \in closed : stage[c] = "gone"

Sent ==
    \A c \in Clients :
        /\ \A u \in Elements(queue[c]) \union Elements(written[c]) :
              topic[u] = {token[c].session}
        /\ IsInjective(queue[c])
        /\ IsInjective(written[c])
        /\ Elements(queue[c]) \intersect Elements(written[c]) = {}

IInv ==
    /\ TypeOK
    /\ RegistryExact
    /\ ClosedAreGone
    /\ InRoom
    /\ Sent

-----------------------------------------------------------------------------
(* Sequences.                                                              *)

\* A sequence gains one element at its end, and keeps the others.
LEMMA AppendElements ==
    ASSUME NEW S, NEW s \in Seq(S), NEW e \in S
    PROVE  /\ Append(s, e) \in Seq(S)
           /\ Len(Append(s, e)) = Len(s) + 1
           /\ Elements(Append(s, e)) = Elements(s) \union {e}
           /\ IsInjective(s) /\ e \notin Elements(s) => IsInjective(Append(s, e))
<1> DEFINE t == Append(s, e)
<1>1. /\ t \in Seq(S) /\ Len(t) = Len(s) + 1
      /\ \A i \in 1 .. Len(s) : t[i] = s[i]
      /\ t[Len(s) + 1] = e
  BY AppendProperties
<1>2. Len(s) \in Nat /\ DOMAIN s = 1 .. Len(s) /\ DOMAIN t = 1 .. Len(s) + 1
  BY <1>1
<1> HIDE DEF t
<1>3. Elements(t) = Elements(s) \union {e}
  <2>1. Elements(t) \subseteq Elements(s) \union {e}
    BY <1>1, <1>2 DEF Elements
  <2>2. Elements(s) \union {e} \subseteq Elements(t)
    BY <1>1, <1>2 DEF Elements
  <2>3. QED
    BY <2>1, <2>2
<1>4. IsInjective(s) /\ e \notin Elements(s) => IsInjective(t)
  BY <1>1, <1>2 DEF IsInjective, Elements
<1>5. QED
  BY <1>1, <1>3, <1>4 DEF t

\* A sequence without its head has lost just that element.
LEMMA TailElements ==
    ASSUME NEW S, NEW s \in Seq(S), s # <<>>
    PROVE  /\ Tail(s) \in Seq(S)
           /\ Head(s) \in S
           /\ Len(Tail(s)) = Len(s) - 1
           /\ Elements(s) = Elements(Tail(s)) \union {Head(s)}
           /\ IsInjective(s) => IsInjective(Tail(s)) /\ Head(s) \notin Elements(Tail(s))
<1> DEFINE t == Tail(s)
<1>1. /\ Head(s) \in S /\ Head(s) = s[1] /\ t \in Seq(S) /\ Len(t) = Len(s) - 1
      /\ \A i \in 1 .. Len(t) : t[i] = s[i + 1]
  BY HeadTailProperties
<1>2. Len(s) \in Nat \ {0} /\ DOMAIN s = 1 .. Len(s) /\ DOMAIN t = 1 .. Len(s) - 1
  BY <1>1, EmptySeq
<1> HIDE DEF t
<1>3. Elements(s) = Elements(t) \union {s[1]}
  <2>1. Elements(t) \union {s[1]} \subseteq Elements(s)
    BY <1>1, <1>2 DEF Elements
  <2>2. ASSUME NEW n \in 1 .. Len(s) PROVE s[n] \in Elements(t) \union {s[1]}
    <3>1. CASE n = 1
      BY <3>1
    <3>2. CASE n # 1
      <4>1. n - 1 \in 1 .. Len(t) /\ t[n - 1] = s[n]
        BY <1>1, <1>2, <3>2
      <4>2. QED
        BY <1>1, <1>2, <4>1 DEF Elements
    <3>3. QED
      BY <3>1, <3>2
  <2>3. QED
    BY <1>2, <2>1, <2>2 DEF Elements
<1>4. ASSUME IsInjective(s) PROVE IsInjective(t) /\ s[1] \notin Elements(t)
  <2>1. \A i \in DOMAIN t : i + 1 \in DOMAIN s /\ t[i] = s[i + 1] /\ i \in Nat \ {0}
    BY <1>1, <1>2
  <2>2. 1 \in DOMAIN s
    BY <1>2
  <2>3. ASSUME NEW m \in DOMAIN t, NEW n \in DOMAIN t, t[m] = t[n] PROVE m = n
    <3>1. m + 1 = n + 1
      BY <1>4, <2>1, <2>3 DEF IsInjective
    <3>2. QED
      BY <2>1, <3>1
  <2>4. ASSUME NEW m \in DOMAIN t PROVE t[m] # s[1]
    BY <1>4, <2>1, <2>2 DEF IsInjective
  <2>5. QED
    BY <2>3, <2>4 DEF IsInjective, Elements
<1>5. QED
  BY <1>1, <1>3, <1>4 DEF t

\* Of two sequences without repetition that share nothing, the concatenation has as
\* many elements as it is long.
LEMMA JoinElements ==
    ASSUME NEW S, NEW s \in Seq(S), NEW t \in Seq(S)
    PROVE  /\ Elements(s \o t) = Elements(s) \union Elements(t)
           /\ IsInjective(s) /\ IsInjective(t) /\ Elements(s) \intersect Elements(t) = {}
              => Cardinality(Elements(s \o t)) = Len(s \o t)
<1> DEFINE j == s \o t
<1>1. /\ j \in Seq(S) /\ Len(j) = Len(s) + Len(t)
      /\ \A i \in 1 .. Len(s) + Len(t) : j[i] = IF i <= Len(s) THEN s[i] ELSE t[i - Len(s)]
  BY ConcatProperties
<1>2. /\ Len(s) \in Nat /\ DOMAIN s = 1 .. Len(s)
      /\ Len(t) \in Nat /\ DOMAIN t = 1 .. Len(t)
      /\ DOMAIN j = 1 .. Len(s) + Len(t)
  BY <1>1
<1> HIDE DEF j
<1>3. Elements(j) = Elements(s) \union Elements(t)
  <2>1. Elements(j) \subseteq Elements(s) \union Elements(t)
    <3> SUFFICES ASSUME NEW n \in 1 .. Len(s) + Len(t)
                 PROVE  j[n] \in Elements(s) \union Elements(t)
      BY <1>2 DEF Elements
    <3>1. CASE n <= Len(s)
      BY <1>1, <1>2, <3>1 DEF Elements
    <3>2. CASE ~(n <= Len(s))
      <4>1. n - Len(s) \in DOMAIN t /\ j[n] = t[n - Len(s)]
        BY <1>1, <1>2, <3>2
      <4>2. QED
        BY <4>1 DEF Elements
    <3>3. QED
      BY <3>1, <3>2
  <2>2. Elements(s) \subseteq Elements(j)
    BY <1>1, <1>2 DEF Elements
  <2>3. ASSUME NEW n \in 1 .. Len(t) PROVE t[n] \in Elements(j)
    <3>1. /\ n + Len(s) \in 1 .. Len(s) + Len(t)
          /\ ~ (n + Len(s) <= Len(s))
          /\ (n + Len(s)) - Len(s) = n
      BY <1>2
    <3>2. j[n + Len(s)] = t[n]
      BY <1>1, <3>1
    <3>3. QED
      BY <1>2, <3>1, <3>2 DEF Elements
  <2>4. QED
    BY <1>2, <2>1, <2>2, <2>3 DEF Elements
<1>4. ASSUME IsInjective(s), IsInjective(t), Elements(s) \intersect Elements(t) = {}
      PROVE  Cardinality(Elements(j)) = Len(j)
  <2>1. ASSUME NEW m \in DOMAIN j, NEW n \in DOMAIN j, j[m] = j[n] PROVE m = n
    <3>1. CASE m <= Len(s) /\ n <= Len(s)
      BY <1>1, <1>2, <1>4, <2>1, <3>1 DEF IsInjective
    <3>2. CASE ~(m <= Len(s)) /\ ~(n <= Len(s))
      <4>1. /\ m - Len(s) \in DOMAIN t /\ n - Len(s) \in DOMAIN t
            /\ t[m - Len(s)] = t[n - Len(s)]
        BY <1>1, <1>2, <2>1, <3>2
      <4>2. m - Len(s) = n - Len(s)
        BY <1>4, <4>1 DEF IsInjective
      <4>3. QED
        BY <1>2, <4>2
    <3>3. ASSUME NEW k \in DOMAIN j, NEW l \in DOMAIN j, j[k] = j[l], k <= Len(s), ~(l <= Len(s))
          PROVE  FALSE
      <4>1. k \in DOMAIN s /\ j[k] = s[k]
        BY <1>1, <1>2, <3>3
      <4>2. l - Len(s) \in DOMAIN t /\ j[l] = t[l - Len(s)]
        BY <1>1, <1>2, <3>3
      <4>3. QED
        BY <1>4, <3>3, <4>1, <4>2 DEF Elements
    <3>4. QED
      BY <2>1, <3>1, <3>2, <3>3
  <2>2. j \in Bijection(1 .. Len(j), Elements(j))
    BY <1>1, <1>2, <2>1 DEF Bijection, Injection, Surjection, IsInjective, Elements
  <2>3. IsFiniteSet(1 .. Len(j)) /\ Cardinality(1 .. Len(j)) = Len(j)
    <3>1. PICK k \in Nat : k = Len(j)
      BY <1>1, <1>2
    <3>2. IsFiniteSet(1 .. k) /\ Cardinality(1 .. k) = k
      BY FS_Interval
    <3>3. QED
      BY <3>1, <3>2
  <2>4. QED
    BY <2>2, <2>3, FS_Bijection DEF ExistsBijection
<1>5. QED
  BY <1>3, <1>4 DEF j

-----------------------------------------------------------------------------
(* The map of rooms.                                                       *)

\* The gauge can count the connections that are registered.
LEMMA RegisteredFinite == TypeOK => IsFiniteSet(Registered) /\ Cardinality(Registered) \in Nat
<1> SUFFICES ASSUME TypeOK PROVE IsFiniteSet(Registered) /\ Cardinality(Registered) \in Nat
  OBVIOUS
<1>1. Registered \subseteq Clients
  BY DEF TypeOK, Registered
<1>2. QED
  BY <1>1, FS_Subset, FS_CardinalityType, HubAssumption

\* A connection that is registered was in no room, and is in its own then.
LEMMA RegisterKeeps ==
    ASSUME TypeOK, RegistryExact, NEW c \in Clients, Register(c)
    PROVE  TypeOK' /\ RegistryExact'
<1>1. /\ stage[c] = "upgraded"
      /\ rooms' = [rooms EXCEPT ![token[c]] = @ \union {c}]
      /\ active' = active + 1
      /\ stage' = [stage EXCEPT ![c] = "reading"]
      /\ writer' = [writer EXCEPT ![c] = "running"]
      /\ UNCHANGED <<usable, token, conn, queue, closed, written, castVars>>
  BY DEF Register
<1>2. token[c] \in Tokens
  BY DEF TypeOK
<1>3. TypeOK'
  BY <1>1, <1>2 DEF TypeOK, castVars
<1>4. \A d \in Clients, t \in Tokens :
        d \in rooms'[t] <=> t = token'[d] /\ stage'[d] \in {"reading", "leaving"}
  BY <1>1, <1>2 DEF TypeOK, RegistryExact
<1>5. c \notin Registered
  BY <1>1 DEF RegistryExact, Registered
<1>6. Registered' = Registered \union {c}
  BY <1>1, <1>2 DEF TypeOK, Registered
<1>7. active' = Cardinality(Registered')
  BY <1>1, <1>5, <1>6, RegisteredFinite, FS_AddElement DEF RegistryExact
<1>8. QED
  BY <1>3, <1>4, <1>7 DEF RegistryExact

\* A connection that is unregistered was in its room, and is in none then.
LEMMA UnregisterKeeps ==
    ASSUME TypeOK, RegistryExact, NEW c \in Clients, Unregister(c)
    PROVE  TypeOK' /\ RegistryExact' /\ closed' = closed \union {c}
<1> DEFINE member == {c} \intersect rooms[token[c]]
<1>1. /\ stage[c] = "leaving"
      /\ rooms' = [rooms EXCEPT ![token[c]] = @ \ member]
      /\ closed' = closed \union member
      /\ active' = active - Cardinality(member)
      /\ stage' = [stage EXCEPT ![c] = "gone"]
      /\ conn' = [conn EXCEPT ![c] = "closed"]
      /\ UNCHANGED <<usable, token, queue, writer, written, castVars>>
  BY DEF Unregister
<1>2. token[c] \in Tokens
  BY DEF TypeOK
<1>3. member = {c}
  BY <1>1, <1>2 DEF RegistryExact
<1>4. Cardinality(member) = 1
  BY <1>3, FS_Singleton
<1> HIDE DEF member
<1>5. c \in Registered
  BY <1>1, <1>2 DEF RegistryExact, Registered
<1>6. Registered' = Registered \ {c}
  BY <1>1, <1>2, <1>3 DEF TypeOK, RegistryExact, Registered
<1>7. active' = Cardinality(Registered') /\ active' \in Nat
  <2>1. IsFiniteSet(Registered') /\ Cardinality(Registered') = Cardinality(Registered) - 1
    BY <1>5, <1>6, RegisteredFinite, FS_RemoveElement
  <2>2. Cardinality(Registered') \in Nat
    BY <2>1, FS_CardinalityType
  <2>3. QED
    BY <1>1, <1>4, <2>1, <2>2 DEF RegistryExact
<1>8. \A d \in Clients, t \in Tokens :
        d \in rooms'[t] <=> t = token'[d] /\ stage'[d] \in {"reading", "leaving"}
  BY <1>1, <1>2, <1>3 DEF TypeOK, RegistryExact
<1>9. TypeOK'
  BY <1>1, <1>2, <1>3, <1>7 DEF TypeOK, castVars
<1>10. QED
  BY <1>1, <1>3, <1>7, <1>8, <1>9 DEF RegistryExact

-----------------------------------------------------------------------------
(* The steps of a connection.                                              *)

\* Up to its registration, and when its reader gives up, a connection changes only its
\* own stage.
LEMMA HandlerIInv ==
    ASSUME IInv, NEW c \in Clients, Find(c) \/ Upgrade(c) \/ ReadFail(c) \/ Vanish(c)
    PROVE  IInv'
<1>1. /\ stage' \in [Clients -> {"absent", "found", "refused", "upgraded", "reading",
                                 "leaving", "gone"}]
      /\ \A d \in Clients :
            \/ stage'[d] = stage[d]
            \/ stage[d] \in {"absent", "found"} /\ stage'[d] \in {"found", "refused", "upgraded"}
            \/ stage[d] = "reading" /\ stage'[d] = "leaving"
      /\ conn' \in [Clients -> {"none", "open", "lost", "closed"}]
      /\ UNCHANGED <<usable, token, rooms, active, queue, closed, writer, written, topic, todo,
                     audience>>
  <2>1. /\ stage \in [Clients -> {"absent", "found", "refused", "upgraded", "reading",
                                  "leaving", "gone"}]
        /\ conn \in [Clients -> {"none", "open", "lost", "closed"}]
    BY DEF IInv, TypeOK
  <2>2. CASE Find(c)
    BY <2>1, <2>2 DEF Find, hubVars, castVars
  <2>3. CASE Upgrade(c)
    BY <2>1, <2>3 DEF Upgrade, hubVars, castVars
  <2>4. CASE ReadFail(c)
    BY <2>1, <2>4 DEF ReadFail, hubVars, castVars
  <2>5. CASE Vanish(c)
    BY <2>1, <2>5 DEF Vanish, hubVars, castVars
  <2>6. QED
    BY <2>2, <2>3, <2>4, <2>5
<1>2. TypeOK'
  BY <1>1 DEF IInv, TypeOK
<1>3. RegistryExact'
  BY <1>1 DEF IInv, RegistryExact, Registered
<1>4. ClosedAreGone' /\ InRoom'
  BY <1>1 DEF IInv, TypeOK, ClosedAreGone, InRoom
<1>5. Sent'
  BY <1>1 DEF IInv, Sent
<1>6. QED
  BY <1>2, <1>3, <1>4, <1>5 DEF IInv

\* With the write lock, no broadcast is under way.
LEMMA LockIInv ==
    ASSUME IInv, NEW c \in Clients, Register(c) \/ Unregister(c)
    PROVE  IInv'
<1>1. \A u \in Updates : todo[u] = {}
  BY DEF Register, Unregister, ReadLocked
<1>2. UNCHANGED <<usable, token, queue, written, topic, todo, audience>>
  BY DEF Register, Unregister, castVars
<1>3. Sent'
  BY <1>2 DEF IInv, Sent
<1>4. CASE Register(c)
  <2>1. /\ stage[c] = "upgraded"
        /\ stage' = [stage EXCEPT ![c] = "reading"]
        /\ writer' = [writer EXCEPT ![c] = "running"]
        /\ UNCHANGED closed
    BY <1>4 DEF Register
  <2>2. TypeOK' /\ RegistryExact'
    BY <1>4, RegisterKeeps DEF IInv
  <2>3. ClosedAreGone' /\ InRoom'
    BY <1>1, <1>2, <2>1 DEF IInv, TypeOK, ClosedAreGone, InRoom
  <2>4. QED
    BY <1>3, <2>2, <2>3 DEF IInv
<1>5. CASE Unregister(c)
  <2>1. stage' = [stage EXCEPT ![c] = "gone"] /\ UNCHANGED writer
    BY <1>5 DEF Unregister
  <2>2. TypeOK' /\ RegistryExact' /\ closed' = closed \union {c}
    BY <1>5, UnregisterKeeps DEF IInv
  <2>3. ClosedAreGone' /\ InRoom'
    BY <1>1, <1>2, <2>1, <2>2 DEF IInv, TypeOK, ClosedAreGone, InRoom
  <2>4. QED
    BY <1>3, <2>2, <2>3 DEF IInv
<1>6. QED
  BY <1>4, <1>5

\* What the writer takes from the channel it writes, or it is the last thing it does.
LEMMA WriterIInv ==
    ASSUME IInv, NEW c \in Clients, Write(c) \/ WriteLast(c) \/ PingFail(c)
    PROVE  IInv'
<1>1. UNCHANGED <<usable, token, stage, rooms, active, closed, topic, todo, audience>>
  BY DEF Write, WriteLast, PingFail, hubVars, castVars
<1>2. RegistryExact' /\ ClosedAreGone'
  BY <1>1 DEF IInv, RegistryExact, Registered, ClosedAreGone
<1>3. /\ queue \in [Clients -> Seq(Updates)] /\ written \in [Clients -> Seq(Updates)]
      /\ writer \in [Clients -> {"none", "running", "done"}]
      /\ conn \in [Clients -> {"none", "open", "lost", "closed"}]
  BY DEF IInv, TypeOK
<1>4. CASE queue' = queue /\ written' = written /\ WriterStops(c)
  <2>1. TypeOK'
    BY <1>1, <1>3, <1>4 DEF WriterStops, IInv, TypeOK
  <2>2. InRoom' /\ Sent'
    BY <1>1, <1>4 DEF IInv, InRoom, Sent
  <2>3. QED
    BY <1>2, <2>1, <2>2 DEF IInv
<1>5. CASE Write(c)
  <2> DEFINE q == queue[c]
             w == written[c]
  <2>1. q # <<>> /\ q \in Seq(Updates) /\ w \in Seq(Updates)
    BY <1>3, <1>5 DEF Write
  <2>2. PICK rest, head :
          /\ rest = Tail(q) /\ head = Head(q)
          /\ rest \in Seq(Updates) /\ head \in Updates
          /\ Len(rest) = Len(q) - 1
          /\ Elements(q) = Elements(rest) \union {head}
          /\ IsInjective(q) => IsInjective(rest) /\ head \notin Elements(rest)
    BY <2>1, TailElements
  <2>3. PICK more :
          /\ more = Append(w, head)
          /\ more \in Seq(Updates)
          /\ Len(more) = Len(w) + 1
          /\ Elements(more) = Elements(w) \union {head}
          /\ IsInjective(w) /\ head \notin Elements(w) => IsInjective(more)
    BY <2>1, <2>2, AppendElements
  <2>4. /\ queue' = [queue EXCEPT ![c] = rest]
        /\ \/ written' = [written EXCEPT ![c] = more] /\ UNCHANGED <<writer, conn>>
           \/ WriterStops(c) /\ UNCHANGED written
    BY <1>5, <2>2, <2>3 DEF Write
  <2>5. /\ IsInjective(q) /\ IsInjective(w) /\ Elements(q) \intersect Elements(w) = {}
        /\ \A u \in Elements(q) \union Elements(w) : topic[u] = {token[c].session}
    BY DEF IInv, Sent
  <2>6. queue'[c] = rest /\ (written'[c] = w \/ written'[c] = more)
    BY <1>3, <2>4
  <2>7. \A d \in Clients \ {c} : queue'[d] = queue[d] /\ written'[d] = written[d]
    BY <1>3, <2>4
  <2>8. Len(q) \in Nat /\ Len(w) \in Nat /\ Len(q) <= Capacity /\ Capacity \in Nat
    BY <2>1, HubAssumption DEF IInv, TypeOK
  <2> HIDE DEF q, w
  <2>9. TypeOK'
    <3>1. queue' \in [Clients -> Seq(Updates)] /\ written' \in [Clients -> Seq(Updates)]
      BY <1>3, <2>4, <2>2, <2>3
    <3>2. ASSUME NEW d \in Clients PROVE Len(queue'[d]) <= Capacity
      <4>1. Len(rest) <= Capacity
        BY <2>2, <2>8
      <4>2. CASE d = c
        BY <2>6, <4>1, <4>2
      <4>3. CASE d # c
        <5>1. Len(queue[d]) <= Capacity
          BY DEF IInv, TypeOK
        <5>2. QED
          BY <2>7, <4>3, <5>1
      <4>4. QED
        BY <4>2, <4>3
    <3>3. /\ writer' \in [Clients -> {"none", "running", "done"}]
          /\ conn' \in [Clients -> {"none", "open", "lost", "closed"}]
      BY <1>3, <2>4 DEF WriterStops
    <3>4. QED
      BY <1>1, <3>1, <3>2, <3>3 DEF IInv, TypeOK
  <2>10. /\ IsInjective(queue'[c]) /\ IsInjective(written'[c])
         /\ Elements(queue'[c]) \intersect Elements(written'[c]) = {}
         /\ Elements(queue'[c]) \union Elements(written'[c]) \subseteq Elements(q) \union Elements(w)
    BY <2>2, <2>3, <2>5, <2>6
  <2>11. Sent'
    <3> SUFFICES ASSUME NEW d \in Clients
                 PROVE  /\ \A u \in Elements(queue'[d]) \union Elements(written'[d]) :
                              topic'[u] = {token'[d].session}
                        /\ IsInjective(queue'[d])
                        /\ IsInjective(written'[d])
                        /\ Elements(queue'[d]) \intersect Elements(written'[d]) = {}
      BY DEF Sent, Elements
    <3>1. CASE d = c
      BY <1>1, <2>5, <2>10, <3>1
    <3>2. CASE d # c
      BY <1>1, <2>7, <3>2 DEF IInv, Sent
    <3>3. QED
      BY <3>1, <3>2
  <2>12. InRoom'
    <3>1. \A d \in Clients : Elements(queue'[d]) \union Elements(written'[d])
                             \subseteq Elements(queue[d]) \union Elements(written[d])
      BY <2>7, <2>10 DEF q, w
    <3>2. \A u \in Updates : todo[u] \subseteq Clients
      BY DEF IInv, TypeOK
    <3>3. \A u \in Updates : \A d \in todo[u] :
              u \notin Elements(queue'[d]) \union Elements(written'[d])
      BY <3>1, <3>2 DEF IInv, InRoom
    <3>4. QED
      BY <1>1, <3>3 DEF IInv, InRoom, Elements
  <2>13. QED
    BY <1>2, <2>9, <2>11, <2>12 DEF IInv
<1>6. QED
  BY <1>4, <1>5 DEF WriteLast, PingFail, hubVars

-----------------------------------------------------------------------------
(* Broadcasts.                                                             *)

\* A broadcast begins with the connections of the room it looks up.
LEMMA BroadcastIInv ==
    ASSUME IInv, NEW u \in Updates, Broadcast(u)
    PROVE  IInv'
<1>1. PICK i \in Sessions :
        LET room == rooms[[session |-> i, spelling |-> Canonical]]
        IN  /\ topic' = [topic EXCEPT ![u] = {i}]
            /\ todo' = [todo EXCEPT ![u] = room]
            /\ audience' = [audience EXCEPT ![u] = room]
  BY DEF Broadcast
<1> DEFINE t == [session |-> i, spelling |-> Canonical]
<1>2. /\ topic[u] = {}
      /\ UNCHANGED <<usable, token, stage, conn, rooms, active, queue, closed, writer, written>>
  BY DEF Broadcast, hubVars
<1>3. t \in Tokens /\ t.session = i
  BY HubAssumption
<1> HIDE DEF t
<1>4. topic' = [topic EXCEPT ![u] = {i}] /\ todo' = [todo EXCEPT ![u] = rooms[t]]
      /\ audience' = [audience EXCEPT ![u] = rooms[t]]
  BY <1>1 DEF t
<1>5. rooms[t] \subseteq Clients
  BY <1>3 DEF IInv, TypeOK
<1>6. TypeOK'
  BY <1>2, <1>4, <1>5 DEF IInv, TypeOK
<1>7. RegistryExact' /\ ClosedAreGone'
  BY <1>2 DEF IInv, RegistryExact, Registered, ClosedAreGone
<1>8. \A c \in Clients : u \notin Elements(queue[c]) \union Elements(written[c])
  BY <1>2 DEF IInv, Sent
<1>9. \A c \in rooms[t] : token[c] = t /\ stage[c] \in {"reading", "leaving"}
  BY <1>3, <1>5 DEF IInv, RegistryExact
<1>10. InRoom'
  <2> SUFFICES ASSUME NEW v \in Updates
               PROVE  /\ \A c \in todo'[v] :
                            /\ stage'[c] \in {"reading", "leaving"}
                            /\ topic'[v] = {token'[c].session}
                            /\ v \notin Elements(queue'[c]) \union Elements(written'[c])
                      /\ \A c \in audience'[v] : stage'[c] \in {"reading", "leaving", "gone"}
    BY DEF InRoom, Elements
  <2>1. CASE v = u
    BY <1>2, <1>3, <1>4, <1>5, <1>8, <1>9, <2>1 DEF IInv, TypeOK
  <2>2. CASE v # u
    BY <1>2, <1>4, <2>2 DEF IInv, TypeOK, InRoom
  <2>3. QED
    BY <2>1, <2>2
<1>11. Sent'
  <2>1. \A c \in Clients : \A v \in Elements(queue[c]) \union Elements(written[c]) :
            topic'[v] = topic[v]
    <3> SUFFICES ASSUME NEW c \in Clients, NEW v \in Elements(queue[c]) \union Elements(written[c])
                 PROVE  topic'[v] = topic[v]
      OBVIOUS
    <3>1. v # u
      BY <1>8
    <3>2. QED
      BY <1>4, <3>1 DEF IInv, TypeOK
  <2>2. QED
    BY <1>2, <2>1 DEF IInv, Sent
<1>12. QED
  BY <1>6, <1>7, <1>10, <1>11 DEF IInv

\* The next connection is sent the update, unless its channel is full.
LEMMA SendIInv ==
    ASSUME IInv, NEW u \in Updates, Send(u)
    PROVE  IInv'
<1>1. PICK c \in todo[u] :
        /\ todo' = [todo EXCEPT ![u] = @ \ {c}]
        /\ IF Len(queue[c]) < Capacity
           THEN queue' = [queue EXCEPT ![c] = Append(@, u)]
           ELSE UNCHANGED queue
  BY DEF Send
<1>2. UNCHANGED <<usable, token, stage, conn, rooms, active, closed, writer,
                  written, topic, audience>>
  BY DEF Send
<1>3. /\ queue \in [Clients -> Seq(Updates)] /\ written \in [Clients -> Seq(Updates)]
      /\ todo \in [Updates -> SUBSET Clients] /\ c \in Clients
  BY <1>1 DEF IInv, TypeOK
<1> DEFINE q == queue[c]
<1>4. q \in Seq(Updates) /\ Len(q) \in Nat /\ Len(q) <= Capacity /\ Capacity \in Nat
  BY <1>3, HubAssumption DEF IInv, TypeOK
<1>5. PICK more :
        /\ more = Append(q, u)
        /\ more \in Seq(Updates)
        /\ Len(more) = Len(q) + 1
        /\ Elements(more) = Elements(q) \union {u}
        /\ IsInjective(q) /\ u \notin Elements(q) => IsInjective(more)
  BY <1>4, AppendElements
<1>6. /\ u \notin Elements(q) \union Elements(written[c])
      /\ topic[u] = {token[c].session}
      /\ IsInjective(q)
  BY <1>1, <1>3 DEF IInv, InRoom, Sent
<1>7. \/ Len(q) < Capacity /\ queue'[c] = more
      \/ Len(q) >= Capacity /\ queue'[c] = q
  BY <1>1, <1>3, <1>4, <1>5
<1>8. \A d \in Clients \ {c} : queue'[d] = queue[d]
  BY <1>1, <1>3
<1>9. todo'[u] = todo[u] \ {c} /\ \A v \in Updates \ {u} : todo'[v] = todo[v]
  BY <1>1, <1>3
<1>10. TypeOK'
  <2>1. queue' \in [Clients -> Seq(Updates)] /\ todo' \in [Updates -> SUBSET Clients]
    BY <1>1, <1>3, <1>5
  <2>2. ASSUME NEW d \in Clients PROVE Len(queue'[d]) <= Capacity
    <3>1. Len(queue'[c]) <= Capacity
      BY <1>4, <1>5, <1>7
    <3>2. CASE d # c
      <4>1. Len(queue[d]) <= Capacity
        BY DEF IInv, TypeOK
      <4>2. QED
        BY <1>8, <3>2, <4>1
    <3>3. QED
      BY <3>1, <3>2
  <2>3. QED
    BY <1>2, <2>1, <2>2 DEF IInv, TypeOK
<1> HIDE DEF q
<1>11. RegistryExact' /\ ClosedAreGone'
  BY <1>2 DEF IInv, RegistryExact, Registered, ClosedAreGone
<1>12. Sent'
  <2> SUFFICES ASSUME NEW d \in Clients
               PROVE  /\ \A v \in Elements(queue'[d]) \union Elements(written[d]) :
                            topic[v] = {token[d].session}
                      /\ IsInjective(queue'[d])
                      /\ IsInjective(written[d])
                      /\ Elements(queue'[d]) \intersect Elements(written[d]) = {}
    BY <1>2 DEF Sent
  <2>1. CASE d = c
    <3>1. /\ \A v \in Elements(q) \union Elements(written[c]) : topic[v] = {token[c].session}
          /\ IsInjective(written[c])
          /\ Elements(q) \intersect Elements(written[c]) = {}
      BY <1>3 DEF IInv, Sent, q
    <3>2. QED
      BY <1>5, <1>6, <1>7, <2>1, <3>1
  <2>2. CASE d # c
    BY <1>8, <2>2 DEF IInv, Sent
  <2>3. QED
    BY <2>1, <2>2
<1>13. InRoom'
  <2> SUFFICES ASSUME NEW v \in Updates, NEW d \in todo'[v]
               PROVE  v \notin Elements(queue'[d]) \union Elements(written[d])
    BY <1>2, <1>9 DEF IInv, InRoom
  <2>1. d \in todo[v] /\ d \in Clients /\ ~(v = u /\ d = c)
    BY <1>3, <1>9
  <2>2. v \notin Elements(queue[d]) \union Elements(written[d])
    BY <2>1 DEF IInv, InRoom
  <2>3. CASE d = c
    BY <1>5, <1>7, <2>1, <2>2, <2>3 DEF q
  <2>4. CASE d # c
    BY <1>8, <2>1, <2>2, <2>4
  <2>5. QED
    BY <2>3, <2>4
<1>14. QED
  BY <1>10, <1>11, <1>12, <1>13 DEF IInv

-----------------------------------------------------------------------------
(* The invariant.                                                          *)

\* An empty hub satisfies the invariant.
LEMMA InitIInv == Init => IInv
<1> SUFFICES ASSUME Init PROVE IInv
  OBVIOUS
<1>1. Elements(<<>>) = {} /\ IsInjective(<<>>)
  BY DEF Elements, IsInjective
<1>2. Len(<<>>) = 0 /\ <<>> \in Seq(Updates)
  OBVIOUS
<1>3. TypeOK
  BY <1>2, HubAssumption DEF Init, TypeOK
<1>4. RegistryExact
  <2>1. Registered = {}
    BY DEF Init, Registered
  <2>2. QED
    BY <2>1, FS_EmptySet DEF Init, RegistryExact
<1>5. ClosedAreGone /\ InRoom /\ Sent
  BY <1>1 DEF Init, ClosedAreGone, InRoom, Sent
<1>6. QED
  BY <1>3, <1>4, <1>5 DEF IInv

\* A step preserves the invariant.
LEMMA NextIInv == IInv /\ [Next]_vars => IInv'
<1> SUFFICES ASSUME IInv, [Next]_vars PROVE IInv'
  OBVIOUS
<1>1. ASSUME NEW c \in Clients,
             \/ Find(c) \/ Upgrade(c) \/ Register(c) \/ ReadFail(c)
             \/ Unregister(c) \/ Write(c) \/ WriteLast(c) \/ PingFail(c) \/ Vanish(c)
      PROVE  IInv'
  BY <1>1, HandlerIInv, LockIInv, WriterIInv
<1>2. ASSUME NEW u \in Updates, Broadcast(u) \/ Send(u) PROVE IInv'
  BY <1>2, BroadcastIInv, SendIInv
<1>3. ASSUME NEW i \in Sessions, SessionChange(i) PROVE IInv'
  <2>1. /\ UNCHANGED <<token, stage, conn, rooms, active, queue, closed, writer, written, topic,
                       todo, audience>>
    BY <1>3 DEF SessionChange, hubVars, castVars
  <2>2. TypeOK'
    BY <1>3, <2>1 DEF SessionChange, IInv, TypeOK
  <2>3. RegistryExact' /\ ClosedAreGone'
    BY <2>1 DEF IInv, RegistryExact, Registered, ClosedAreGone
  <2>4. InRoom' /\ Sent'
    BY <2>1 DEF IInv, InRoom, Sent
  <2>5. QED
    BY <2>2, <2>3, <2>4 DEF IInv
<1>4. CASE UNCHANGED vars
  BY <1>4 DEF vars, hubVars, castVars, IInv, TypeOK, RegistryExact, Registered, ClosedAreGone,
              InRoom, Sent
<1>5. QED
  BY <1>1, <1>2, <1>3, <1>4 DEF Next

\* The invariant holds in every reachable state.
LEMMA Invariance == Spec => []IInv
  BY InitIInv, NextIInv, PTL DEF Spec

\* The variables stay within their types, and no channel holds more than it can.
THEOREM HubTypeCorrect == Spec => []TypeOK
<1>1. IInv => TypeOK
  BY DEF IInv
<1>2. QED
  BY <1>1, Invariance, PTL

\* The map and the gauge are exact (RegistryExact), for any number of connections
\* that come and go beside any number of broadcasts.
THEOREM RegistryIsExact == Spec => []RegistryExact
<1>1. IInv => RegistryExact
  BY DEF IInv
<1>2. QED
  BY <1>1, Invariance, PTL

\* No broadcast sends to a closed channel (SendsFindOpenChannels): it would panic.
THEOREM NoSendPanics == Spec => []SendsFindOpenChannels
<1>1. IInv => SendsFindOpenChannels
  BY DEF IInv, InRoom, ClosedAreGone, SendsFindOpenChannels
<1>2. QED
  BY <1>1, Invariance, PTL

\* Connections are sent updates about their own session, each at most once
\* (OnlyOwnUpdates).
THEOREM UpdatesStayPrivate == Spec => []OnlyOwnUpdates
<1>1. ASSUME IInv PROVE OnlyOwnUpdates
  <2> SUFFICES ASSUME NEW c \in Clients
               PROVE  /\ \A u \in Elements(written[c] \o queue[c]) :
                            topic[u] = {token[c].session}
                      /\ Cardinality(Elements(written[c] \o queue[c]))
                         = Len(written[c] \o queue[c])
    BY DEF OnlyOwnUpdates
  <2>1. written[c] \in Seq(Updates) /\ queue[c] \in Seq(Updates)
    BY <1>1 DEF IInv, TypeOK
  <2>2. /\ \A u \in Elements(queue[c]) \union Elements(written[c]) :
              topic[u] = {token[c].session}
        /\ IsInjective(queue[c])
        /\ IsInjective(written[c])
        /\ Elements(queue[c]) \intersect Elements(written[c]) = {}
    BY <1>1 DEF IInv, Sent
  <2>3. /\ Elements(written[c] \o queue[c]) = Elements(written[c]) \union Elements(queue[c])
        /\ Cardinality(Elements(written[c] \o queue[c])) = Len(written[c] \o queue[c])
    <3> DEFINE w == written[c]
               q == queue[c]
    <3>1. /\ w \in Seq(Updates) /\ q \in Seq(Updates)
          /\ IsInjective(w) /\ IsInjective(q) /\ Elements(w) \intersect Elements(q) = {}
      BY <2>1, <2>2
    <3> HIDE DEF w, q
    <3>2. /\ Elements(w \o q) = Elements(w) \union Elements(q)
          /\ Cardinality(Elements(w \o q)) = Len(w \o q)
      BY <3>1, JoinElements
    <3>3. QED
      BY <3>2 DEF w, q
  <2>4. QED
    BY <2>2, <2>3, Zenon
<1>2. QED
  BY <1>1, Invariance, PTL

-----------------------------------------------------------------------------
(* What a connection misses.                                               *)

\* A step with the history is a step without it.
LEMMA HistoryStep == [HistoryNext]_<<vars, ahead>> => [Next]_vars
  BY DEF HistoryNext

\* While its writer runs, a connection keeps what it got.
LEMMA WriterKeeps ==
    ASSUME IInv, NEW d \in Clients, Write(d) \/ WriteLast(d) \/ PingFail(d),
           NEW c \in Clients, writer'[c] = "running"
    PROVE  writer[c] = "running" /\ Got(c) \subseteq Got(c)'
<1>1. /\ queue \in [Clients -> Seq(Updates)] /\ written \in [Clients -> Seq(Updates)]
      /\ writer \in [Clients -> {"none", "running", "done"}]
  BY DEF IInv, TypeOK
<1>2. CASE queue' = queue /\ written' = written /\ WriterStops(d)
  BY <1>1, <1>2 DEF WriterStops, Got, Elements
<1>3. CASE Write(d)
  <2>1. PICK rest \in Seq(Updates), head \in Updates :
           /\ rest = Tail(queue[d]) /\ head = Head(queue[d])
           /\ Elements(queue[d]) = Elements(rest) \union {head}
    BY <1>1, <1>3, TailElements DEF Write
  <2>2. CASE WriterStops(d)
    <3>1. c # d
      BY <1>1, <2>2 DEF WriterStops
    <3>2. queue'[c] = queue[c] /\ written'[c] = written[c] /\ writer'[c] = writer[c]
      BY <1>1, <1>3, <2>2, <3>1 DEF Write, WriterStops
    <3>3. QED
      BY <3>2 DEF Got, Elements
  <2>3. CASE writer' = writer /\ written' = [written EXCEPT ![d] = Append(@, head)]
    <3>1. Elements(Append(written[d], head)) = Elements(written[d]) \union {head}
      BY <1>1, AppendElements
    <3>2. queue' = [queue EXCEPT ![d] = rest]
      BY <1>3, <2>1 DEF Write
    <3>3. CASE c = d
      <4>1. queue'[c] = rest /\ written'[c] = Append(written[d], head)
        BY <1>1, <2>3, <3>2, <3>3
      <4>2. Got(c)' = Elements(rest) \union Elements(Append(written[d], head))
        BY <4>1 DEF Got, Elements
      <4>3. QED
        BY <2>1, <2>3, <3>1, <3>3, <4>2 DEF Got
    <3>4. CASE c # d
      <4>1. queue'[c] = queue[c] /\ written'[c] = written[c]
        BY <1>1, <2>3, <3>2, <3>4
      <4>2. QED
        BY <2>3, <4>1 DEF Got, Elements
    <3>5. QED
      BY <3>3, <3>4
  <2>4. QED
    BY <1>3, <2>1, <2>2, <2>3 DEF Write
<1>4. QED
  BY <1>2, <1>3 DEF WriteLast, PingFail, hubVars

\* A broadcast goes past one connection, which gets the update or has a full channel;
\* the others keep what they have.
LEMMA SendReaches ==
    ASSUME IInv, NEW u \in Updates, Send(u), NEW c \in Clients
    PROVE  /\ Got(c) \subseteq Got(c)'
           /\ c \in todo[u] \ todo'[u]
              => u \in Elements(queue'[c]) \/ Len(queue[c]) >= Capacity
<1>1. PICK d \in todo[u] :
        /\ todo' = [todo EXCEPT ![u] = @ \ {d}]
        /\ IF Len(queue[d]) < Capacity
           THEN queue' = [queue EXCEPT ![d] = Append(@, u)]
           ELSE UNCHANGED queue
  BY DEF Send
<1>2. /\ queue \in [Clients -> Seq(Updates)] /\ todo \in [Updates -> SUBSET Clients]
      /\ d \in Clients /\ written' = written
  BY <1>1 DEF IInv, TypeOK, Send
<1>3. Len(queue[d]) \in Nat /\ Capacity \in Nat
  BY <1>2, HubAssumption
<1>4. Elements(Append(queue[d], u)) = Elements(queue[d]) \union {u}
  BY <1>2, AppendElements
<1>5. \/ Len(queue[d]) >= Capacity /\ queue' = queue
      \/ queue'[d] = Append(queue[d], u) /\ \A e \in Clients \ {d} : queue'[e] = queue[e]
  BY <1>1, <1>2, <1>3
<1>6. \/ queue'[c] = queue[c]
      \/ c = d /\ queue'[c] = Append(queue[c], u)
  BY <1>5
<1>7. Elements(queue[c]) \subseteq Elements(queue'[c])
  BY <1>4, <1>6
<1>8. Got(c) \subseteq Got(c)'
  BY <1>2, <1>7 DEF Got, Elements
<1>9. c \in todo[u] \ todo'[u] => c = d
  BY <1>1, <1>2
<1>10. u \in Elements(queue'[d]) \/ Len(queue[d]) >= Capacity
  BY <1>4, <1>5
<1>11. QED
  BY <1>8, <1>9, <1>10

\* A connection that a broadcast has gone past, with its writer running, keeps what it
\* got, and either was past already, or the broadcast has now come to it.
LEMMA Reached ==
    ASSUME IInv, [Next]_vars, NEW u \in Updates, NEW c \in audience'[u] \ todo'[u],
           writer'[c] = "running"
    PROVE  /\ c \in Clients
           /\ Got(c) \subseteq Got(c)'
           /\ \/ c \in audience[u] \ todo[u] /\ writer[c] = "running"
              \/ /\ c \in todo[u]
                 /\ u \in Elements(queue'[c]) \/ Len(queue[c]) >= Capacity
<1>1. /\ audience \in [Updates -> SUBSET Clients] /\ todo \in [Updates -> SUBSET Clients]
      /\ stage \in [Clients -> {"absent", "found", "refused", "upgraded", "reading",
                                "leaving", "gone"}]
      /\ writer \in [Clients -> {"none", "running", "done"}]
  BY DEF IInv, TypeOK
<1>2. c \in Clients
  <2>1. IInv'
    BY NextIInv
  <2>2. QED
    BY <2>1 DEF IInv, TypeOK
<1>3. ASSUME UNCHANGED <<queue, written, writer, todo, audience>>
      PROVE  Got(c) \subseteq Got(c)' /\ c \in audience[u] \ todo[u] /\ writer[c] = "running"
  BY <1>3 DEF Got, Elements
<1>4. ASSUME NEW d \in Clients,
             \/ Find(d) \/ Upgrade(d) \/ ReadFail(d) \/ Unregister(d) \/ Vanish(d)
      PROVE  UNCHANGED <<queue, written, writer, todo, audience>>
  BY <1>4 DEF Find, Upgrade, ReadFail, Unregister, Vanish, hubVars, castVars
<1>5. ASSUME NEW d \in Clients, Register(d)
      PROVE  Got(c) \subseteq Got(c)' /\ c \in audience[u] \ todo[u] /\ writer[c] = "running"
  <2>1. /\ stage[d] = "upgraded" /\ writer' = [writer EXCEPT ![d] = "running"]
        /\ UNCHANGED <<queue, written, todo, audience>>
    BY <1>5 DEF Register, castVars
  <2>2. c \in audience[u] \ todo[u] /\ stage[c] # "upgraded"
    BY <2>1 DEF IInv, InRoom
  <2>3. writer[c] = "running"
    BY <1>1, <1>2, <2>1, <2>2
  <2>4. QED
    BY <2>1, <2>2, <2>3 DEF Got, Elements
<1>6. ASSUME NEW d \in Clients, Write(d) \/ WriteLast(d) \/ PingFail(d)
      PROVE  Got(c) \subseteq Got(c)' /\ c \in audience[u] \ todo[u] /\ writer[c] = "running"
  <2>1. UNCHANGED <<todo, audience>>
    BY <1>6 DEF Write, WriteLast, PingFail, castVars
  <2>2. QED
    BY <1>2, <1>6, <2>1, WriterKeeps
<1>7. ASSUME NEW v \in Updates, Broadcast(v)
      PROVE  Got(c) \subseteq Got(c)' /\ c \in audience[u] \ todo[u] /\ writer[c] = "running"
  <2>1. PICK room : todo' = [todo EXCEPT ![v] = room] /\ audience' = [audience EXCEPT ![v] = room]
    BY <1>7 DEF Broadcast
  <2>2. UNCHANGED <<queue, written, writer>>
    BY <1>7 DEF Broadcast, hubVars
  <2>3. u # v
    BY <1>1, <2>1
  <2>4. QED
    BY <1>1, <2>1, <2>2, <2>3 DEF Got, Elements
<1>8. ASSUME NEW v \in Updates, Send(v)
      PROVE  /\ Got(c) \subseteq Got(c)'
             /\ \/ c \in audience[u] \ todo[u] /\ writer[c] = "running"
                \/ /\ c \in todo[u]
                   /\ u \in Elements(queue'[c]) \/ Len(queue[c]) >= Capacity
  <2>1. UNCHANGED <<writer, audience>> /\ (u # v => todo'[u] = todo[u])
    BY <1>1, <1>8 DEF Send
  <2>2. /\ Got(c) \subseteq Got(c)'
        /\ c \in todo[v] \ todo'[v] => u \in Updates
             /\ (v \in Elements(queue'[c]) \/ Len(queue[c]) >= Capacity)
    BY <1>2, <1>8, SendReaches
  <2>3. QED
    BY <2>1, <2>2
<1>9. ASSUME NEW i \in Sessions, SessionChange(i)
      PROVE  UNCHANGED <<queue, written, writer, todo, audience>>
  BY <1>9 DEF SessionChange, hubVars, castVars
<1>10. UNCHANGED vars => UNCHANGED <<queue, written, writer, todo, audience>>
  BY DEF vars, hubVars, castVars
<1>11. QED
  BY <1>2, <1>3, <1>4, <1>5, <1>6, <1>7, <1>8, <1>9, <1>10 DEF Next

\* A channel that is full holds Capacity updates.
LEMMA FullChannel ==
    ASSUME IInv, NEW c \in Clients, Len(queue[c]) >= Capacity
    PROVE  Cardinality(Elements(queue[c])) = Capacity
<1> DEFINE q == queue[c]
           none == <<>>
<1>1. q \in Seq(Updates) /\ none \in Seq(Updates) /\ IsInjective(q) /\ Len(q) = Capacity
  BY HubAssumption DEF IInv, TypeOK, Sent
<1>2. IsInjective(none) /\ Elements(none) = {}
  BY DEF IsInjective, Elements
<1>3. q \o none = q
  BY <1>1
<1> HIDE DEF q, none
<1>4. Cardinality(Elements(q \o none)) = Len(q \o none)
  BY <1>1, <1>2, JoinElements
<1>5. QED
  BY <1>1, <1>3, <1>4 DEF q

\* A connection misses an update only if its channel was full, and it gets all that
\* was in it (LostOnlyBehindFullQueue), for any number of connections and updates and
\* any capacity.
THEOREM LossesAreJustified == HistorySpec => []LostOnlyBehindFullQueue
<1>1. HistoryInit => IInv /\ LostOnlyBehindFullQueue
  <2>1. HistoryInit => LostOnlyBehindFullQueue
    BY DEF HistoryInit, Init, LostOnlyBehindFullQueue
  <2>2. QED
    BY <2>1, InitIInv DEF HistoryInit
<1>2. IInv /\ LostOnlyBehindFullQueue /\ [HistoryNext]_<<vars, ahead>>
      => IInv' /\ LostOnlyBehindFullQueue'
  <2> SUFFICES ASSUME IInv, LostOnlyBehindFullQueue, [HistoryNext]_<<vars, ahead>>
               PROVE  IInv' /\ LostOnlyBehindFullQueue'
    OBVIOUS
  <2>1. [Next]_vars
    BY HistoryStep
  <2>2. IInv'
    BY <2>1, NextIInv
  <2>3. ASSUME NEW u \in Updates, NEW c \in audience'[u] \ todo'[u], writer'[c] = "running"
        PROVE  \/ u \in Got(c)'
               \/ ahead'[u][c] \subseteq Got(c)' /\ Cardinality(ahead'[u][c]) = Capacity
    <3>1. /\ c \in Clients
          /\ Got(c) \subseteq Got(c)'
          /\ \/ c \in audience[u] \ todo[u] /\ writer[c] = "running"
             \/ /\ c \in todo[u]
                /\ u \in Elements(queue'[c]) \/ Len(queue[c]) >= Capacity
      BY <2>1, <2>3, Reached
    <3>2. CASE c \notin todo[u]
      <4>1. ahead'[u][c] = ahead[u][c]
        BY <3>1, <3>2 DEF HistoryNext
      <4>2. \/ u \in Got(c)
            \/ ahead[u][c] \subseteq Got(c) /\ Cardinality(ahead[u][c]) = Capacity
        BY <3>1, <3>2 DEF LostOnlyBehindFullQueue
      <4>3. QED
        BY <3>1, <4>1, <4>2
    <3>3. CASE c \in todo[u] /\ u \in Elements(queue'[c])
      BY <3>3 DEF Got, Elements
    <3>4. CASE c \in todo[u] /\ u \notin Elements(queue'[c])
      <4>1. todo' # todo
        BY <2>3, <3>4
      <4>2. ahead'[u][c] = Elements(queue[c])
        BY <2>3, <3>1, <3>4, <4>1 DEF HistoryNext, vars, castVars
      <4>3. Len(queue[c]) >= Capacity
        BY <3>1, <3>4
      <4>4. Cardinality(Elements(queue[c])) = Capacity
        BY <3>1, <4>3, FullChannel
      <4>5. Elements(queue[c]) \subseteq Got(c)'
        BY <3>1 DEF Got
      <4>6. QED
        BY <4>2, <4>4, <4>5
    <3>5. QED
      BY <3>2, <3>3, <3>4
  <2>4. LostOnlyBehindFullQueue'
    BY <2>3 DEF LostOnlyBehindFullQueue
  <2>5. QED
    BY <2>2, <2>4
<1>3. QED
  BY <1>1, <1>2, PTL DEF HistorySpec
=============================================================================
