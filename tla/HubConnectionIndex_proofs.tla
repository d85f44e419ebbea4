---------------------- MODULE HubConnectionIndex_proofs ----------------------
(***************************************************************************)
(* Proofs about HubConnectionIndex, for every set of connections and users.*)
(***************************************************************************)
EXTENDS HubConnectionIndex, SequenceTheorems, TLAPS

-----------------------------------------------------------------------------
(* One list and its positions *)

\* Swap-removal from a slice: its type, its length and its elements.
LEMMA WithoutSlotProperties ==
  ASSUME NEW S, NEW s \in Seq(S), NEW p \in 1..Len(s)
  PROVE  /\ WithoutSlot(s, p) \in Seq(S)
         /\ Len(WithoutSlot(s, p)) = Len(s) - 1
         /\ \A k \in 1..(Len(s) - 1) :
              WithoutSlot(s, p)[k] = IF k = p THEN s[Len(s)] ELSE s[k]
BY DEF WithoutSlot

\* Appending a new element and recording the new length as its position.
LEMMA AppendIndexed ==
  ASSUME NEW S, NEW s \in Seq(S), NEW R, NEW pos, Indexed(s, R, pos),
         NEW wc \in S, wc \notin R, NEW pos2,
         pos2[wc] = Len(s) + 1, \A c \in R : pos2[c] = pos[c]
  PROVE  Indexed(Append(s, wc), R \cup {wc}, pos2)
<1> DEFINE t == Append(s, wc)
<1>1. /\ Len(s) \in Nat
      /\ Len(t) = Len(s) + 1
      /\ t[Len(s) + 1] = wc
      /\ \A k \in 1..Len(s) : t[k] = s[k]
  OBVIOUS
<1> HIDE DEF t
<1>2. ASSUME NEW k \in 1..Len(t)
      PROVE  t[k] \in R \cup {wc} /\ pos2[t[k]] = k
  <2>1. CASE k = Len(s) + 1
    BY <1>1, <2>1
  <2>2. CASE k \in 1..Len(s)
    BY <1>1, <2>2 DEF Indexed
  <2> QED BY <1>1, <2>1, <2>2
<1>3. ASSUME NEW c \in R \cup {wc}
      PROVE  pos2[c] \in 1..Len(t) /\ t[pos2[c]] = c
  BY <1>1 DEF Indexed
<1>4. Indexed(t, R \cup {wc}, pos2)
  BY <1>2, <1>3 DEF Indexed
<1> QED BY <1>4 DEF t

\* Swap-removing an element and giving its position to the last one.
LEMMA WithoutSlotIndexed ==
  ASSUME NEW S, NEW s \in Seq(S), NEW R, NEW pos, Indexed(s, R, pos),
         NEW wc \in R, NEW pos2,
         \A c \in R \ {wc} : pos2[c] = IF c = s[Len(s)] THEN pos[wc] ELSE pos[c]
  PROVE  Indexed(WithoutSlot(s, pos[wc]), R \ {wc}, pos2)
<1> DEFINE t == WithoutSlot(s, pos[wc])
<1>1. pos[wc] \in 1..Len(s) /\ s[pos[wc]] = wc /\ Len(s) \in Nat
  BY DEF Indexed
<1>2. /\ Len(t) = Len(s) - 1
      /\ \A k \in 1..(Len(s) - 1) : t[k] = IF k = pos[wc] THEN s[Len(s)] ELSE s[k]
  BY <1>1, WithoutSlotProperties
<1> HIDE DEF t
<1>3. ASSUME NEW k \in 1..Len(t)
      PROVE  t[k] \in R \ {wc} /\ pos2[t[k]] = k
  <2>1. CASE k = pos[wc]
    BY <1>1, <1>2, <2>1 DEF Indexed
  <2>2. CASE k # pos[wc]
    BY <1>1, <1>2, <2>2 DEF Indexed
  <2> QED BY <2>1, <2>2
<1>4. ASSUME NEW c \in R \ {wc}
      PROVE  pos2[c] \in 1..Len(t) /\ t[pos2[c]] = c
  <2>1. CASE c = s[Len(s)]
    BY <1>1, <1>2, <2>1 DEF Indexed
  <2>2. CASE c # s[Len(s)]
    BY <1>1, <1>2, <2>2 DEF Indexed
  <2> QED BY <2>1, <2>2
<1>5. Indexed(t, R \ {wc}, pos2)
  BY <1>3, <1>4 DEF Indexed
<1> QED BY <1>5 DEF t

-----------------------------------------------------------------------------
(* The operations of the index *)

\* The types of the index, the part of TypeOK that Add and Remove can disturb.
IndexTypeOK ==
  /\ connections \in Seq(Conns)
  /\ connectionsByUserId \in [Users -> Seq(Conns)]
  /\ connectionIndexes \in [Registered -> Position]
  /\ Registered \subseteq Conns

\* Add keeps the three structures in agreement, provided the connection is new.
LEMMA AddKeepsIndex ==
  ASSUME IndexTypeOK, IndexesAgree,
         NEW wc \in Conns, wc \notin Registered, Add(wc)
  PROVE  /\ IndexTypeOK'
         /\ IndexesAgree'
         /\ Registered' = Registered \cup {wc}
         /\ Len(connections') = Len(connections) + 1
<1>1. UserOf[wc] \in Users
  BY UserOfAssumption
<1>2. Registered' = Registered \cup {wc}
  BY DEF Add, Registered
<1>3. /\ connections' = Append(connections, wc)
      /\ connections' \in Seq(Conns)
      /\ Len(connections') = Len(connections) + 1
  BY DEF Add, IndexTypeOK
<1>4. /\ connectionsByUserId' \in [Users -> Seq(Conns)]
      /\ connectionsByUserId'[UserOf[wc]] = Append(connectionsByUserId[UserOf[wc]], wc)
      /\ \A v \in Users \ {UserOf[wc]} : connectionsByUserId'[v] = connectionsByUserId[v]
  BY <1>1 DEF Add, IndexTypeOK
<1>5. /\ connectionIndexes' \in [Registered' -> Position]
      /\ connectionIndexes'[wc].connections = Len(connections) + 1
      /\ connectionIndexes'[wc].connectionsByUserId =
           Len(connectionsByUserId[UserOf[wc]]) + 1
      /\ \A c \in Registered : connectionIndexes'[c] = connectionIndexes[c]
  BY <1>1, <1>2 DEF Add, IndexTypeOK, Position, Registered
<1>6. IndexTypeOK'
  BY <1>2, <1>3, <1>4, <1>5 DEF IndexTypeOK
<1>7. Indexed(connections, Registered, ListPosition)'
  <2>1. /\ ListPosition'[wc] = Len(connections) + 1
        /\ \A c \in Registered : ListPosition'[c] = ListPosition[c]
    BY <1>2, <1>5 DEF ListPosition
  <2>2. Indexed(Append(connections, wc), Registered \cup {wc}, ListPosition')
    BY <2>1, AppendIndexed DEF IndexTypeOK, IndexesAgree
  <2> QED BY <1>2, <1>3, <2>2
<1>8. ASSUME NEW u \in Users
      PROVE  Indexed(connectionsByUserId[u], RegisteredFor(u), UserPosition)'
  <2>1. /\ UserPosition'[wc] = Len(connectionsByUserId[UserOf[wc]]) + 1
        /\ \A c \in Registered : UserPosition'[c] = UserPosition[c]
    BY <1>2, <1>5 DEF UserPosition
  <2>2. Indexed(connectionsByUserId[u], RegisteredFor(u), UserPosition)
    BY DEF IndexesAgree
  <2>3. CASE u = UserOf[wc]
    <3>1. RegisteredFor(u)' = RegisteredFor(u) \cup {wc} /\ wc \notin RegisteredFor(u)
      BY <1>2, <2>3 DEF RegisteredFor
    <3>2. \A c \in RegisteredFor(u) : UserPosition'[c] = UserPosition[c]
      BY <2>1 DEF RegisteredFor
    <3>3. connectionsByUserId[u] \in Seq(Conns)
      BY DEF IndexTypeOK
    <3>4. Indexed(Append(connectionsByUserId[u], wc), RegisteredFor(u) \cup {wc}, UserPosition')
      BY <2>1, <2>2, <2>3, <3>1, <3>2, <3>3, AppendIndexed
    <3> QED BY <1>4, <2>3, <3>1, <3>4
  <2>4. CASE u # UserOf[wc]
    <3>1. RegisteredFor(u)' = RegisteredFor(u)
      BY <1>2, <2>4 DEF RegisteredFor
    <3>2. connectionsByUserId'[u] = connectionsByUserId[u]
      BY <1>4, <2>4
    <3> QED BY <2>1, <2>2, <3>1, <3>2 DEF Indexed, RegisteredFor
  <2> QED BY <2>3, <2>4
<1> QED BY <1>2, <1>3, <1>6, <1>7, <1>8 DEF IndexesAgree

\* Remove keeps the three structures in agreement; a surviving connection
\* keeps its position in each list or moves to the one that was freed.
LEMMA RemoveKeepsIndex ==
  ASSUME IndexTypeOK, IndexesAgree,
         NEW wc \in Registered, Remove(wc)
  PROVE  /\ IndexTypeOK'
         /\ IndexesAgree'
         /\ Registered' = Registered \ {wc}
         /\ Len(connections') = Len(connections) - 1
         /\ connectionIndexes' = IndexesWithout(wc)
<1> DEFINE u == UserOf[wc]
           p == ListPosition[wc]
           q == UserPosition[wc]
           lastOf(s) == s[Len(s)]
<1>1. u \in Users /\ connectionsByUserId[u] \in Seq(Conns) /\ wc \in RegisteredFor(u)
  BY UserOfAssumption DEF IndexTypeOK, RegisteredFor
<1>2. /\ p = connectionIndexes[wc].connections
      /\ q = connectionIndexes[wc].connectionsByUserId
  BY DEF ListPosition, UserPosition
<1>3. /\ p \in 1..Len(connections)
      /\ q \in 1..Len(connectionsByUserId[u])
  BY <1>1 DEF IndexesAgree, Indexed
<1>4. Registered' = Registered \ {wc} /\ connectionIndexes' = IndexesWithout(wc)
  BY DEF Remove, IndexesWithout, Registered
<1>5. /\ connections' = WithoutSlot(connections, p)
      /\ connections' \in Seq(Conns)
      /\ Len(connections') = Len(connections) - 1
  <2>1. connections' = WithoutSlot(connections, p)
    BY <1>2 DEF Remove
  <2> QED BY <1>3, <2>1, WithoutSlotProperties DEF IndexTypeOK
<1>6. /\ connectionsByUserId' \in [Users -> Seq(Conns)]
      /\ connectionsByUserId'[u] = WithoutSlot(connectionsByUserId[u], q)
      /\ \A v \in Users \ {u} : connectionsByUserId'[v] = connectionsByUserId[v]
  <2>1. connectionsByUserId' =
          [connectionsByUserId EXCEPT ![u] = WithoutSlot(connectionsByUserId[u], q)]
    BY <1>2 DEF Remove
  <2>2. WithoutSlot(connectionsByUserId[u], q) \in Seq(Conns)
    BY <1>1, <1>3, WithoutSlotProperties
  <2> QED BY <1>1, <2>1, <2>2 DEF IndexTypeOK
<1>7. \A c \in Registered \ {wc} :
        /\ connectionIndexes'[c].connections =
             IF c = lastOf(connections) THEN p ELSE connectionIndexes[c].connections
        /\ connectionIndexes'[c].connectionsByUserId =
             IF c = lastOf(connectionsByUserId[u]) THEN q
             ELSE connectionIndexes[c].connectionsByUserId
  BY <1>2, <1>4 DEF IndexesWithout
<1>8. connectionIndexes' \in [Registered' -> Position]
  <2>1. p \in Nat \ {0} /\ q \in Nat \ {0}
    BY <1>1, <1>3 DEF IndexTypeOK
  <2>2. \A c \in Registered : /\ connectionIndexes[c].connections \in Nat \ {0}
                              /\ connectionIndexes[c].connectionsByUserId \in Nat \ {0}
    BY DEF IndexTypeOK, Position
  <2> HIDE DEF p, q
  <2> QED BY <1>2, <1>4, <2>1, <2>2 DEF IndexesWithout, Position
<1>9. Indexed(connections, Registered, ListPosition)'
  <2>1. \A c \in Registered \ {wc} :
          ListPosition'[c] = IF c = lastOf(connections) THEN p ELSE ListPosition[c]
    BY <1>4, <1>7 DEF ListPosition
  <2>2. Indexed(WithoutSlot(connections, p), Registered \ {wc}, ListPosition')
    BY <2>1, WithoutSlotIndexed DEF IndexTypeOK, IndexesAgree
  <2> QED BY <1>4, <1>5, <2>2
<1>10. ASSUME NEW v \in Users
       PROVE  Indexed(connectionsByUserId[v], RegisteredFor(v), UserPosition)'
  <2>1. \A c \in Registered \ {wc} :
          UserPosition'[c] = IF c = lastOf(connectionsByUserId[u]) THEN q
                             ELSE UserPosition[c]
    BY <1>4, <1>7 DEF UserPosition
  <2>2. Indexed(connectionsByUserId[v], RegisteredFor(v), UserPosition)
    BY DEF IndexesAgree
  <2>3. RegisteredFor(v)' = RegisteredFor(v) \ {wc}
    BY <1>4 DEF RegisteredFor
  <2>4. CASE v = u
    <3>1. \A c \in RegisteredFor(u) \ {wc} :
            UserPosition'[c] = IF c = lastOf(connectionsByUserId[u]) THEN q
                               ELSE UserPosition[c]
      BY <2>1 DEF RegisteredFor
    <3>2. Indexed(WithoutSlot(connectionsByUserId[u], q), RegisteredFor(u) \ {wc}, UserPosition')
      BY <1>1, <2>2, <2>4, <3>1, WithoutSlotIndexed
    <3> QED BY <1>6, <2>3, <2>4, <3>2
  <2>5. CASE v # u
    <3>1. RegisteredFor(v)' = RegisteredFor(v)
      BY <2>3, <2>5 DEF RegisteredFor
    <3>2. connectionsByUserId'[v] = connectionsByUserId[v]
      BY <1>6, <2>5
    <3>3. \A c \in RegisteredFor(v) : UserPosition'[c] = UserPosition[c]
      <4>1. lastOf(connectionsByUserId[u]) \in RegisteredFor(u)
        BY <1>1, <1>3 DEF IndexesAgree, Indexed, IndexTypeOK
      <4> QED BY <2>1, <2>5, <4>1 DEF RegisteredFor
    <3> QED BY <2>2, <3>1, <3>2, <3>3 DEF Indexed
  <2> QED BY <2>4, <2>5
<1> QED BY <1>4, <1>5, <1>6, <1>8, <1>9, <1>10 DEF IndexTypeOK, IndexesAgree

-----------------------------------------------------------------------------
(* The inductive invariant *)

\* Nothing is registered and no loop is running.
LEMMA InitIndexInv == Init => IndexInv
<1> SUFFICES ASSUME Init PROVE IndexInv
  OBVIOUS
<1>1. Registered = {}
  BY DEF Init, Registered
<1>2. TypeOK
  BY <1>1 DEF Init, TypeOK, Position
<1>3. IndexesAgree
  BY <1>1 DEF Init, IndexesAgree, Indexed, RegisteredFor
<1>4. CandidatesLive /\ CandidatesAhead /\ RegisteredOnce /\ CountNeverLow
  BY <1>1 DEF Init, CandidatesLive, CandidatesAhead, RegisteredOnce, CountNeverLow
<1> QED BY <1>2, <1>3, <1>4 DEF IndexInv

\* Outside a loop there is no candidate, so that an operation of the index
\* has nothing but the index, the count and the registrations to keep right.
LEMMA RegisterKeepsInv ==
  ASSUME IndexInv, NEW wc \in Conns, Register(wc)
  PROVE  IndexInv'
<1>1. wc \notin Registered /\ wc \notin closed /\ IndexTypeOK
  BY DEF Register, IndexInv, RegisteredOnce, TypeOK, IndexTypeOK
<1>2. /\ IndexTypeOK' /\ IndexesAgree'
      /\ Registered' = Registered \cup {wc}
  BY <1>1, AddKeepsIndex DEF Register, IndexInv
<1>3. TypeOK'
  BY <1>2, LenProperties DEF Register, IndexInv, TypeOK, IndexTypeOK, loop
<1>4. CandidatesLive' /\ CandidatesAhead'
  BY DEF Register, IndexInv, TypeOK, CandidatesLive, CandidatesAhead, loop
<1>5. RegisteredOnce'
  BY <1>1, <1>2 DEF Register, IndexInv, RegisteredOnce
<1>6. CountNeverLow'
  BY <1>3 DEF Register, CountNeverLow, TypeOK
<1> QED BY <1>2, <1>3, <1>4, <1>5, <1>6 DEF IndexInv

\* The unregister case of the hub (web_hub.go:443-445), between two broadcasts, keeps the invariant.
LEMMA UnregisterKeepsInv ==
  ASSUME IndexInv, NEW wc \in Conns, Unregister(wc)
  PROVE  IndexInv'
<1>1. IndexTypeOK /\ Remove(wc)
  BY DEF Unregister, IndexInv, TypeOK, IndexTypeOK
<1>2. IndexTypeOK' /\ IndexesAgree' /\ Registered' \subseteq Registered
  <2>1. CASE wc \in Registered
    BY <1>1, <2>1, RemoveKeepsIndex DEF IndexInv
  <2>2. CASE wc \notin Registered
    <3>1. UNCHANGED index
      BY <1>1, <2>2 DEF Remove
    <3> QED BY <1>1, <3>1 DEF index, IndexInv, IndexTypeOK, IndexesAgree, Indexed,
                              Registered, RegisteredFor, ListPosition, UserPosition
  <2> QED BY <2>1, <2>2
<1>3. TypeOK'
  BY <1>2, LenProperties DEF Unregister, IndexInv, TypeOK, IndexTypeOK, loop
<1>4. CandidatesLive' /\ CandidatesAhead'
  BY DEF Unregister, IndexInv, TypeOK, CandidatesLive, CandidatesAhead, loop
<1>5. RegisteredOnce'
  BY <1>2 DEF Unregister, IndexInv, RegisteredOnce
<1>6. CountNeverLow'
  BY <1>3 DEF Unregister, CountNeverLow, TypeOK
<1> QED BY <1>2, <1>3, <1>4, <1>5, <1>6 DEF IndexInv

\* The candidates of a new broadcast are a list of the index.
LEMMA StartBroadcastKeepsInv ==
  ASSUME IndexInv, NEW s \in Users \cup {"all"}, StartBroadcast(s)
  PROVE  IndexInv'
<1> USE DEF StartBroadcast
<1>1. /\ Registered' = Registered
      /\ ListPosition' = ListPosition
      /\ UserPosition' = UserPosition
      /\ \A u \in Users : RegisteredFor(u)' = RegisteredFor(u)
  BY DEF index, Registered, ListPosition, UserPosition, RegisteredFor
<1>2. TypeOK'
  BY <1>1, ScopeAssumption DEF IndexInv, TypeOK, index
<1>3. IndexesAgree' /\ RegisteredOnce' /\ CountNeverLow'
  BY <1>1 DEF IndexInv, IndexesAgree, RegisteredOnce, CountNeverLow, index
<1>4. CASE s = "all"
  <2>1. candidates' = connections /\ Indexed(connections, Registered, ListPosition)
    BY <1>4 DEF IndexInv, IndexesAgree
  <2>2. CandidatesLive'
    BY <1>1, <2>1 DEF IndexInv, RegisteredOnce, CandidatesLive, Indexed
  <2>3. CandidatesAhead'
    BY <1>1, <1>4, <2>1, LenProperties
    DEF IndexInv, TypeOK, CandidatesAhead, LoopPosition, Indexed
  <2> QED BY <1>2, <1>3, <2>2, <2>3 DEF IndexInv
<1>5. CASE s \in Users
  <2>1. /\ candidates' = connectionsByUserId[s]
        /\ Indexed(connectionsByUserId[s], RegisteredFor(s), UserPosition)
        /\ s # "all" /\ s # "none"
        /\ connectionsByUserId[s] \in Seq(Conns)
    BY <1>5, ScopeAssumption DEF IndexInv, TypeOK, IndexesAgree
  <2>2. CandidatesLive'
    BY <1>1, <2>1 DEF IndexInv, RegisteredOnce, CandidatesLive, Indexed, RegisteredFor
  <2>3. CandidatesAhead'
    BY <1>1, <2>1, LenProperties
    DEF CandidatesAhead, LoopPosition, Indexed, RegisteredFor
  <2> QED BY <1>2, <1>3, <2>2, <2>3 DEF IndexInv
<1> QED BY <1>4, <1>5

\* Passing over the visited connection (web_hub.go:485-488) keeps the invariant.
LEMMA DeliverKeepsInv ==
  ASSUME IndexInv, Deliver
  PROVE  IndexInv'
<1> USE DEF Deliver
<1>1. /\ Registered' = Registered
      /\ ListPosition' = ListPosition
      /\ UserPosition' = UserPosition
      /\ \A u \in Users : RegisteredFor(u)' = RegisteredFor(u)
  BY DEF index, Registered, ListPosition, UserPosition, RegisteredFor
<1>2. TypeOK' /\ next' = next + 1
  BY <1>1 DEF IndexInv, TypeOK, index
<1>3. IndexesAgree' /\ RegisteredOnce' /\ CountNeverLow'
  BY <1>1 DEF IndexInv, IndexesAgree, RegisteredOnce, CountNeverLow, index
<1>4. CandidatesLive'
  BY <1>1, <1>2 DEF IndexInv, TypeOK, CandidatesLive
<1>5. CandidatesAhead'
  BY <1>1, <1>2 DEF IndexInv, TypeOK, CandidatesAhead, LoopPosition
<1> QED BY <1>2, <1>3, <1>4, <1>5 DEF IndexInv

\* Dropping the visited connection overwrites nothing the loop has still to read.
LEMMA DropKeepsAhead ==
  ASSUME IndexInv, Drop
  PROVE  /\ candidates[next] \in Registered
         /\ IndexTypeOK' /\ IndexesAgree'
         /\ Registered' = Registered \ {candidates[next]}
         /\ Len(connections') = Len(connections) - 1
         /\ candidates' \in Seq(Conns)
         /\ Len(candidates') = Len(candidates)
         /\ \A k \in (next + 1)..Len(candidates) :
              /\ candidates'[k] = candidates[k]
              /\ LoopPosition(candidates[k])' <= k
<1> DEFINE wc == candidates[next]
<1>1. /\ scope \in Users \cup {"all"}
      /\ next \in 1..Len(candidates)
      /\ wc \in Registered
      /\ scope' = scope
      /\ Remove(wc)
      /\ candidates' = CandidatesWithout(wc)
      /\ candidates \in Seq(Conns)
  BY DEF Drop, InLoop, IndexInv, TypeOK, CandidatesLive
<1>2. /\ IndexTypeOK' /\ IndexesAgree'
      /\ Registered' = Registered \ {wc}
      /\ Len(connections') = Len(connections) - 1
      /\ connectionIndexes' = IndexesWithout(wc)
  BY <1>1, RemoveKeepsIndex DEF IndexInv, TypeOK, IndexTypeOK
<1>3. \A k \in next..Len(candidates) :
        /\ candidates[k] \in Registered
        /\ LoopPosition(candidates[k]) <= k
        /\ scope # "all" => UserOf[candidates[k]] = scope
        /\ k # next => candidates[k] # wc
  BY <1>1 DEF IndexInv, TypeOK, CandidatesLive, CandidatesAhead
<1>4. /\ ListPosition[wc] = connectionIndexes[wc].connections
      /\ UserPosition[wc] = connectionIndexes[wc].connectionsByUserId
      /\ \A c \in Registered \ {wc} :
           /\ ListPosition'[c] = IF c = connections[Len(connections)]
                                 THEN ListPosition[wc] ELSE ListPosition[c]
           /\ UserPosition'[c] =
                IF c = connectionsByUserId[UserOf[wc]][Len(connectionsByUserId[UserOf[wc]])]
                THEN UserPosition[wc] ELSE UserPosition[c]
  BY <1>1, <1>2 DEF ListPosition, UserPosition, IndexesWithout
<1>5. CASE scope = "all"
  <2>1. ListPosition[wc] \in 1..Len(connections) /\ ListPosition[wc] <= next
    BY <1>1, <1>3, <1>5 DEF IndexInv, IndexesAgree, Indexed, LoopPosition
  <2>2. connections[Len(connections)] \in Conns /\ Len(connections) \in Nat
    BY <2>1, LenProperties DEF IndexInv, TypeOK
  <2>3. candidates' = [candidates EXCEPT ![ListPosition[wc]] = connections[Len(connections)]]
    BY <1>1, <1>4, <1>5 DEF CandidatesWithout
  <2>4. /\ candidates' \in Seq(Conns)
        /\ Len(candidates') = Len(candidates)
        /\ \A k \in 1..Len(candidates) : k # ListPosition[wc] => candidates'[k] = candidates[k]
    BY <1>1, <2>1, <2>2, <2>3, ExceptSeq
  <2>5. ASSUME NEW k \in (next + 1)..Len(candidates)
        PROVE  candidates'[k] = candidates[k] /\ LoopPosition(candidates[k])' <= k
    <3>1. k \in 1..Len(candidates) /\ k # next /\ next < k /\ k \in next..Len(candidates)
      BY <1>1
    <3>2. candidates'[k] = candidates[k]
      BY <1>1, <2>1, <2>2, <2>4, <3>1
    <3>3. candidates[k] \in Registered \ {wc} /\ ListPosition[candidates[k]] <= k
      BY <1>3, <1>5, <3>1 DEF LoopPosition
    <3>4. ListPosition'[candidates[k]] <= k
      BY <1>1, <1>4, <2>1, <2>2, <3>1, <3>3
    <3>5. ListPosition'[candidates'[k]] <= k
      BY <3>2, <3>4
    <3> QED BY <1>1, <1>5, <3>2, <3>5 DEF LoopPosition
  <2> QED BY <1>1, <1>2, <2>4, <2>5
<1>6. CASE scope # "all"
  <2> DEFINE users == connectionsByUserId[UserOf[wc]]
  <2>0. scope \in Users /\ UserOf[wc] = scope /\ wc \in RegisteredFor(scope)
        /\ users \in Seq(Conns)
    BY <1>1, <1>3, <1>6 DEF RegisteredFor, IndexInv, TypeOK
  <2>1. UserPosition[wc] \in 1..Len(users) /\ UserPosition[wc] <= next
    BY <1>1, <1>3, <1>6, <2>0 DEF IndexInv, IndexesAgree, Indexed, LoopPosition
  <2>2. users[Len(users)] \in Conns /\ Len(users) \in Nat
    BY <2>0, <2>1, LenProperties
  <2>3. candidates' = [candidates EXCEPT ![UserPosition[wc]] = users[Len(users)]]
    BY <1>1, <1>4, <1>6 DEF CandidatesWithout
  <2>4. /\ candidates' \in Seq(Conns)
        /\ Len(candidates') = Len(candidates)
        /\ \A k \in 1..Len(candidates) : k # UserPosition[wc] => candidates'[k] = candidates[k]
    BY <1>1, <2>1, <2>2, <2>3, ExceptSeq
  <2>5. ASSUME NEW k \in (next + 1)..Len(candidates)
        PROVE  candidates'[k] = candidates[k] /\ LoopPosition(candidates[k])' <= k
    <3>1. k \in 1..Len(candidates) /\ k # next /\ next < k /\ k \in next..Len(candidates)
      BY <1>1
    <3>2. candidates'[k] = candidates[k]
      BY <1>1, <2>1, <2>2, <2>4, <3>1
    <3>3. candidates[k] \in Registered \ {wc} /\ UserPosition[candidates[k]] <= k
      BY <1>3, <1>6, <3>1 DEF LoopPosition
    <3>4. UserPosition'[candidates[k]] <= k
      BY <1>1, <1>4, <2>1, <2>2, <3>1, <3>3
    <3>5. UserPosition'[candidates'[k]] <= k
      BY <3>2, <3>4
    <3> QED BY <1>1, <1>6, <3>2, <3>5 DEF LoopPosition
  <2> QED BY <1>1, <1>2, <2>4, <2>5
<1> QED BY <1>5, <1>6

\* Removing the visited connection inside the loop (web_hub.go:492) keeps the invariant.
LEMMA DropKeepsInv ==
  ASSUME IndexInv, Drop
  PROVE  IndexInv'
<1> DEFINE wc == candidates[next]
<1>1. /\ wc \in Registered
      /\ IndexTypeOK' /\ IndexesAgree'
      /\ Registered' = Registered \ {wc}
      /\ Len(connections') = Len(connections) - 1
      /\ candidates' \in Seq(Conns)
      /\ Len(candidates') = Len(candidates)
      /\ \A k \in (next + 1)..Len(candidates) :
           /\ candidates'[k] = candidates[k]
           /\ LoopPosition(candidates[k])' <= k
  BY DropKeepsAhead
<1>2. /\ next \in Nat /\ next' = next + 1 /\ scope' = scope /\ scope # "none"
      /\ closed' = closed \cup {wc} /\ unregistered' = unregistered
      /\ connectionCount' = connectionCount
      /\ next <= Len(candidates) /\ Len(candidates) \in Nat
      /\ connectionCount \in Nat /\ Len(connections) \in Nat
  BY LenProperties DEF Drop, InLoop, IndexInv, TypeOK
<1>3. TypeOK'
  BY <1>1, <1>2 DEF IndexInv, TypeOK, IndexTypeOK
<1>4. \A k \in (next + 1)..Len(candidates) :
        /\ candidates[k] \in Registered \ {wc}
        /\ candidates[k] \notin closed
        /\ scope # "all" => UserOf[candidates[k]] = scope
        /\ \A j \in (next + 1)..Len(candidates) :
             candidates[j] = candidates[k] => j = k
  BY <1>2 DEF IndexInv, CandidatesLive, CandidatesAhead
<1>5. CandidatesLive'
  BY <1>1, <1>2, <1>4 DEF CandidatesLive
<1>6. CandidatesAhead'
  <2>1. ASSUME NEW k \in next'..Len(candidates')
        PROVE  LoopPosition(candidates[k])' <= k
    BY <1>1, <1>2
  <2> QED BY <1>1, <1>2, <1>4, <2>1 DEF CandidatesAhead
<1>7. RegisteredOnce'
  BY <1>1, <1>2 DEF IndexInv, RegisteredOnce
<1>8. CountNeverLow'
  BY <1>1, <1>2 DEF IndexInv, CountNeverLow
<1> QED BY <1>1, <1>3, <1>5, <1>6, <1>7, <1>8 DEF IndexInv

\* The end of the broadcast loop keeps the invariant.
LEMMA FinishKeepsInv ==
  ASSUME IndexInv, Finish
  PROVE  IndexInv'
<1> USE DEF Finish
<1>1. /\ Registered' = Registered
      /\ ListPosition' = ListPosition
      /\ UserPosition' = UserPosition
      /\ \A u \in Users : RegisteredFor(u)' = RegisteredFor(u)
  BY DEF index, Registered, ListPosition, UserPosition, RegisteredFor
<1>2. TypeOK'
  BY <1>1 DEF IndexInv, TypeOK, index
<1>3. IndexesAgree' /\ RegisteredOnce' /\ CountNeverLow'
  BY <1>1 DEF IndexInv, IndexesAgree, RegisteredOnce, CountNeverLow, index
<1>4. CandidatesLive' /\ CandidatesAhead'
  BY DEF CandidatesLive, CandidatesAhead
<1> QED BY <1>2, <1>3, <1>4 DEF IndexInv

\* Every step preserves the invariant.
LEMMA NextIndexInv == IndexInv /\ [Next]_vars => IndexInv'
<1> SUFFICES ASSUME IndexInv, [Next]_vars PROVE IndexInv'
  OBVIOUS
<1>1. ASSUME NEW wc \in Conns, Register(wc) PROVE IndexInv'
  BY <1>1, RegisterKeepsInv
<1>2. ASSUME NEW wc \in Conns, Unregister(wc) PROVE IndexInv'
  BY <1>2, UnregisterKeepsInv
<1>3. ASSUME NEW s \in Users \cup {"all"}, StartBroadcast(s) PROVE IndexInv'
  BY <1>3, StartBroadcastKeepsInv
<1>4. CASE Deliver
  BY <1>4, DeliverKeepsInv
<1>5. CASE Drop
  BY <1>5, DropKeepsInv
<1>6. CASE Finish
  BY <1>6, FinishKeepsInv
<1>7. CASE UNCHANGED vars
  <2> USE <1>7 DEF vars, index, loop
  <2>1. /\ Registered' = Registered
        /\ ListPosition' = ListPosition
        /\ UserPosition' = UserPosition
        /\ \A u \in Users : RegisteredFor(u)' = RegisteredFor(u)
    BY DEF Registered, ListPosition, UserPosition, RegisteredFor
  <2>2. TypeOK'
    BY <2>1 DEF IndexInv, TypeOK
  <2>3. IndexesAgree' /\ RegisteredOnce' /\ CountNeverLow'
    BY <2>1 DEF IndexInv, IndexesAgree, RegisteredOnce, CountNeverLow
  <2>4. CandidatesLive' /\ CandidatesAhead'
    BY <2>1 DEF IndexInv, CandidatesLive, CandidatesAhead, LoopPosition
  <2> QED BY <2>2, <2>3, <2>4 DEF IndexInv
<1> QED BY <1>1, <1>2, <1>3, <1>4, <1>5, <1>6, <1>7 DEF Next

\* The invariant holds in every reachable state.
THEOREM IndexInvariant == Spec => []IndexInv
<1>1. Init => IndexInv
  BY InitIndexInv
<1>2. IndexInv /\ [Next]_vars => IndexInv'
  BY NextIndexInv
<1> QED BY <1>1, <1>2, PTL DEF Spec

\* For any connections and users, the three structures of the index agree
\* after any sequence of registrations, unregistrations and drops.
THEOREM IndexAgreement == Spec => []IndexesAgree
<1>1. IndexInv => IndexesAgree
  BY DEF IndexInv
<1> QED BY <1>1, IndexInvariant, PTL

\* For any connections and users, the broadcast loop never sends on, or
\* closes, a channel that it has closed already.
THEOREM LoopSafety == Spec => []CandidatesLive
<1>1. IndexInv => CandidatesLive
  BY DEF IndexInv
<1> QED BY <1>1, IndexInvariant, PTL

\* The types of the variables, and the count of connections, which may only
\* be too high.
THEOREM TypeCorrectness == Spec => [](TypeOK /\ CountNeverLow)
<1>1. IndexInv => TypeOK /\ CountNeverLow
  BY DEF IndexInv
<1> QED BY <1>1, IndexInvariant, PTL

-----------------------------------------------------------------------------
(* The index implements a set *)

\* All() lists the keys of the map, ForUser(u) those filed under u.
LEMMA ListsAreSets ==
  ASSUME IndexInv
  PROVE  /\ Members = Registered
         /\ \A u \in Users :
              {connectionsByUserId[u][k] : k \in 1..Len(connectionsByUserId[u])}
                = RegisteredFor(u)
<1>1. Members = Registered
  BY DEF IndexInv, IndexesAgree, Indexed, Members
<1>2. ASSUME NEW u \in Users
      PROVE  {connectionsByUserId[u][k] : k \in 1..Len(connectionsByUserId[u])}
               = RegisteredFor(u)
  BY DEF IndexInv, IndexesAgree, Indexed
<1> QED BY <1>1, <1>2

\* Visiting a candidate takes it, and no other, from those that remain.
LEMMA VisitTakesOne ==
  ASSUME IndexInv, InLoop, next' = next + 1, Len(candidates') = Len(candidates),
         \A k \in (next + 1)..Len(candidates) : candidates'[k] = candidates[k]
  PROVE  /\ candidates[next] \in Remaining
         /\ Remaining' = Remaining \ {candidates[next]}
<1>1. /\ next \in Nat \ {0} /\ Len(candidates) \in Nat
      /\ next \in next..Len(candidates)
      /\ next..Len(candidates) = {next} \cup ((next + 1)..Len(candidates))
  BY LenProperties DEF IndexInv, TypeOK, InLoop
<1>2. \A k \in (next + 1)..Len(candidates) : candidates[k] # candidates[next]
  BY <1>1 DEF IndexInv, CandidatesAhead
<1>3. Remaining = {candidates[next]} \cup {candidates[k] : k \in (next + 1)..Len(candidates)}
  BY <1>1 DEF Remaining
<1>4. Remaining' = {candidates[k] : k \in (next + 1)..Len(candidates)}
  BY DEF Remaining
<1> QED BY <1>2, <1>3, <1>4

\* Every step of the index is a step of the set, or leaves it unchanged.
LEMMA StepRefines ==
  ASSUME IndexInv, IndexInv', [Next]_vars
  PROVE  [Membership!Next]_(Membership!vars)
<1>1. /\ Members = Registered
      /\ \A u \in Users :
           {connectionsByUserId[u][k] : k \in 1..Len(connectionsByUserId[u])}
             = RegisteredFor(u)
  BY ListsAreSets
<1>2. Members' = Registered'
  BY DEF IndexInv, IndexesAgree, Indexed, Members
<1>3. ASSUME NEW wc \in Conns, Register(wc)
      PROVE  Membership!Register(wc)
  <2>1. wc \notin Registered /\ IndexTypeOK
    BY <1>3 DEF Register, IndexInv, RegisteredOnce, TypeOK, IndexTypeOK
  <2>2. Registered' = Registered \cup {wc}
    BY <1>3, <2>1, AddKeepsIndex DEF Register, IndexInv
  <2>3. Remaining' = Remaining
    BY <1>3 DEF Register, loop, Remaining
  <2> QED BY <1>1, <1>2, <1>3, <2>2, <2>3 DEF Register, loop, Membership!Register
<1>4. ASSUME NEW wc \in Conns, Unregister(wc)
      PROVE  Membership!Unregister(wc)
  <2>1. Registered' = Registered \ {wc}
    <3>1. CASE wc \in Registered
      BY <1>4, <3>1, RemoveKeepsIndex DEF Unregister, IndexInv, TypeOK, IndexTypeOK
    <3>2. CASE wc \notin Registered
      BY <1>4, <3>2 DEF Unregister, Remove, index, Registered
    <3> QED BY <3>1, <3>2
  <2>2. Remaining' = Remaining
    BY <1>4 DEF Unregister, loop, Remaining
  <2> QED BY <1>1, <1>2, <1>4, <2>1, <2>2 DEF Unregister, loop, Membership!Unregister
<1>5. ASSUME NEW s \in Users \cup {"all"}, StartBroadcast(s)
      PROVE  Membership!Next
  <2>1. /\ Members' = Members /\ unregistered' = unregistered /\ closed' = closed
        /\ ~(scope # "none") /\ scope' # "none"
        /\ Remaining' = {candidates'[k] : k \in 1..Len(candidates')}
    BY <1>5, ScopeAssumption DEF StartBroadcast, index, Members, Remaining
  <2>2. CASE s = "all"
    <3>1. Remaining' = Members
      BY <1>5, <2>1, <2>2 DEF StartBroadcast, Members
    <3> QED BY <2>1, <3>1 DEF Membership!Next, Membership!Start
  <2>3. CASE s \in Users
    <3>1. Remaining' = RegisteredFor(s)
      BY <1>1, <1>5, <2>1, <2>3, ScopeAssumption DEF StartBroadcast
    <3>2. Membership!Start(Membership!ForUser(s))
      BY <1>1, <2>1, <3>1 DEF Membership!Start, Membership!ForUser, RegisteredFor
    <3> QED BY <2>3, <3>2 DEF Membership!Next
  <2> QED BY <2>2, <2>3
<1>6. CASE Deliver
  <2>1. candidates[next] \in Remaining /\ Remaining' = Remaining \ {candidates[next]}
    BY <1>6, VisitTakesOne DEF Deliver
  <2>2. /\ candidates[next] \in Registered /\ candidates[next] \notin closed
        /\ candidates[next] \in Conns
    BY <1>6 DEF Deliver, InLoop, IndexInv, TypeOK, CandidatesLive
  <2>3. Members' = Members
    BY <1>6 DEF Deliver, index, Members
  <2>4. Membership!Deliver(candidates[next])
    BY <1>1, <1>6, <2>1, <2>2, <2>3
    DEF Deliver, InLoop, Membership!Deliver, Membership!Visit
  <2> QED BY <2>2, <2>4 DEF Membership!Next
<1>7. CASE Drop
  <2>1. /\ Registered' = Registered \ {candidates[next]}
        /\ Len(candidates') = Len(candidates)
        /\ \A k \in (next + 1)..Len(candidates) : candidates'[k] = candidates[k]
    BY <1>7, DropKeepsAhead
  <2>2. candidates[next] \in Remaining /\ Remaining' = Remaining \ {candidates[next]}
    BY <1>7, <2>1, VisitTakesOne DEF Drop
  <2>3. /\ candidates[next] \in Registered /\ candidates[next] \notin closed
        /\ candidates[next] \in Conns
    BY <1>7 DEF Drop, InLoop, IndexInv, TypeOK, CandidatesLive
  <2>4. Membership!Drop(candidates[next])
    BY <1>1, <1>2, <1>7, <2>1, <2>2, <2>3
    DEF Drop, InLoop, Membership!Drop, Membership!Visit
  <2> QED BY <2>3, <2>4 DEF Membership!Next
<1>8. CASE Finish
  <2>1. Remaining = {} /\ Remaining' = {}
    BY <1>8 DEF Finish, Remaining, IndexInv, TypeOK
  <2>2. Members' = Members
    BY <1>8 DEF Finish, index, Members
  <2>3. Membership!Finish
    BY <1>8, <2>1, <2>2 DEF Finish, Membership!Finish
  <2> QED BY <2>3 DEF Membership!Next
<1>9. CASE UNCHANGED vars
  BY <1>9 DEF vars, index, loop, Members, Remaining, Membership!vars
<1> QED BY <1>3, <1>4, <1>5, <1>6, <1>7, <1>8, <1>9 DEF Next, Membership!Next

\* For any connections and users, the index behaves as the set of
\* HubMembership: a broadcast visits exactly the connections registered in its
\* scope when it started, each once, although it removes some on the way.
THEOREM IndexRefinesMembership == Spec => ImplementsMembership
<1>1. Init => Membership!Init
  BY DEF Init, Membership!Init, Members, Remaining
<1>2. IndexInv /\ IndexInv' /\ [Next]_vars => [Membership!Next]_(Membership!vars)
  BY StepRefines
<1> QED BY <1>1, <1>2, IndexInvariant, PTL DEF Spec, ImplementsMembership, Membership!Spec
=============================================================================
