--------------------------- MODULE RequestsProofs ---------------------------
(***************************************************************************)
(* Proofs about the parts of a request and about what happens before the   *)
(* first one: the update of characteristics, the buffer a handler lends    *)
(* to the allocator, the services and the ids of a sketch, the query of a  *)
(* URL, the writer of JSON, the coding of values in pairing messages - for *)
(* every set of clients and characteristics, every size, every sketch,     *)
(* every query, every order of calls and every list of values.             *)
(***************************************************************************)
EXTENDS HomeIntegration, Accessories, ScratchAllocator, CharacteristicUpdates, QueryParams,
        JsonStream, TlvCodec, ListsProofs

------------------------------------------------------------------------------
(* The update of characteristics.                                          *)
Event == {<<ch, Converted(ch, j)>> : ch \in Characteristic, j \in Json}

Hearing == [Client -> Seq(Event)]

UpdInv ==
  /\ DOMAIN value = Characteristic
  /\ callback \in [Characteristic -> Seq(Client)]
  /\ SubscribedOnce
  /\ writer \in Client \union {Nobody}
  /\ items \in Seq(Items) /\ statuses \in Seq(Int)
  /\ writer = Nobody => statuses = <<>>
  /\ heard \in Hearing

(* Those on the list hear of the event last, the others nothing.           *)
LEMMA ToldFacts ==
  ASSUME NEW h \in Hearing, NEW l \in Seq(Client), NEW e \in Event
  PROVE  /\ Told(h, l, e) \in Hearing
         /\ \A c \in Client : c \in ToSet(l) => /\ Len(Told(h, l, e)[c]) > Len(h[c])
                                          /\ Last(Told(h, l, e)[c]) = e
         /\ \A c \in Client : c \notin ToSet(l) => Told(h, l, e)[c] = h[c]
<1> DEFINE T == [Client -> Seq(Event)]
           n == Len(l)
           Push(m, c) == [m EXCEPT ![c] = Append(@, e)]
<1>0. n \in Nat /\ (\A k \in 1..n : l[k] \in Client) /\ h \in T  BY DEF Hearing
<1>1. ASSUME NEW m \in T, NEW c \in Client
      PROVE  /\ Push(m, c) \in T
             /\ Len(Push(m, c)[c]) = Len(m[c]) + 1 /\ Last(Push(m, c)[c]) = e
             /\ \A b \in Client \ {c} : Push(m, c)[b] = m[b]
  <2>1. m[c] \in Seq(Event)  OBVIOUS
  <2>2. Append(m[c], e) \in Seq(Event) /\ Len(Append(m[c], e)) = Len(m[c]) + 1
    BY <2>1, AppendProperties
  <2>3. Last(Append(m[c], e)) = e
    <3>1. Append(m[c], e)[Len(m[c]) + 1] = e  BY <2>1, AppendProperties
    <3> QED  BY <2>2, <3>1 DEF Last
  <2>4. Push(m, c)[c] = Append(m[c], e) /\ \A b \in Client \ {c} : Push(m, c)[b] = m[b]
    OBVIOUS
  <2>5. Push(m, c) \in T  BY <2>2
  <2> HIDE DEF Push
  <2> QED  BY <2>2, <2>3, <2>4, <2>5
<1>2. PICK f :
        /\ f = [k \in 0..n |-> IF k = 0 THEN h ELSE [f[k - 1] EXCEPT ![l[k]] = Append(@, e)]]
        /\ Told(h, l, e) = f[n]
  <2> DEFINE step == [k \in 1..n |-> [m \in T |-> Push(m, l[k])]]
  <2>1. step \in [1..n -> [T -> T]]
    <3> HIDE DEF Push, T
    <3> QED  BY <1>0, <1>1
  <2> HIDE DEF step
  <2>2. PICK f \in [0..n -> T] : Iterates(f, h, step, n)
    <3> HIDE DEF T, n
    <3> QED  BY <1>0, <2>1, Iteration
  <2>3. ASSUME NEW k \in 0..n, k # 0
        PROVE  step[k][f[k - 1]] = Push(f[k - 1], l[k])
    <3>1. k \in 1..n /\ k - 1 \in 0..n  BY <1>0, <2>3
    <3>2. f[k - 1] \in T
      <4> HIDE DEF T
      <4> QED  BY <3>1
    <3> HIDE DEF Push, T
    <3> QED  BY <3>1, <3>2 DEF step
  <2>4. f = [k \in 0..n |-> IF k = 0 THEN h ELSE Push(f[k - 1], l[k])]
    <3> HIDE DEF Push, T
    <3> QED  BY <2>2, <2>3 DEF Iterates
  <2> QED  BY <2>4, Zenon DEF Told
<1>3. f[0] = h /\ \A k \in 1..n : f[k] = Push(f[k - 1], l[k])
  <2>1. 0 \in 0..n /\ \A k \in 1..n : k \in 0..n /\ k # 0  BY <1>0
  <2>2. f = [k \in 0..n |-> IF k = 0 THEN h ELSE Push(f[k - 1], l[k])]  BY <1>2
  <2> HIDE DEF Push
  <2> QED  BY <2>1, <2>2
<1> DEFINE Upto(k) == {l[i] : i \in 1..k}
           Good(k, m) == /\ m \in T
                         /\ \A c \in Client : IF c \in Upto(k)
                                         THEN Len(m[c]) > Len(h[c]) /\ Last(m[c]) = e
                                         ELSE m[c] = h[c]
           P == {k \in 0..n : Good(k, f[k])}
<1>4. 0 \in P
  <2>1. Upto(0) = {} /\ 0 \in 0..n  BY <1>0
  <2> HIDE DEF Upto
  <2> QED  BY <1>0, <1>3, <2>1
<1>5. ASSUME NEW k \in 0..n, k # n /\ k \in P PROVE k + 1 \in P
  <2> DEFINE c == l[k + 1]
             m == f[k]
  <2>1. k + 1 \in 1..n /\ k + 1 \in 0..n /\ (k + 1) - 1 = k  BY <1>0, <1>5
  <2>2. Upto(k + 1) = Upto(k) \union {c} /\ c \in Client
    <3>1. 1..(k + 1) = 1..k \union {k + 1}  BY <1>5
    <3>2. c \in Client  BY <1>0, <2>1
    <3> QED  BY <3>1, <3>2
  <2>3. Good(k, m)  BY <1>5
  <2>4. f[k + 1] = Push(m, c)  BY <1>3, <2>1
  <2> HIDE DEF c, m, Upto, Push, P
  <2>5. m \in T  BY <2>3
  <2>6. /\ Push(m, c) \in T
        /\ Len(Push(m, c)[c]) = Len(m[c]) + 1 /\ Last(Push(m, c)[c]) = e
        /\ \A b \in Client \ {c} : Push(m, c)[b] = m[b]
    <3> HIDE DEF T
    <3> QED  BY <1>1, <2>2, <2>5
  <2>7. Good(k + 1, Push(m, c))
    <3>1. Len(Push(m, c)[c]) > Len(h[c])
      <4>1. m[c] \in Seq(Event) /\ h[c] \in Seq(Event)  BY <1>0, <2>2, <2>5
      <4>2. Len(m[c]) \in Nat /\ Len(h[c]) \in Nat  BY <4>1, LenProperties
      <4>3. m[c] = h[c] \/ Len(m[c]) > Len(h[c])  BY <2>2, <2>3
      <4> QED  BY <2>6, <4>2, <4>3
    <3> QED  BY <2>2, <2>3, <2>6, <3>1
  <2> HIDE DEF Good
  <2> QED  BY <2>1, <2>4, <2>7 DEF P
<1> HIDE DEF P, Good, T
<1>6. 0..n \subseteq P  BY <1>0, <1>4, <1>5, SetInduction, Zenon
<1>7. n \in P  BY <1>0, <1>6
<1>8. Good(n, Told(h, l, e))  BY <1>2, <1>7 DEF P
<1>9. Upto(n) = ToSet(l)
  <2>1. DOMAIN l = 1..n  OBVIOUS
  <2> QED  BY <2>1, Zenon DEF ToSet
<1> HIDE DEF Upto
<1> QED  BY <1>8, <1>9 DEF Good, T, Hearing

(* Who has subscribed is on the list once, whoever subscribes again.       *)
LEMMA AddedOnce ==
  ASSUME NEW l \in Seq(Client), IsInjective(l), NEW c \in Client
  PROVE  Added(l, c) \in Seq(Client) /\ IsInjective(Added(l, c))
BY Appended DEF Added

LEMMA RemovedKeeps ==
  ASSUME NEW l \in Seq(Client), IsInjective(l), NEW c
  PROVE  Removed(l, c) \in Seq(Client) /\ IsInjective(Removed(l, c))
BY WithoutFacts DEF Removed

(* What notifying does to a client: own is left out, the other subscribers *)
(* hear the event last.                                                    *)
LEMMA NotifyFacts ==
  ASSUME UpdInv, NEW h \in Hearing, NEW ch \in Characteristic,
         NEW v, <<ch, v>> \in Event, NEW own
  PROVE  /\ Notify(h, ch, v, own) \in Hearing
         /\ \A c \in Client :
              IF Subscribed(c, ch) /\ c # own
              THEN /\ Len(Notify(h, ch, v, own)[c]) > Len(h[c])
                   /\ Last(Notify(h, ch, v, own)[c]) = <<ch, v>>
              ELSE Notify(h, ch, v, own)[c] = h[c]
<1> DEFINE l == Without(callback[ch], {own})
           e == <<ch, v>>
           m == Told(h, l, e)
<1>1. callback[ch] \in Seq(Client) /\ e \in Event  BY DEF UpdInv
<1>2. l \in Seq(Client) /\ ToSet(l) = ToSet(callback[ch]) \ {own}
  BY <1>1, WithoutFacts
<1>3. Notify(h, ch, v, own) = m  BY DEF Notify
<1> HIDE DEF l, e
<1>4. /\ m \in Hearing
      /\ \A c \in Client : IF c \in ToSet(l)
                           THEN Len(m[c]) > Len(h[c]) /\ Last(m[c]) = e
                           ELSE m[c] = h[c]
  BY <1>1, <1>2, ToldFacts
<1> HIDE DEF m
<1> QED  BY <1>2, <1>3, <1>4 DEF Subscribed, e

(* The item that is processed, and what an item without an error is.       *)
LEMMA CurrentItem ==
  ASSUME UpdInv, ProcessItem
  PROVE  LET item == items[Len(statuses) + 1]
         IN  /\ item \in Items /\ writer \in Client /\ writer # Nobody
             /\ statuses' = Append(statuses, Status(item))
             /\ Status(item) \in Int
             /\ Len(statuses') = Len(statuses) + 1 /\ Last(statuses') = Status(item)
             /\ Status(item) = Success => item.target \in Characteristic
             /\ Status(item) = Success /\ item.value.type # Absent =>
                  /\ item.value \in Json
                  /\ <<item.target, Converted(item.target, item.value)>> \in Event
<1> DEFINE item == items[Len(statuses) + 1]
<1>1. writer # Nobody /\ Len(statuses) < Len(items) /\ statuses' = Append(statuses, Status(item))
  BY DEF ProcessItem
<1>2. statuses \in Seq(Int) /\ items \in Seq(Items) /\ writer \in Client  BY <1>1 DEF UpdInv
<1>3. item \in Items
  <2>1. Len(statuses) \in Nat /\ Len(items) \in Nat  BY <1>2, LenProperties
  <2>2. Len(statuses) + 1 \in 1..Len(items)  BY <1>1, <2>1
  <2> QED  BY <1>2, <2>2, ElementOfSeq
<1> HIDE DEF item
<1>4. Status(item) \in Int
  BY DEF Status, NoResource, Success, ReadOnly, InvalidValue
<1>5. Last(statuses') = Status(item) /\ Len(statuses') = Len(statuses) + 1
  <2>1. /\ Len(Append(statuses, Status(item))) = Len(statuses) + 1
        /\ Append(statuses, Status(item))[Len(statuses) + 1] = Status(item)
    BY <1>2, <1>4, AppendProperties
  <2> QED  BY <1>1, <2>1 DEF Last
<1>6. Status(item) = Success => item.target \in Characteristic
  BY DEF Status, NoResource, Success
<1>7. Status(item) = Success /\ item.value.type # Absent =>
        /\ item.value \in Json
        /\ <<item.target, Converted(item.target, item.value)>> \in Event
  <2> SUFFICES ASSUME Status(item) = Success, item.value.type # Absent
               PROVE  /\ item.value \in Json
                      /\ <<item.target, Converted(item.target, item.value)>> \in Event
    OBVIOUS
  <2>1. item.value \in Json \union {[type |-> Absent]}  BY <1>3 DEF Items
  <2>2. item.value \in Json  BY <2>1
  <2> QED  BY <1>6, <2>2 DEF Event
<1> QED  BY <1>1, <1>2, <1>3, <1>4, <1>5, <1>6, <1>7 DEF item

LEMMA UpdInitInv == UpdInit => UpdInv
<1> SUFFICES ASSUME UpdInit PROVE UpdInv  OBVIOUS
<1> USE DEF UpdInit
<1>1. callback \in [Characteristic -> Seq(Client)] /\ SubscribedOnce
  BY EmptyList DEF SubscribedOnce
<1>2. items \in Seq(Items) /\ statuses \in Seq(Int)  BY EmptyList
<1>3. heard \in Hearing  BY EmptyList DEF Silence, Hearing
<1> QED  BY <1>1, <1>2, <1>3 DEF UpdInv

(* What processing an item without an error writes and tells.              *)
LEMMA WritesAndTells ==
  ASSUME UpdInv, ProcessItem,
         NEW ch \in Characteristic, items[Len(statuses) + 1].target = ch,
         items[Len(statuses) + 1].value.type # Absent,
         Status(items[Len(statuses) + 1]) = Success
  PROVE  /\ heard' \in Hearing
         /\ \A c \in Client : Subscribed(c, ch) =>
              IF c # writer
              THEN /\ heard'[c] # heard[c]
                   /\ Setter[ch] # "refuses" => Last(heard'[c]) = <<ch, value'[ch]>>
              ELSE (heard'[c] = heard[c]) <=> (Setter[ch] # "notifies")
<1> DEFINE item == items[Len(statuses) + 1]
           v == Converted(ch, item.value)
           mid == IF Setter[ch] = "notifies" THEN Notify(heard, ch, v, Nobody) ELSE heard
           last == Notify(mid, ch, v, writer)
<1>0. heard \in Hearing /\ DOMAIN value = Characteristic  BY DEF UpdInv
<1>1. <<ch, v>> \in Event /\ writer # Nobody  BY CurrentItem
<1>2. /\ heard' = last
      /\ Setter[ch] # "refuses" => value' = [value EXCEPT ![ch] = v]
  BY DEF ProcessItem, WriteValue
<1>3. Setter[ch] # "refuses" => value'[ch] = v  BY <1>0, <1>2
<1> HIDE DEF v
<1>4. /\ Notify(heard, ch, v, Nobody) \in Hearing
      /\ \A c \in Client :
           IF Subscribed(c, ch) /\ c # Nobody
           THEN /\ Len(Notify(heard, ch, v, Nobody)[c]) > Len(heard[c])
                /\ Last(Notify(heard, ch, v, Nobody)[c]) = <<ch, v>>
           ELSE Notify(heard, ch, v, Nobody)[c] = heard[c]
  BY <1>0, <1>1, NotifyFacts
<1>5. /\ mid \in Hearing
      /\ \A c \in Client : mid[c] = heard[c] \/ Len(mid[c]) > Len(heard[c])
      /\ \A c \in Client : Subscribed(c, ch) /\ c # Nobody =>
           ((mid[c] = heard[c]) <=> (Setter[ch] # "notifies"))
  <2>1. CASE Setter[ch] = "notifies"
    <3>1. mid = Notify(heard, ch, v, Nobody)  BY <2>1
    <3> HIDE DEF mid
    <3> QED  BY <1>0, <1>4, <2>1, <3>1
  <2>2. CASE Setter[ch] # "notifies"  BY <1>0, <2>2
  <2> QED  BY <2>1, <2>2
<1> HIDE DEF mid
<1>6. /\ last \in Hearing
      /\ \A c \in Client :
           IF Subscribed(c, ch) /\ c # writer
           THEN Len(last[c]) > Len(mid[c]) /\ Last(last[c]) = <<ch, v>>
           ELSE last[c] = mid[c]
  BY <1>1, <1>5, NotifyFacts
<1> HIDE DEF last
<1>7. ASSUME NEW c \in Client, Subscribed(c, ch)
      PROVE  IF c # writer
             THEN /\ last[c] # heard[c]
                  /\ Setter[ch] # "refuses" => Last(last[c]) = <<ch, value'[ch]>>
             ELSE (last[c] = heard[c]) <=> (Setter[ch] # "notifies")
  <2>1. CASE c # writer
    <3>1. Len(last[c]) > Len(mid[c]) /\ Last(last[c]) = <<ch, v>>  BY <1>6, <1>7, <2>1
    <3>2. last[c] # heard[c]
      <4>1. last[c] \in Seq(Event) /\ mid[c] \in Seq(Event) /\ heard[c] \in Seq(Event)
        BY <1>0, <1>5, <1>6 DEF Hearing
      <4>2. Len(last[c]) \in Nat /\ Len(mid[c]) \in Nat /\ Len(heard[c]) \in Nat
        BY <4>1, LenProperties
      <4>3. mid[c] = heard[c] \/ Len(mid[c]) > Len(heard[c])  BY <1>5
      <4> QED  BY <3>1, <4>2, <4>3
    <3> QED  BY <1>3, <2>1, <3>1, <3>2
  <2>2. CASE c = writer
    <3>1. last[c] = mid[c]  BY <1>6, <2>2
    <3>2. (mid[c] = heard[c]) <=> (Setter[ch] # "notifies")  BY <1>1, <1>5, <1>7, <2>2
    <3> QED  BY <2>2, <3>1, <3>2
  <2> QED  BY <2>1, <2>2
<1> QED  BY <1>2, <1>6, <1>7

LEMMA SetEventsKeeps ==
  ASSUME UpdInv, NEW ch \in Characteristic, NEW ev, SetEvents(ch, ev), writer \in Client
  PROVE  callback' \in [Characteristic -> Seq(Client)] /\ SubscribedOnce'
<1> DEFINE l == callback[ch]
<1>0. /\ callback \in [Characteristic -> Seq(Client)]
      /\ \A k \in Characteristic : IsInjective(callback[k])
  BY DEF UpdInv, SubscribedOnce
<1>1. PICK m : /\ m \in Seq(Client) /\ IsInjective(m)
               /\ callback' = [callback EXCEPT ![ch] = m]
  <2>1. l \in Seq(Client) /\ IsInjective(l)  BY <1>0
  <2>2. \/ callback' = callback
        \/ callback' = [callback EXCEPT ![ch] = Added(l, writer)]
        \/ callback' = [callback EXCEPT ![ch] = Removed(l, writer)]
    BY DEF SetEvents
  <2>3. callback = [callback EXCEPT ![ch] = l]  BY <1>0
  <2>4. Added(l, writer) \in Seq(Client) /\ IsInjective(Added(l, writer))
    BY <2>1, AddedOnce
  <2>5. Removed(l, writer) \in Seq(Client) /\ IsInjective(Removed(l, writer))
    BY <2>1, RemovedKeeps
  <2> HIDE DEF l
  <2> QED  BY <2>1, <2>2, <2>3, <2>4, <2>5
<1>2. callback' \in [Characteristic -> Seq(Client)]  BY <1>0, <1>1
<1>3. \A k \in Characteristic : IsInjective(callback'[k])  BY <1>0, <1>1
<1> QED  BY <1>2, <1>3 DEF SubscribedOnce

LEMMA UpdNextInv == UpdInv /\ [UpdNext]_updVars => UpdInv'
<1> SUFFICES ASSUME UpdInv, [UpdNext]_updVars PROVE UpdInv'  OBVIOUS
<1>0. /\ DOMAIN value = Characteristic
      /\ callback \in [Characteristic -> Seq(Client)] /\ SubscribedOnce
      /\ heard \in Hearing
      /\ statuses \in Seq(Int) /\ items \in Seq(Items)
  BY DEF UpdInv
<1>1. Silence \in Hearing  BY EmptyList DEF Silence, Hearing
<1>2. ASSUME NEW c \in Client, NEW n \in 1..MaxItems, NEW request \in [1..n -> Asked],
             StartRequest(c, request)
      PROVE  UpdInv'
  <2>1. /\ UNCHANGED <<value, callback>> /\ writer' = c /\ items' = request
        /\ statuses' = <<>> /\ heard' = Silence
    BY <1>2 DEF StartRequest
  <2>2. request \in Seq(Items)
    <3>1. n \in Nat /\ request \in [1..n -> Items]  BY AskedAssumption
    <3> QED  BY <3>1, SeqDef
  <2>3. SubscribedOnce'  BY <1>0, <2>1 DEF SubscribedOnce
  <2> QED  BY <1>0, <1>1, <2>1, <2>2, <2>3, EmptyList DEF UpdInv
<1>3. CASE ProcessItem
  <2> DEFINE item == items[Len(statuses) + 1]
  <2>1. /\ writer \in Client /\ statuses' = Append(statuses, Status(item))
        /\ Status(item) \in Int
        /\ Status(item) = Success => item.target \in Characteristic
    BY <1>3, CurrentItem
  <2>2. UNCHANGED <<writer, items>> /\ writer # Nobody  BY <1>3 DEF ProcessItem
  <2>3. statuses' \in Seq(Int)  BY <1>0, <2>1, AppendProperties
  <2>4. DOMAIN value' = Characteristic
    <3>1. UNCHANGED value \/ value' = [value EXCEPT ![item.target] = Converted(item.target, item.value)]
      BY <1>3 DEF ProcessItem, WriteValue
    <3> HIDE DEF item
    <3> QED  BY <1>0, <3>1
  <2>5. callback' \in [Characteristic -> Seq(Client)] /\ SubscribedOnce'
    <3>1. CASE Status(item) # Success
      <4>1. callback' = callback  BY <1>3, <3>1 DEF ProcessItem
      <4> QED  BY <1>0, <4>1 DEF SubscribedOnce
    <3>2. CASE Status(item) = Success
      <4>1. SetEvents(item.target, item.ev)  BY <1>3, <3>2 DEF ProcessItem
      <4> QED  BY <2>1, <3>2, <4>1, SetEventsKeeps
    <3> QED  BY <3>1, <3>2
  <2>6. heard' \in Hearing
    <3>1. CASE Status(item) = Success /\ item.value.type # Absent
      <4>1. item.target \in Characteristic  BY <2>1, <3>1
      <4> QED  BY <1>3, <3>1, <4>1, WritesAndTells
    <3>2. CASE ~(Status(item) = Success /\ item.value.type # Absent)
      <4>1. heard' = heard  BY <1>3, <3>2 DEF ProcessItem
      <4> QED  BY <1>0, <4>1
    <3> QED  BY <3>1, <3>2
  <2> QED  BY <2>1, <2>2, <2>3, <2>4, <2>5, <2>6, <1>0 DEF UpdInv
<1>4. CASE Respond
  <2>1. /\ UNCHANGED <<value, callback>> /\ writer' = Nobody /\ items' = <<>>
        /\ statuses' = <<>> /\ heard' = Silence
    BY <1>4 DEF Respond
  <2>2. SubscribedOnce'  BY <1>0, <2>1 DEF SubscribedOnce
  <2> QED  BY <1>0, <1>1, <2>1, <2>2, EmptyList DEF UpdInv
<1>5. ASSUME NEW c \in Client, ClientCloses(c) PROVE UpdInv'
  <2>1. /\ callback' = [ch \in Characteristic |-> Removed(callback[ch], c)]
        /\ heard' = Silence /\ UNCHANGED <<value, writer, items, statuses>>
    BY <1>5 DEF ClientCloses
  <2>2. \A ch \in Characteristic : /\ callback[ch] \in Seq(Client)
                                   /\ IsInjective(callback[ch])
    BY <1>0 DEF SubscribedOnce
  <2>3. \A ch \in Characteristic : /\ Removed(callback[ch], c) \in Seq(Client)
                                   /\ IsInjective(Removed(callback[ch], c))
    BY <2>2, RemovedKeeps
  <2>4. SubscribedOnce' /\ callback' \in [Characteristic -> Seq(Client)]
    BY <2>1, <2>3 DEF SubscribedOnce
  <2> QED  BY <1>1, <2>1, <2>4 DEF UpdInv
<1>6. CASE UNCHANGED updVars  BY <1>6 DEF updVars, UpdInv, SubscribedOnce
<1> QED  BY <1>2, <1>3, <1>4, <1>5, <1>6 DEF UpdNext

(* No client is on the list of a characteristic twice, however often it    *)
(* subscribes, in one request or in several.                               *)
THEOREM OneSubscription == UpdSpec => []SubscribedOnce
<1>1. UpdInv => SubscribedOnce  BY DEF UpdInv
<1> QED  BY UpdInitInv, UpdNextInv, <1>1, PTL DEF UpdSpec

(* What processing an item does to a value, by the item alone.             *)
Writing(item, ch) ==
  /\ Status(item) = Success /\ item.target = ch
  /\ item.value.type # Absent /\ Setter[ch] # "refuses"
Switching(item, ch) ==
  Status(item) = Success /\ item.target = ch /\ item.ev # Absent

LEMMA ItemWrites ==
  ASSUME UpdInv, ProcessItem, NEW ch \in Characteristic
  PROVE  LET item == items[Len(statuses) + 1]
         IN  value'[ch] = IF Writing(item, ch) THEN Converted(ch, item.value) ELSE value[ch]
<1> DEFINE item == items[Len(statuses) + 1]
           v == Converted(item.target, item.value)
<1>1. DOMAIN value = Characteristic  BY DEF UpdInv
<1>2. IF Status(item) = Success /\ item.value.type # Absent /\ Setter[item.target] # "refuses"
      THEN value' = [value EXCEPT ![item.target] = v]
      ELSE value' = value
  BY DEF ProcessItem, WriteValue
<1>3. Status(item) = Success => item.target \in Characteristic  BY CurrentItem
<1> HIDE DEF item
<1> QED  BY <1>1, <1>2, <1>3 DEF Writing, item

LEMMA ItemSwitches ==
  ASSUME UpdInv, ProcessItem, NEW ch \in Characteristic, NEW c \in Client
  PROVE  LET item == items[Len(statuses) + 1]
         IN  Subscribed(c, ch)' <=> IF c = writer /\ Switching(item, ch)
                                    THEN item.ev = "True" ELSE Subscribed(c, ch)
<1> DEFINE item == items[Len(statuses) + 1]
           l == callback[item.target]
<1>1. callback \in [Characteristic -> Seq(Client)] /\ writer \in Client
  BY CurrentItem DEF UpdInv
<1>2. Status(item) = Success => item.target \in Characteristic  BY CurrentItem
<1>3. CASE ~(Status(item) = Success /\ item.ev # Absent)
  <2>1. callback' = callback
    <3>1. CASE Status(item) # Success  BY <3>1 DEF ProcessItem
    <3>2. CASE Status(item) = Success
      <4>1. SetEvents(item.target, item.ev) /\ item.ev = Absent
        BY <1>3, <3>2 DEF ProcessItem
      <4> HIDE DEF item
      <4>2. Absent # "True"  BY DEF Absent
      <4> QED  BY <4>1, <4>2 DEF SetEvents
    <3> QED  BY <3>1, <3>2
  <2> HIDE DEF item
  <2> QED  BY <1>3, <2>1 DEF Switching, Subscribed, item
<1>4. CASE Status(item) = Success /\ item.ev # Absent
  <2>1. callback' = [callback EXCEPT ![item.target] =
                       IF item.ev = "True" THEN Added(l, writer) ELSE Removed(l, writer)]
    BY <1>4 DEF ProcessItem, SetEvents
  <2>2. item.target \in Characteristic  BY <1>2, <1>4
  <2>3. l \in Seq(Client)  BY <1>1, <2>2
  <2> HIDE DEF l
  <2>4. ToSet(Added(l, writer)) = ToSet(l) \union {writer}
    BY <1>1, <2>3, Appended DEF Added
  <2>5. ToSet(Removed(l, writer)) = ToSet(l) \ {writer}
    BY <1>1, <2>3, WithoutFacts DEF Removed
  <2> HIDE DEF item
  <2>6. \A k \in Characteristic :
          callback'[k] = IF k = item.target
                         THEN IF item.ev = "True" THEN Added(l, writer) ELSE Removed(l, writer)
                         ELSE callback[k]
    BY <1>1, <2>1
  <2>7. CASE item.target = ch
    <3>1. l = callback[ch]  BY <2>7 DEF l
    <3> QED  BY <1>4, <2>4, <2>5, <2>6, <2>7, <3>1 DEF Switching, Subscribed, item
  <2>8. CASE item.target # ch  BY <2>6, <2>8 DEF Switching, Subscribed, item
  <2> QED  BY <2>7, <2>8
<1> QED  BY <1>3, <1>4

(* The newest of a set of numbers with a larger one.                       *)
LEMMA NewItemIsLast ==
  ASSUME NEW n \in Nat, NEW ns \in SUBSET (1..n)
  PROVE  LastItem(ns \union {n + 1}) = n + 1
<1> DEFINE all == ns \union {n + 1}
<1>1. n + 1 \in all /\ \A k \in all : k <= n + 1 /\ k \in Nat  OBVIOUS
<1> HIDE DEF all
<1>2. LastItem(all) \in all /\ \A k \in all : k <= LastItem(all)
  BY <1>1, Zenon DEF LastItem
<1>3. LastItem(all) = n + 1  BY <1>1, <1>2
<1> QED  BY <1>3 DEF all

(* The items that count, when one more was processed.                      *)
LEMMA OneMoreItem ==
  ASSUME UpdInv, ProcessItem, NEW ch \in Characteristic
  PROVE  LET n == Len(statuses)
             item == items[n + 1]
         IN  /\ n \in Nat /\ Written(ch) \subseteq 1..n /\ Switched(ch) \subseteq 1..n
             /\ Written(ch)' = IF Writing(item, ch) THEN Written(ch) \union {n + 1}
                                                   ELSE Written(ch)
             /\ Switched(ch)' = IF Switching(item, ch) THEN Switched(ch) \union {n + 1}
                                                      ELSE Switched(ch)
<1> DEFINE n == Len(statuses)
           item == items[n + 1]
           st == Status(item)
<1>1. statuses \in Seq(Int) /\ st \in Int /\ statuses' = Append(statuses, st) /\ items' = items
  BY CurrentItem DEF UpdInv, ProcessItem
<1>2. n \in Nat /\ DOMAIN statuses = 1..n  BY <1>1, LenProperties
<1> HIDE DEF st
<1>3. /\ DOMAIN statuses' = 1..(n + 1) /\ statuses'[n + 1] = st
      /\ \A k \in 1..n : statuses'[k] = statuses[k]
  <2>1. /\ Append(statuses, st) \in Seq(Int) /\ Len(Append(statuses, st)) = n + 1
        /\ Append(statuses, st)[n + 1] = st
        /\ \A k \in 1..n : Append(statuses, st)[k] = statuses[k]
    BY <1>1, AppendProperties
  <2> QED  BY <1>1, <2>1, LenProperties
<1> HIDE DEF n
<1>4. 1..(n + 1) = 1..n \union {n + 1} /\ n + 1 \notin 1..n  BY <1>2
<1> HIDE DEF item
<1>5. Written(ch)' = IF Writing(item, ch) THEN Written(ch) \union {n + 1} ELSE Written(ch)
  BY <1>1, <1>2, <1>3, <1>4 DEF Written, Writing, st, item
<1>6. Switched(ch)' = IF Switching(item, ch) THEN Switched(ch) \union {n + 1} ELSE Switched(ch)
  BY <1>1, <1>2, <1>3, <1>4 DEF Switched, Switching, st, item
<1>7. Written(ch) \subseteq 1..n /\ Switched(ch) \subseteq 1..n
  BY <1>2 DEF Written, Switched
<1> QED  BY <1>2, <1>5, <1>6, <1>7 DEF n, item

LEMMA StatusesKept ==
  ASSUME UpdInv, StatusesTell, ProcessItem
  PROVE  StatusesTell'
<1> DEFINE n == Len(statuses)
           item == items[n + 1]
<1>1. writer # Nobody /\ UNCHANGED <<writer, items, before>>  BY DEF ProcessItem
<1>2. SUFFICES ASSUME NEW ch \in Characteristic
      PROVE  /\ value'[ch] = IF Written(ch)' = {} THEN before.value[ch]
                             ELSE Converted(ch, items[LastItem(Written(ch)')].value)
             /\ \A c \in Client :
                  Subscribed(c, ch)' <=> IF c = writer /\ Switched(ch)' # {}
                                         THEN items[LastItem(Switched(ch)')].ev = "True"
                                         ELSE c \in before.subscribers[ch]
  BY <1>1 DEF StatusesTell, LastItem
<1>3. /\ value[ch] = IF Written(ch) = {} THEN before.value[ch]
                     ELSE Converted(ch, items[LastItem(Written(ch))].value)
      /\ \A c \in Client :
           Subscribed(c, ch) <=> IF c = writer /\ Switched(ch) # {}
                                 THEN items[LastItem(Switched(ch))].ev = "True"
                                 ELSE c \in before.subscribers[ch]
  BY <1>1 DEF StatusesTell
<1>4. /\ n \in Nat /\ Written(ch) \subseteq 1..n /\ Switched(ch) \subseteq 1..n
      /\ Written(ch)' = IF Writing(item, ch) THEN Written(ch) \union {n + 1} ELSE Written(ch)
      /\ Switched(ch)' = IF Switching(item, ch) THEN Switched(ch) \union {n + 1}
                                               ELSE Switched(ch)
  BY OneMoreItem
<1>5. value'[ch] = IF Writing(item, ch) THEN Converted(ch, item.value) ELSE value[ch]
  BY ItemWrites
<1>6. ASSUME NEW c \in Client
      PROVE  Subscribed(c, ch)' <=> IF c = writer /\ Switching(item, ch)
                                    THEN item.ev = "True" ELSE Subscribed(c, ch)
  BY ItemSwitches
<1>7. /\ LastItem(Written(ch) \union {n + 1}) = n + 1
      /\ LastItem(Switched(ch) \union {n + 1}) = n + 1
  BY <1>4, NewItemIsLast
<1> HIDE DEF n
<1> HIDE DEF item
<1>8. value'[ch] = IF Written(ch)' = {} THEN before.value[ch]
                   ELSE Converted(ch, items[LastItem(Written(ch)')].value)
  <2>1. CASE Writing(item, ch)
    <3>1. Written(ch)' = Written(ch) \union {n + 1}  BY <1>4, <2>1
    <3>2. Written(ch)' # {} /\ items[LastItem(Written(ch)')] = item
      BY <1>7, <3>1 DEF item
    <3> QED  BY <1>5, <2>1, <3>2
  <2>2. CASE ~Writing(item, ch)
    <3>1. Written(ch)' = Written(ch)  BY <1>4, <2>2
    <3> QED  BY <1>3, <1>5, <2>2, <3>1
  <2> QED  BY <2>1, <2>2
<1>9. ASSUME NEW c \in Client
      PROVE  Subscribed(c, ch)' <=> IF c = writer /\ Switched(ch)' # {}
                                    THEN items[LastItem(Switched(ch)')].ev = "True"
                                    ELSE c \in before.subscribers[ch]
  <2>1. CASE Switching(item, ch)
    <3>1. Switched(ch)' = Switched(ch) \union {n + 1}  BY <1>4, <2>1
    <3>2. Switched(ch)' # {} /\ items[LastItem(Switched(ch)')] = item
      BY <1>7, <3>1 DEF item
    <3> QED  BY <1>3, <1>6, <2>1, <3>2
  <2>2. CASE ~Switching(item, ch)
    <3>1. Switched(ch)' = Switched(ch)  BY <1>4, <2>2
    <3> QED  BY <1>3, <1>6, <2>2, <3>1
  <2> QED  BY <2>1, <2>2
<1> QED  BY <1>8, <1>9

(* After every item the statuses so far tell what became of the request.   *)
THEOREM StatusesAreTrue == UpdSpec => []StatusesTell
<1>1. UpdInv /\ UpdInit => StatusesTell  BY DEF UpdInit, StatusesTell
<1>2. UpdInv /\ StatusesTell /\ [UpdNext]_updVars => StatusesTell'
  <2> SUFFICES ASSUME UpdInv, StatusesTell, [UpdNext]_updVars PROVE StatusesTell'  OBVIOUS
  <2>1. ASSUME NEW c \in Client, NEW n \in 1..MaxItems, NEW request \in [1..n -> Asked],
               StartRequest(c, request)
        PROVE  StatusesTell'
    <3>1. /\ value' = value /\ callback' = callback /\ statuses' = <<>>
          /\ before' = [value |-> value,
                         subscribers |-> [ch \in Characteristic |-> ToSet(callback[ch])]]
      BY <2>1 DEF StartRequest
    <3>2. DOMAIN statuses' = {}  BY <3>1
    <3>3. ASSUME NEW ch \in Characteristic
          PROVE  /\ Written(ch)' = {} /\ Switched(ch)' = {}
                 /\ value'[ch] = before'.value[ch]
                 /\ \A b \in Client : Subscribed(b, ch)' <=> b \in before'.subscribers[ch]
      <4>1. Written(ch)' = {} /\ Switched(ch)' = {}  BY <3>2 DEF Written, Switched
      <4>2. before'.value = value /\ before'.subscribers[ch] = ToSet(callback[ch])  BY <3>1
      <4> QED  BY <3>1, <4>1, <4>2 DEF Subscribed
    <3> QED  BY <3>3 DEF StatusesTell
  <2>2. CASE ProcessItem  BY <2>2, StatusesKept
  <2>3. CASE Respond  BY <2>3 DEF Respond, StatusesTell
  <2>4. ASSUME NEW c \in Client, ClientCloses(c) PROVE StatusesTell'
    BY <2>4 DEF ClientCloses, StatusesTell
  <2>5. CASE UNCHANGED updVars
    <3>1. UNCHANGED <<value, callback, writer, items, statuses, before>>  BY <2>5 DEF updVars
    <3>2. ASSUME NEW ch \in Characteristic
          PROVE  /\ Written(ch)' = Written(ch) /\ Switched(ch)' = Switched(ch)
                 /\ \A b \in Client : Subscribed(b, ch)' <=> Subscribed(b, ch)
      BY <3>1 DEF Written, Switched, Subscribed
    <3> QED  BY <3>1, <3>2 DEF StatusesTell
  <2> QED  BY <2>1, <2>2, <2>3, <2>4, <2>5 DEF UpdNext
<1> QED  BY UpdInitInv, UpdNextInv, <1>1, <1>2, PTL DEF UpdSpec

(* A write that went well is what every other subscriber heard last, and   *)
(* the value, unless the setter refused it; the writer hears it only from  *)
(* a setter that notifies.                                                 *)
THEOREM WritersTellOthers == UpdSpec => WritersInform
<1> DEFINE A == \A ch \in Characteristic, c \in Client :
       /\ ProcessItem
       /\ items[Len(statuses) + 1].target = ch
       /\ items[Len(statuses) + 1].value.type # Absent
       /\ Last(statuses') = Success
       /\ Subscribed(c, ch)
       => IF c # writer
          THEN /\ heard'[c] # heard[c]
               /\ Setter[ch] # "refuses" => Last(heard'[c]) = <<ch, value'[ch]>>
          ELSE (heard'[c] = heard[c]) <=> (Setter[ch] # "notifies")
<1>1. UpdInv /\ [UpdNext]_updVars => [A]_updVars
  <2> SUFFICES ASSUME UpdInv, NEW ch \in Characteristic, NEW c \in Client,
                      ProcessItem, items[Len(statuses) + 1].target = ch,
                      items[Len(statuses) + 1].value.type # Absent,
                      Last(statuses') = Success, Subscribed(c, ch)
               PROVE  IF c # writer
                      THEN /\ heard'[c] # heard[c]
                           /\ Setter[ch] # "refuses" => Last(heard'[c]) = <<ch, value'[ch]>>
                      ELSE (heard'[c] = heard[c]) <=> (Setter[ch] # "notifies")
    OBVIOUS
  <2>1. Status(items[Len(statuses) + 1]) = Success  BY CurrentItem
  <2> QED  BY <2>1, WritesAndTells
<1> QED  BY UpdInitInv, UpdNextInv, <1>1, PTL DEF UpdSpec, WritersInform

------------------------------------------------------------------------------
(* The buffer of a handler.                                                *)
LEMMA AlignedIsLarger ==
  ASSUME NEW n \in Needs
  PROVE  Aligned(n) \in Nat /\ Aligned(n) > 0
<1>1. n \in Nat \ {0} /\ Word \in Nat \ {0}  BY ScratchAssumption
<1>2. n % Word \in 0..(Word - 1)  BY <1>1
<1> QED  BY <1>1, <1>2 DEF Aligned

ScratchInv ==
  /\ offset \in Nat /\ live \subseteq [from : Nat, to : Nat]
  /\ BlocksAreSafe

LEMMA ScratchNextInv == ScratchInv /\ [ScratchNext]_scratchVars => ScratchInv'
<1> SUFFICES ASSUME ScratchInv, [ScratchNext]_scratchVars PROVE ScratchInv'  OBVIOUS
<1> USE DEF ScratchInv, BlocksAreSafe
<1>1. ASSUME NEW n \in Needs, set_tlv_allocator_buffer(n) PROVE ScratchInv'
  <2> DEFINE new == [from |-> 0, to |-> Aligned(n)]
  <2>1. live = {}  BY <1>1 DEF set_tlv_allocator_buffer
  <2>2. /\ live' = {new} /\ lent' = TRUE /\ handling' = TRUE
        /\ offset' = Aligned(n) /\ Aligned(n) < Room
    BY <1>1, <2>1 DEF set_tlv_allocator_buffer
  <2>3. /\ new \in [from : Nat, to : Nat]
        /\ new.from < new.to /\ new.to <= offset' /\ new.to < Room
    BY <2>2, AlignedIsLarger
  <2> HIDE DEF new
  <2> QED  BY <2>2, <2>3, AlignedIsLarger
<1>2. ASSUME NEW n \in Needs, tlv_malloc(n) PROVE ScratchInv'
  <2> DEFINE new == [from |-> offset, to |-> offset + Aligned(n)]
  <2>1. /\ live' = live \union {new} /\ offset' = offset + Aligned(n)
        /\ handling /\ lent /\ Aligned(n) + offset < Room
        /\ UNCHANGED <<lent, handling>>
    BY <1>2 DEF tlv_malloc, Fits
  <2>2. Aligned(n) \in Nat /\ Aligned(n) > 0 /\ offset \in Nat  BY AlignedIsLarger
  <2>3. /\ new \in [from : Nat, to : Nat] /\ new.from = offset
        /\ new.from < new.to /\ new.to <= offset' /\ new.to < Room
    <3> HIDE DEF ScratchInv, BlocksAreSafe
    <3> QED  BY <2>1, <2>2
  <2> HIDE DEF new
  <2>4. \A b \in live : b.from < b.to /\ b.to <= new.from /\ b.to <= offset' /\ b.to < Room
    <3> TAKE b \in live
    <3>1. b.from \in Nat /\ b.to \in Nat /\ b.from < b.to /\ b.to <= offset /\ b.to < Room
      OBVIOUS
    <3> HIDE DEF ScratchInv, BlocksAreSafe
    <3> QED  BY <2>1, <2>2, <2>3, <3>1
  <2>5. offset' \in Nat  BY <2>1, <2>2
  <2> QED  BY <2>1, <2>3, <2>4, <2>5
<1>3. ASSUME NEW b \in live, tlv_free_malloc(b) PROVE ScratchInv'
  <2>1. CASE b.from = 0
    <3>1. live' = {} /\ offset' = 0
      BY <1>3, <2>1 DEF tlv_free_malloc, ResetAtRoot
    <3> QED  BY <3>1
  <2>2. CASE b.from # 0
    <3>1. live' \subseteq live /\ handling' /\ UNCHANGED <<lent, offset>>
      BY <1>3, <2>2 DEF tlv_free_malloc, ResetAtRoot
    <3> QED  BY <3>1
  <2> QED  BY <2>1, <2>2
<1>4. CASE UNCHANGED scratchVars  BY <1>4 DEF scratchVars
<1> QED  BY <1>1, <1>2, <1>3, <1>4 DEF ScratchNext

(* A block belongs to one owner and lies inside the buffer, and none that  *)
(* is in use outlives the handler on whose stack it is.                    *)
THEOREM SafeBlocks == ScratchSpec => []BlocksAreSafe
<1>1. ScratchInit => ScratchInv  BY DEF ScratchInit, ScratchInv, BlocksAreSafe
<1>2. ScratchInv => BlocksAreSafe  BY DEF ScratchInv
<1> QED  BY <1>1, <1>2, ScratchNextInv, PTL DEF ScratchSpec

------------------------------------------------------------------------------
(* The services of a sketch.  What the server would be given if it started *)
(* now, the base accessory with all its services, offers every service     *)
(* once at any time; a start makes the list of accessories just that.      *)
Final == IF base = 0 THEN hap_accessories
         ELSE [hap_accessories EXCEPT ![base] = hap_services]

Offers(accs, n) ==
  /\ \A a \in DOMAIN accs : ToSet(accs[a]) \subseteq 0..n
  /\ \A s \in 1..n :
       \E a \in DOMAIN accs :
         /\ s \in ToSet(accs[a])
         /\ \A k \in DOMAIN accs \ {a} : s \notin ToSet(accs[k])

(* The sketch's own lists are what it gave, the others begin as they have  *)
(* to.                                                                     *)
Kept(accs, own) ==
  \A a \in DOMAIN accs : IF a \in DOMAIN own THEN accs[a] = own[a]
                         ELSE accs[a] # <<>> /\ accs[a][1] = Info

HomeInv ==
  /\ hap_services \in Seq(Nat) /\ hap_accessories \in Seq(Seq(Nat))
  /\ declared \in Nat /\ base \in 0..Len(hap_accessories)
  /\ DOMAIN given \subseteq DOMAIN hap_accessories \ {base}
  /\ hap_services = <<>> => hap_accessories = <<>> /\ declared = 0 /\ ~started
  /\ hap_services # <<>> => hap_services[1] = Info
  /\ IF base = 0 THEN ToSet(hap_services) \subseteq {Info} /\ ~(Len(hap_services) > 1)
     ELSE Len(hap_services) > 1
  /\ Offers(Final, declared) /\ Kept(Final, given)
  /\ started => hap_accessories = Final

(* A new accessory with the next services.                                 *)
LEMMA OffersAppended ==
  ASSUME NEW accs \in Seq(Seq(Nat)), NEW n \in Nat, NEW m \in Nat, m >= n,
         Offers(accs, n), NEW x \in Seq(Nat),
         (n + 1)..m \subseteq ToSet(x), ToSet(x) \subseteq {Info} \union (n + 1)..m
  PROVE  Offers(Append(accs, x), m)
<1> DEFINE l == Append(accs, x)
           last == Len(accs) + 1
<1>1. /\ DOMAIN l = DOMAIN accs \union {last} /\ last \notin DOMAIN accs
      /\ l[last] = x /\ \A a \in DOMAIN accs : l[a] = accs[a]
  BY Len(accs) \in Nat
<1> HIDE DEF l, last
<1>2. ASSUME NEW a \in DOMAIN l
      PROVE  ToSet(l[a]) \subseteq 0..m
  <2>1. 0..n \subseteq 0..m /\ {Info} \union (n + 1)..m \subseteq 0..m  BY DEF Info
  <2> QED  BY <1>1, <2>1 DEF Offers
<1>3. ASSUME NEW s \in 1..m
      PROVE  \E a \in DOMAIN l : /\ s \in ToSet(l[a])
                                 /\ \A k \in DOMAIN l \ {a} : s \notin ToSet(l[k])
  <2>1. CASE s <= n
    <3>1. s \in 1..n /\ s \notin {Info} \union (n + 1)..m  BY <2>1 DEF Info
    <3>2. PICK a \in DOMAIN accs : /\ s \in ToSet(accs[a])
                                   /\ \A k \in DOMAIN accs \ {a} : s \notin ToSet(accs[k])
      BY <3>1 DEF Offers
    <3> QED  BY <1>1, <3>1, <3>2
  <2>2. CASE ~(s <= n)
    <3>1. s \in (n + 1)..m /\ s \notin 0..n  BY <2>2
    <3>2. \A k \in DOMAIN accs : s \notin ToSet(accs[k])  BY <3>1 DEF Offers
    <3> QED  BY <1>1, <3>1, <3>2
  <2> QED  BY <2>1, <2>2
<1> QED  BY <1>2, <1>3 DEF Offers, l

LEMMA NumberAppended ==
  ASSUME NEW y \in Seq(Nat), NEW z \in Nat
  PROVE  ToSet(Append(y, z)) = ToSet(y) \union {z}
BY Appended

(* An accessory with one service more.                                     *)
LEMMA OffersExtended ==
  ASSUME NEW accs \in Seq(Seq(Nat)), NEW n \in Nat, Offers(accs, n), NEW b \in DOMAIN accs
  PROVE  Offers([accs EXCEPT ![b] = Append(@, n + 1)], n + 1)
<1> DEFINE x == Append(accs[b], n + 1)
           l == [accs EXCEPT ![b] = x]
<1>1. DOMAIN l = DOMAIN accs /\ l[b] = x /\ \A a \in DOMAIN accs \ {b} : l[a] = accs[a]
  OBVIOUS
<1>2. ToSet(x) = ToSet(accs[b]) \union {n + 1}
  <2> DEFINE y == accs[b]
             z == n + 1
  <2>2. y \in Seq(Nat) /\ z \in Nat  OBVIOUS
  <2>3. x = Append(y, z)  OBVIOUS
  <2> HIDE DEF x, y, z
  <2>4. ToSet(Append(y, z)) = ToSet(y) \union {z}  BY <2>2, NumberAppended
  <2>5. ToSet(x) = ToSet(y) \union {z}  BY <2>3, <2>4, Zenon
  <2> QED  BY <2>5 DEF y, z
<1> HIDE DEF x, l
<1>3. ASSUME NEW a \in DOMAIN l
      PROVE  ToSet(l[a]) \subseteq 0..(n + 1)
  <2>1. 0..n \subseteq 0..(n + 1) /\ n + 1 \in 0..(n + 1)  OBVIOUS
  <2> QED  BY <1>1, <1>2, <2>1 DEF Offers
<1>4. ASSUME NEW s \in 1..(n + 1)
      PROVE  \E a \in DOMAIN l : /\ s \in ToSet(l[a])
                                 /\ \A k \in DOMAIN l \ {a} : s \notin ToSet(l[k])
  <2>1. CASE s <= n
    <3>1. s \in 1..n /\ s # n + 1  BY <2>1
    <3>2. PICK a \in DOMAIN accs : /\ s \in ToSet(accs[a])
                                   /\ \A k \in DOMAIN accs \ {a} : s \notin ToSet(accs[k])
      BY <3>1 DEF Offers
    <3>3. s \in ToSet(l[a])  BY <1>1, <1>2, <3>2
    <3>4. ASSUME NEW k \in DOMAIN l \ {a} PROVE s \notin ToSet(l[k])
      <4>1. k \in DOMAIN accs \ {a} /\ s \notin ToSet(accs[k])  BY <1>1, <3>2
      <4>2. CASE k = b  BY <1>1, <1>2, <3>1, <4>1, <4>2
      <4>3. CASE k # b  BY <1>1, <4>1, <4>3
      <4> QED  BY <4>2, <4>3
    <3> QED  BY <1>1, <3>2, <3>3, <3>4
  <2>2. CASE ~(s <= n)
    <3>1. s = n + 1 /\ s \notin 0..n  BY <2>2
    <3>2. \A k \in DOMAIN accs : s \notin ToSet(accs[k])  BY <3>1 DEF Offers
    <3> QED  BY <1>1, <1>2, <3>1, <3>2
  <2> QED  BY <2>1, <2>2
<1>5. l = [accs EXCEPT ![b] = Append(@, n + 1)]  BY DEF l, x
<1> QED  BY <1>3, <1>4, <1>5 DEF Offers

(* The lists of the accessories, with one more or another one changed.     *)
LEMMA KeptAppended ==
  ASSUME NEW accs \in Seq(Seq(Nat)), NEW own, DOMAIN own \subseteq DOMAIN accs,
         Kept(accs, own), NEW x \in Seq(Nat)
  PROVE  LET more == Recorded(own, Len(accs) + 1, x)
         IN  /\ DOMAIN more = DOMAIN own \union {Len(accs) + 1}
             /\ Kept(Append(accs, x), more)
             /\ x # <<>> /\ x[1] = Info => Kept(Append(accs, x), own)
<1> DEFINE l == Append(accs, x)
           last == Len(accs) + 1
           more == Recorded(own, last, x)
<1>1. /\ DOMAIN l = DOMAIN accs \union {last} /\ last \notin DOMAIN accs
      /\ l[last] = x /\ \A a \in DOMAIN accs : l[a] = accs[a] /\ a # last
  BY Len(accs) \in Nat
<1> HIDE DEF l, last
<1>2. /\ DOMAIN more = DOMAIN own \union {last}
      /\ \A a \in DOMAIN own : more[a] = own[a]
      /\ more[last] = x
  BY <1>1 DEF Recorded
<1> HIDE DEF more
<1>3. Kept(l, more)  BY <1>1, <1>2 DEF Kept
<1>4. x # <<>> /\ x[1] = Info => Kept(l, own)  BY <1>1 DEF Kept
<1> QED  BY <1>2, <1>3, <1>4 DEF l, last, more

LEMMA KeptChanged ==
  ASSUME NEW accs \in Seq(Seq(Nat)), NEW own, Kept(accs, own), NEW x \in Seq(Nat),
         NEW b \in DOMAIN accs \ DOMAIN own, x # <<>>, x[1] = Info
  PROVE  Kept([accs EXCEPT ![b] = x], own)
<1> DEFINE l == [accs EXCEPT ![b] = x]
<1>1. DOMAIN l = DOMAIN accs /\ l[b] = x /\ \A a \in DOMAIN accs \ {b} : l[a] = accs[a]
  OBVIOUS
<1> HIDE DEF l
<1> QED  BY <1>1 DEF Kept, l

(* What AppendAccessory is given.                                          *)
LEMMA NewServices ==
  ASSUME NEW n \in Nat, NEW m \in Nat
  PROVE  LET y == [i \in 1..m |-> n + i]
             x == <<Info>> \o y
         IN  /\ y \in Seq(Nat) /\ ToSet(y) = (n + 1)..(n + m)
             /\ x \in Seq(Nat) /\ x # <<>> /\ x[1] = Info
             /\ ToSet(x) = {Info} \union (n + 1)..(n + m)
<1> DEFINE y == [i \in 1..m |-> n + i]
           x == <<Info>> \o y
<1>1. y \in Seq(Nat) /\ Len(y) = m /\ DOMAIN y = 1..m
  <2>1. y \in [1..m -> Nat]  OBVIOUS
  <2>2. y \in Seq(Nat)  BY <2>1, SeqDef
  <2>3. DOMAIN y = 1..m  OBVIOUS
  <2> HIDE DEF y
  <2> QED  BY <2>1, <2>2, <2>3, LenProperties
<1>2. Info \in Nat  BY DEF Info
<1>3. ToSet(y) = (n + 1)..(n + m)
  <2>1. \A i \in 1..m : y[i] = n + i  OBVIOUS
  <2>2. \A z \in (n + 1)..(n + m) : z - n \in 1..m /\ z = n + (z - n)  OBVIOUS
  <2>3. \A i \in 1..m : n + i \in (n + 1)..(n + m)  OBVIOUS
  <2> HIDE DEF y
  <2>4. ToSet(y) = {y[i] : i \in 1..m}  BY <1>1 DEF ToSet
  <2> HIDE DEF ToSet
  <2>5. ToSet(y) \subseteq (n + 1)..(n + m)  BY <2>1, <2>3, <2>4
  <2>6. (n + 1)..(n + m) \subseteq ToSet(y)
    <3> SUFFICES ASSUME NEW z \in (n + 1)..(n + m) PROVE z \in ToSet(y)  OBVIOUS
    <3>1. z - n \in 1..m /\ z = n + (z - n)  BY <2>2
    <3>2. y[z - n] = z  BY <2>1, <3>1
    <3> QED  BY <2>4, <3>1, <3>2
  <2> QED  BY <2>5, <2>6
<1> HIDE DEF y
<1>4. x \in Seq(Nat) /\ ToSet(x) = ToSet(y) \union {Info}  BY <1>1, <1>2, Prepended
<1>5. x[1] = Info /\ x # <<>>  BY <1>1, <1>2
<1> QED  BY <1>1, <1>3, <1>4, <1>5 DEF y

(* Changing an element before or after appending another one.              *)
LEMMA ChangedAppended ==
  ASSUME NEW T, NEW l \in Seq(T), NEW x \in T, NEW y \in T
  PROVE  /\ [Append(l, x) EXCEPT ![Len(l) + 1] = y] = Append(l, y)
         /\ \A i \in 1..Len(l) :
              [Append(l, x) EXCEPT ![i] = y] = Append([l EXCEPT ![i] = y], x)
<1> DEFINE m == Append(l, x)
<1>1. /\ m \in Seq(T) /\ Len(m) = Len(l) + 1 /\ Len(l) \in Nat
      /\ m[Len(l) + 1] = x /\ \A i \in 1..Len(l) : m[i] = l[i]
  BY AppendProperties, LenProperties
<1>2. /\ Append(l, y) \in Seq(T) /\ Len(Append(l, y)) = Len(l) + 1
      /\ Append(l, y)[Len(l) + 1] = y /\ \A i \in 1..Len(l) : Append(l, y)[i] = l[i]
  BY AppendProperties
<1> HIDE DEF m
<1>3. [m EXCEPT ![Len(l) + 1] = y] = Append(l, y)
  <2> DEFINE k == [m EXCEPT ![Len(l) + 1] = y]
             n == Append(l, y)
  <2>1. /\ k \in Seq(T) /\ Len(k) = Len(m)
        /\ \A j \in 1..Len(m) : k[j] = IF j = Len(l) + 1 THEN y ELSE m[j]
    <3>1. Len(l) + 1 \in 1..Len(m)  BY <1>1
    <3> QED  BY <1>1, <3>1, ExceptSeq
  <2>2. /\ n \in Seq(T) /\ Len(n) = Len(l) + 1
        /\ n[Len(l) + 1] = y /\ \A i \in 1..Len(l) : n[i] = l[i]
    BY <1>2
  <2> HIDE DEF k, n
  <2>3. \A j \in 1..Len(k) : k[j] = n[j]  BY <1>1, <2>1, <2>2
  <2>4. Len(k) = Len(n)  BY <1>1, <2>1, <2>2
  <2>5. k = n  BY <2>1, <2>2, <2>3, <2>4, SeqEqual
  <2> QED  BY <2>5 DEF k, n
<1>4. ASSUME NEW i \in 1..Len(l)
      PROVE  [m EXCEPT ![i] = y] = Append([l EXCEPT ![i] = y], x)
  <2> DEFINE c == [l EXCEPT ![i] = y]
             k == [m EXCEPT ![i] = y]
             n == Append(c, x)
  <2>1. /\ c \in Seq(T) /\ Len(c) = Len(l)
        /\ \A j \in 1..Len(l) : c[j] = IF j = i THEN y ELSE l[j]
    BY ExceptSeq
  <2>2. /\ k \in Seq(T) /\ Len(k) = Len(m)
        /\ \A j \in 1..Len(m) : k[j] = IF j = i THEN y ELSE m[j]
    <3>1. i \in 1..Len(m)  BY <1>1
    <3> QED  BY <1>1, <3>1, ExceptSeq
  <2> HIDE DEF c, k
  <2>3. /\ n \in Seq(T) /\ Len(n) = Len(l) + 1 /\ n[Len(l) + 1] = x
        /\ \A j \in 1..Len(l) : n[j] = c[j]
    BY <2>1, AppendProperties
  <2> HIDE DEF n
  <2>4. \A j \in 1..Len(k) : k[j] = n[j]
    <3> TAKE j \in 1..Len(k)
    <3>1. CASE j = Len(l) + 1  BY <1>1, <2>2, <2>3, <3>1
    <3>2. CASE j \in 1..Len(l)  BY <1>1, <2>1, <2>2, <2>3, <3>2
    <3> QED  BY <1>1, <2>2, <3>1, <3>2
  <2>5. Len(k) = Len(n)  BY <1>1, <2>2, <2>3
  <2>6. k = n  BY <2>2, <2>3, <2>4, <2>5, SeqEqual
  <2> QED  BY <2>6 DEF c, k, n
<1> QED  BY <1>3, <1>4 DEF m

LEMMA HomeInitInv == HomeInit => HomeInv
<1> SUFFICES ASSUME HomeInit PROVE HomeInv  OBVIOUS
<1> USE DEF HomeInit
<1>1. Final = <<>>  BY DEF Final
<1>2. Offers(<<>>, 0) /\ Kept(<<>>, <<>>)  BY EmptyList DEF Offers, Kept
<1>3. hap_services \in Seq(Nat) /\ hap_accessories \in Seq(Seq(Nat))  BY EmptyList
<1>4. Len(hap_services) = 0 /\ Len(hap_accessories) = 0  OBVIOUS
<1> QED  BY <1>1, <1>2, <1>3, <1>4, EmptyList DEF HomeInv

(* A service for the base accessory, which is there or gets its place.     *)
LEMMA AddServiceKeeps ==
  ASSUME HomeInv, hap_add_service
  PROVE  HomeInv'
<1> DEFINE z == declared + 1
           s == Append(hap_services, z)
<1>0. /\ hap_services \in Seq(Nat) /\ hap_services # <<>> /\ hap_services[1] = Info
      /\ hap_accessories \in Seq(Seq(Nat)) /\ declared \in Nat
      /\ base \in 0..Len(hap_accessories) /\ Offers(Final, declared) /\ ~started
      /\ DOMAIN given \subseteq DOMAIN hap_accessories \ {base} /\ Kept(Final, given)
  BY DEF HomeInv, hap_add_service, Declaring
<1>1. /\ hap_services' = s /\ declared' = z /\ ~started' /\ given' = given
      /\ IF base = 0
         THEN /\ hap_accessories' = Append(hap_accessories, hap_services)
              /\ base' = Len(hap_accessories')
         ELSE UNCHANGED <<hap_accessories, base>>
  BY <1>0 DEF hap_add_service, NeedsBase
<1>2. z \in Nat /\ Len(hap_services) \in Nat /\ Len(hap_services) # 0
  BY <1>0
<1>3. s[1] = hap_services[1]  BY <1>0, <1>2
<1> HIDE DEF s
<1>4. /\ s \in Seq(Nat) /\ Len(s) = Len(hap_services) + 1
      /\ ToSet(s) = ToSet(hap_services) \union {z}
  <2> HIDE DEF z
  <2> QED  BY <1>0, <1>2, Appended DEF s
<1>5. s # <<>> /\ Len(s) > 1 /\ s[1] = Info  BY <1>0, <1>2, <1>3, <1>4
<1>6. CASE base = 0
  <2> DEFINE l == Append(hap_accessories, hap_services)
  <2>1. hap_accessories' = l /\ base' = Len(l)  BY <1>1, <1>6
  <2>2. l \in Seq(Seq(Nat)) /\ Len(l) = Len(hap_accessories) + 1 /\ Len(hap_accessories) \in Nat
    BY <1>0, AppendProperties
  <2>3. Final = hap_accessories  BY <1>6 DEF Final
  <2>4. [l EXCEPT ![Len(l)] = s] = Append(hap_accessories, s)
    BY <1>0, <1>4, <2>2, ChangedAppended
  <2>5. base' # 0  BY <2>1, <2>2
  <2>6. Final' = Append(hap_accessories, s)  BY <1>1, <2>1, <2>4, <2>5 DEF Final
  <2>7. ToSet(s) = {Info} \union (declared + 1)..z
    <3>1. ToSet(hap_services) \subseteq {Info}  BY <1>6 DEF HomeInv
    <3>2. Info \in ToSet(hap_services)
      <4>1. 1 \in DOMAIN hap_services  BY <1>0, <1>2
      <4> QED  BY <1>0, <4>1 DEF ToSet
    <3>3. (declared + 1)..z = {z}  BY <1>0
    <3> HIDE DEF z
    <3> QED  BY <1>4, <3>1, <3>2, <3>3
  <2>8. z >= declared  BY <1>0
  <2>9. Offers(Final', z)
    <3> HIDE DEF z
    <3> QED  BY <1>0, <1>2, <1>4, <1>5, <2>3, <2>6, <2>7, <2>8, OffersAppended
  <2>10. base' \in 0..Len(hap_accessories')  BY <2>1, <2>2
  <2>11. Kept(Final', given)
    <3>1. DOMAIN given \subseteq DOMAIN hap_accessories  BY <1>0
    <3> QED  BY <1>0, <1>4, <1>5, <2>3, <2>6, <3>1, KeptAppended
  <2>12. DOMAIN given \subseteq DOMAIN hap_accessories' \ {base'}
    <3>1. DOMAIN hap_accessories = 1..Len(hap_accessories)
          /\ DOMAIN hap_accessories' = 1..Len(hap_accessories')
      BY <1>0, <2>1, <2>2
    <3> HIDE DEF l
    <3> QED  BY <1>0, <2>1, <2>2, <3>1
  <2> HIDE DEF l, z
  <2> QED  BY <1>1, <1>2, <1>4, <1>5, <2>1, <2>2, <2>5, <2>9, <2>10, <2>11, <2>12 DEF HomeInv
<1>7. CASE base # 0
  <2>1. UNCHANGED <<hap_accessories, base>>  BY <1>1, <1>7
  <2>2. base \in DOMAIN hap_accessories  BY <1>0, <1>7
  <2>3. Final \in Seq(Seq(Nat)) /\ base \in DOMAIN Final /\ Final[base] = hap_services
    BY <1>0, <1>7, <2>2 DEF Final
  <2>4. Final' = [Final EXCEPT ![base] = Append(@, z)]
    <3>1. Final' = [hap_accessories EXCEPT ![base] = s]  BY <1>1, <1>7, <2>1 DEF Final
    <3>2. [Final EXCEPT ![base] = Append(@, z)] = [Final EXCEPT ![base] = s]
      BY <2>3 DEF s
    <3>3. Final = [hap_accessories EXCEPT ![base] = hap_services]  BY <1>7 DEF Final
    <3> QED  BY <1>0, <3>1, <3>2, <3>3
  <2>5. Offers(Final', z)
    BY <1>0, <2>3, <2>4, OffersExtended
  <2>6. Kept(Final', given)
    <3>1. Final' = [Final EXCEPT ![base] = s]  BY <2>3, <2>4 DEF s
    <3>2. base \in DOMAIN Final \ DOMAIN given  BY <1>0, <2>3
    <3> QED  BY <1>0, <1>4, <1>5, <2>3, <3>1, <3>2, KeptChanged
  <2> HIDE DEF z
  <2> QED  BY <1>0, <1>1, <1>2, <1>4, <1>5, <1>7, <2>1, <2>5, <2>6 DEF HomeInv
<1> QED  BY <1>6, <1>7

(* An accessory of its own, of the library's making or of the sketch's.    *)
LEMMA AppendKeeps ==
  ASSUME HomeInv, NEW n \in Nat, NEW x \in Seq(Nat), AppendAccessory(x, n),
         (declared + 1)..(declared + n) \subseteq ToSet(x),
         ToSet(x) \subseteq {Info} \union (declared + 1)..(declared + n),
         \/ given' = given /\ x # <<>> /\ x[1] = Info
         \/ given' = Recorded(given, Len(hap_accessories) + 1, x)
  PROVE  HomeInv'
<1> DEFINE m == declared + n
           last == Len(hap_accessories) + 1
<1>0. /\ hap_services \in Seq(Nat) /\ hap_services # <<>>
      /\ hap_accessories \in Seq(Seq(Nat)) /\ declared \in Nat
      /\ base \in 0..Len(hap_accessories) /\ Offers(Final, declared)
      /\ DOMAIN given \subseteq DOMAIN hap_accessories \ {base} /\ Kept(Final, given)
  BY DEF HomeInv, AppendAccessory, Declaring
<1>1. /\ hap_accessories' = Append(hap_accessories, x) /\ declared' = m
      /\ UNCHANGED <<hap_services, base, started>> /\ ~started
  BY DEF AppendAccessory, Declaring
<1>3. m \in Nat /\ m >= declared  BY <1>0
<1>4. /\ Append(hap_accessories, x) \in Seq(Seq(Nat))
      /\ Len(hap_accessories') = last /\ Len(hap_accessories) \in Nat
  BY <1>0, <1>1, AppendProperties
<1>5. Final' = Append(Final, x) /\ Final \in Seq(Seq(Nat)) /\ Len(Final) = Len(hap_accessories)
  <2>1. CASE base = 0  BY <1>0, <1>1, <2>1 DEF Final
  <2>2. CASE base # 0
    <3>1. base \in DOMAIN hap_accessories  BY <1>0, <2>2
    <3>2. /\ Final = [hap_accessories EXCEPT ![base] = hap_services]
          /\ Final' = [Append(hap_accessories, x) EXCEPT ![base] = hap_services]
      BY <1>1, <2>2 DEF Final
    <3>3. base \in 1..Len(hap_accessories)  BY <1>0, <2>2
    <3>4. Final \in Seq(Seq(Nat)) /\ Len(Final) = Len(hap_accessories)
      BY <1>0, <3>2, <3>3, ExceptSeq
    <3>5. [Append(hap_accessories, x) EXCEPT ![base] = hap_services]
            = Append([hap_accessories EXCEPT ![base] = hap_services], x)
      <4>1. hap_services \in Seq(Nat) /\ hap_accessories \in Seq(Seq(Nat))  BY <1>0
      <4> HIDE DEF m, last
      <4> QED  BY ONLY <3>3, <4>1, x \in Seq(Nat), ChangedAppended
    <3> QED  BY <3>2, <3>4, <3>5
  <2> QED  BY <2>1, <2>2
<1>6. Offers(Final', m)
  <2>1. /\ (declared + 1)..m \subseteq ToSet(x)
        /\ ToSet(x) \subseteq {Info} \union (declared + 1)..m
    OBVIOUS
  <2> HIDE DEF m
  <2> QED  BY <1>0, <1>3, <1>5, <2>1, OffersAppended
<1>7. base' \in 0..Len(hap_accessories')  BY <1>0, <1>1, <1>4
<1>8. /\ DOMAIN hap_accessories = 1..Len(hap_accessories) /\ DOMAIN Final = DOMAIN hap_accessories
      /\ DOMAIN hap_accessories' = DOMAIN hap_accessories \union {last}
      /\ last \notin DOMAIN hap_accessories /\ base # last
  BY <1>0, <1>1, <1>4, <1>5
<1>9. Kept(Final', given') /\ DOMAIN given' \subseteq DOMAIN given \union {last}
  <2> DEFINE more == Recorded(given, last, x)
             own == given
  <2>1. DOMAIN own \subseteq DOMAIN Final /\ Kept(Final, own)  BY <1>0, <1>8
  <2>2. last = Len(Final) + 1  BY <1>5
  <2>3. /\ DOMAIN (Recorded(own, Len(Final) + 1, x)) = DOMAIN own \union {Len(Final) + 1}
        /\ Kept(Append(Final, x), Recorded(own, Len(Final) + 1, x))
        /\ x # <<>> /\ x[1] = Info => Kept(Append(Final, x), own)
    <3> HIDE DEF own
    <3> QED  BY ONLY <1>5, <2>1, x \in Seq(Nat), KeptAppended
  <2>4. CASE given' = given /\ x # <<>> /\ x[1] = Info  BY <1>5, <2>3, <2>4
  <2>5. CASE given' = more  BY <1>5, <2>2, <2>3, <2>5
  <2> QED  BY <2>4, <2>5
<1>10. DOMAIN given' \subseteq DOMAIN hap_accessories' \ {base'}  BY <1>0, <1>1, <1>8, <1>9
<1> HIDE DEF m, last
<1> QED  BY <1>0, <1>1, <1>3, <1>4, <1>6, <1>7, <1>9, <1>10 DEF HomeInv

LEMMA AsAccessoryKeeps ==
  ASSUME HomeInv, NEW n \in Nat, AddAsAccessory(n)
  PROVE  HomeInv'
<1>1. declared \in Nat  BY DEF HomeInv
<1>2. AppendAccessory(<<Info>> \o NextServices(n), n) /\ given' = given
  BY DEF AddAsAccessory
<1> QED  BY <1>1, <1>2, NewServices, AppendKeeps DEF NextServices

LEMMA OwnAccessoryKeeps ==
  ASSUME HomeInv, NEW info \in BOOLEAN, NEW n \in Nat, hap_add_accessory(info, n)
  PROVE  HomeInv'
<1> DEFINE y == NextServices(n)
           x == (IF info THEN <<Info>> ELSE <<>>) \o y
<1>1. declared \in Nat  BY DEF HomeInv
<1>2. AppendAccessory(x, n) /\ given' = Recorded(given, Len(hap_accessories) + 1, x)
  BY DEF hap_add_accessory
<1>3. /\ y \in Seq(Nat) /\ ToSet(y) = (declared + 1)..(declared + n)
      /\ <<Info>> \o y \in Seq(Nat)
      /\ ToSet(<<Info>> \o y) = {Info} \union (declared + 1)..(declared + n)
  BY <1>1, NewServices DEF NextServices
<1> HIDE DEF y
<1>4. x = IF info THEN <<Info>> \o y ELSE y  BY <1>3
<1> HIDE DEF x
<1>5. /\ x \in Seq(Nat) /\ (declared + 1)..(declared + n) \subseteq ToSet(x)
      /\ ToSet(x) \subseteq {Info} \union (declared + 1)..(declared + n)
  BY <1>3, <1>4
<1> QED  BY <1>2, <1>5, AppendKeeps

LEMMA HomeNextInv == HomeInv /\ [HomeNext]_homeVars => HomeInv'
<1> SUFFICES ASSUME HomeInv, [HomeNext]_homeVars PROVE HomeInv'  OBVIOUS
<1>1. CASE hap_initbase_accessory_service
  <2>1. /\ hap_services' = <<Info>> /\ hap_services = <<>>
        /\ UNCHANGED <<hap_accessories, base, declared, started, given>>
    BY <1>1 DEF hap_initbase_accessory_service
  <2>2. base = 0  BY <2>1 DEF HomeInv
  <2>3. <<Info>> \in Seq(Nat) /\ <<Info>> # <<>> /\ ToSet(<<Info>>) = {Info}
    <3>1. Info \in Nat  BY DEF Info
    <3>2. DOMAIN <<Info>> = {1} /\ <<Info>>[1] = Info  OBVIOUS
    <3> QED  BY <3>1, <3>2 DEF ToSet
  <2>4. Final' = Final  BY <2>1, <2>2 DEF Final
  <2>5. Len(<<Info>>) = 1 /\ <<Info>>[1] = Info  OBVIOUS
  <2> QED  BY <2>1, <2>2, <2>3, <2>4, <2>5 DEF HomeInv
<1>2. CASE hap_add_service  BY <1>2, AddServiceKeeps
<1>3. CASE \E n \in 1..3 : AddAsAccessory(n)
  <2>1. 1..3 \subseteq Nat  OBVIOUS
  <2> QED  BY <1>3, <2>1, AsAccessoryKeeps
<1>6. CASE \E info \in BOOLEAN, n \in 0..MaxDeclared : hap_add_accessory(info, n)
  <2>1. 0..MaxDeclared \subseteq Nat  OBVIOUS
  <2> QED  BY <1>6, <2>1, OwnAccessoryKeeps
<1>4. CASE hap_init_homekit_server
  <2>1. hap_accessories' = Final /\ UNCHANGED <<hap_services, base, declared, given>>
    <3>1. CASE Len(hap_services) > 1
      <4>1. base # 0  BY <3>1 DEF HomeInv
      <4> QED  BY <1>4, <3>1, <4>1 DEF hap_init_homekit_server, Final
    <3>2. CASE ~(Len(hap_services) > 1)
      <4>1. base = 0  BY <3>2 DEF HomeInv
      <4> QED  BY <1>4, <3>2, <4>1 DEF hap_init_homekit_server, Final
    <3> QED  BY <3>1, <3>2
  <2>2. Final' = Final /\ Len(Final) = Len(hap_accessories) /\ Final \in Seq(Seq(Nat))
    <3>1. CASE base = 0  BY <2>1, <3>1 DEF Final, HomeInv
    <3>2. CASE base # 0
      <4>1. /\ base \in 1..Len(hap_accessories) /\ hap_accessories \in Seq(Seq(Nat))
            /\ hap_services \in Seq(Nat)
        BY <3>2 DEF HomeInv
      <4>2. Final = [hap_accessories EXCEPT ![base] = hap_services]  BY <3>2 DEF Final
      <4>3. Final' = [Final EXCEPT ![base] = hap_services]  BY <2>1, <3>2 DEF Final
      <4>4. Len(Final) = Len(hap_accessories) /\ Final \in Seq(Seq(Nat))
        BY <4>1, <4>2, ExceptSeq
      <4>5. Final' = Final  BY <4>2, <4>3
      <4> QED  BY <4>4, <4>5
    <3> QED  BY <3>1, <3>2
  <2>3. hap_services # <<>>  BY <1>4 DEF hap_init_homekit_server, Declaring
  <2>4. DOMAIN hap_accessories' = DOMAIN hap_accessories
    BY <2>1 DEF HomeInv, Final
  <2> QED  BY <2>1, <2>2, <2>3, <2>4 DEF HomeInv
<1>5. CASE UNCHANGED homeVars
  <2>1. UNCHANGED <<hap_services, hap_accessories, base, declared, started, given>>
    BY <1>5 DEF homeVars
  <2>2. Final' = Final  BY <2>1 DEF Final
  <2> QED  BY <2>1, <2>2 DEF HomeInv
<1> QED  BY <1>1, <1>2, <1>3, <1>4, <1>5, <1>6 DEF HomeNext

(* When the server starts, each service that the sketch declared is in     *)
(* exactly one of the accessories, whatever the calls and their order; the *)
(* sketch's own lists are as it gave them, the others begin with their     *)
(* information.                                                            *)
THEOREM ServicesOffered == HomeSpec => []EveryServiceOffered
<1>1. HomeInv => EveryServiceOffered
  <2> SUFFICES ASSUME HomeInv, started PROVE EveryServiceOffered
    BY DEF EveryServiceOffered
  <2>1. Offers(hap_accessories, declared) /\ Kept(hap_accessories, given)  BY DEF HomeInv
  <2>2. \A a \in DOMAIN hap_accessories :
          IF a \in DOMAIN given THEN hap_accessories[a] = given[a]
                                ELSE Head(hap_accessories[a]) = Info
    <3> TAKE a \in DOMAIN hap_accessories
    <3>1. hap_accessories[a] \in Seq(Nat)  BY DEF HomeInv
    <3> QED  BY <2>1, <3>1 DEF Kept
  <2>3. DOMAIN given \subseteq DOMAIN hap_accessories  BY DEF HomeInv
  <2> QED  BY <2>1, <2>2, <2>3 DEF Offers, EveryServiceOffered
<1> QED  BY HomeInitInv, HomeNextInv, <1>1, PTL DEF HomeSpec

------------------------------------------------------------------------------
(* The ids of accessories and characteristics.  The counters are past all  *)
(* the ids they have to avoid: an id that the library chose is not taken.  *)
NoAccessory(m, n) == \A k \in m..n : kind[k] # "accessory"

AccInv ==
  /\ kind \in Shapes
  /\ chosen \in [Elements -> Nat] /\ id \in [Elements -> Nat]
  /\ aid \in Nat /\ iid \in Nat /\ at \in 1..(Len(kind) + 1)
  /\ \A n \in Elements : n >= at \/ chosen[n] # 0 => id[n] = chosen[n]
  /\ \A n \in 1..(at - 1) :
       /\ kind[n] = "accessory" => id[n] < aid
       /\ NoAccessory(n, at - 1) => id[n] < iid
       /\ chosen[n] = 0 => \A m \in 1..(n - 1) :
            (kind[m] = "accessory" /\ kind[n] = "accessory") \/ NoAccessory(m, n)
              => id[m] # id[n]

LEMMA ShapeFacts ==
  ASSUME kind \in Shapes
  PROVE  Len(kind) \in Nat /\ 1 \in Elements /\ kind[1] = "accessory"
<1>1. /\ kind \in Seq({"accessory", "service", "characteristic"})
      /\ Len(kind) >= 2 /\ kind[1] = "accessory"
  BY ShapesAssumption
<1> QED  BY <1>1, LenProperties DEF Elements

(* A counter grows, and past the id that is given.                         *)
LEMMA CounterPasses ==
  ASSUME NEW c \in Nat, NEW counter \in Nat
  PROVE  /\ IdOr(c, counter) \in Nat /\ CounterAfter(c, counter) \in Nat
         /\ CounterAfter(c, counter) >= counter
         /\ IdOr(c, counter) < CounterAfter(c, counter)
         /\ c # 0 => IdOr(c, counter) = c
         /\ c = 0 => IdOr(c, counter) = counter
BY DEF IdOr, CounterAfter

LEMMA AccInitInv == AccInit => AccInv
<1> SUFFICES ASSUME AccInit PROVE AccInv  OBVIOUS
<1>1. /\ kind \in Shapes /\ chosen \in [1..Len(kind) -> 0..MaxId] /\ id = chosen
      /\ aid = 1 /\ iid = 1 /\ at = 1
  BY DEF AccInit
<1>2. Len(kind) \in Nat  BY <1>1, ShapeFacts
<1>3. chosen \in [Elements -> Nat]
  <2>1. 0..MaxId \subseteq Nat  OBVIOUS
  <2> QED  BY <1>1, <2>1 DEF Elements
<1>4. 1 \in 1..(Len(kind) + 1) /\ 1..(1 - 1) = {}  BY <1>2
<1> QED  BY <1>1, <1>3, <1>4 DEF AccInv

(* Giving the next element its id, from the counter that its scope has.    *)
LEMMA NamingKeeps ==
  ASSUME AccInv, NameAccessory \/ NamePart
  PROVE  AccInv'
<1>0. /\ kind \in Shapes /\ at \in Elements /\ kind' = kind /\ chosen' = chosen
      /\ at' = at + 1 /\ Len(kind) \in Nat /\ Elements' = Elements /\ Elements = 1..Len(kind)
  BY ShapeFacts DEF AccInv, NameAccessory, NamePart, Elements
<1>1. /\ chosen \in [Elements -> Nat] /\ id \in [Elements -> Nat] /\ aid \in Nat /\ iid \in Nat
      /\ id[at] = chosen[at]
  <2>1. at >= at  BY <1>0
  <2> QED  BY <1>0, <2>1 DEF AccInv
<1> DEFINE new == id'[at]
<1>2. /\ id' \in [Elements -> Nat] /\ aid' \in Nat /\ iid' \in Nat
      /\ \A n \in Elements \ {at} : id'[n] = id[n]
      /\ chosen[at] # 0 => new = chosen[at]
      /\ kind[at] = "accessory" => new < aid' /\ (chosen[at] = 0 => new = aid)
      /\ kind[at] # "accessory" =>
           iid' >= iid /\ new < iid' /\ (chosen[at] = 0 => new = iid)
      /\ aid' >= aid
  <2>1. CASE NameAccessory
    <3>1. /\ kind[at] = "accessory" /\ id' = [id EXCEPT ![at] = IdOr(id[at], aid)]
          /\ aid' = CounterAfter(id[at], aid) /\ iid' = 1
      BY <2>1 DEF NameAccessory
    <3>2. id[at] \in Nat  BY <1>0, <1>1
    <3>3. /\ IdOr(id[at], aid) \in Nat /\ CounterAfter(id[at], aid) \in Nat
          /\ CounterAfter(id[at], aid) >= aid
          /\ IdOr(id[at], aid) < CounterAfter(id[at], aid)
          /\ id[at] # 0 => IdOr(id[at], aid) = id[at]
          /\ id[at] = 0 => IdOr(id[at], aid) = aid
      BY <1>1, <3>2, CounterPasses
    <3> QED  BY <1>0, <1>1, <3>1, <3>3
  <2>2. CASE NamePart
    <3>1. /\ kind[at] # "accessory" /\ id' = [id EXCEPT ![at] = IdOr(id[at], iid)]
          /\ iid' = CounterAfter(id[at], iid) /\ aid' = aid
      BY <2>2 DEF NamePart
    <3>2. id[at] \in Nat  BY <1>0, <1>1
    <3>3. /\ IdOr(id[at], iid) \in Nat /\ CounterAfter(id[at], iid) \in Nat
          /\ CounterAfter(id[at], iid) >= iid
          /\ IdOr(id[at], iid) < CounterAfter(id[at], iid)
          /\ id[at] # 0 => IdOr(id[at], iid) = id[at]
          /\ id[at] = 0 => IdOr(id[at], iid) = iid
      BY <1>1, <3>2, CounterPasses
    <3> QED  BY <1>0, <1>1, <3>1, <3>3
  <2> QED  BY <2>1, <2>2
<1> HIDE DEF new
<1>3. ASSUME NEW n \in 1..at
      PROVE  /\ kind[n] = "accessory" => id'[n] < aid'
             /\ NoAccessory(n, at) => id'[n] < iid'
             /\ chosen[n] = 0 => \A m \in 1..(n - 1) :
                  (kind[m] = "accessory" /\ kind[n] = "accessory") \/ NoAccessory(m, n)
                    => id'[m] # id'[n]
  <2>0. \A k \in 1..(at - 1) : k \in Elements \ {at} /\ k \in Nat  BY <1>0
  <2>1. CASE n = at
    <3>1. NoAccessory(n, at) => kind[at] # "accessory"  BY <1>0, <2>1 DEF NoAccessory
    <3>2. ASSUME chosen[n] = 0, NEW m \in 1..(n - 1),
                 (kind[m] = "accessory" /\ kind[n] = "accessory") \/ NoAccessory(m, n)
          PROVE  id'[m] # id'[n]
      <4>1. m \in 1..(at - 1) /\ id'[m] = id[m] /\ id[m] \in Nat
        BY <1>0, <1>1, <1>2, <2>0, <2>1
      <4>2. CASE kind[m] = "accessory" /\ kind[n] = "accessory"
        <5>1. id[m] < aid  BY <4>1, <4>2 DEF AccInv
        <5> QED  BY <1>1, <1>2, <2>1, <3>2, <4>1, <4>2, <5>1 DEF new
      <4>3. CASE NoAccessory(m, n)
        <5>1. NoAccessory(m, at - 1) /\ kind[at] # "accessory"
          BY <1>0, <2>1, <4>1, <4>3 DEF NoAccessory
        <5>2. id[m] < iid  BY <4>1, <5>1 DEF AccInv
        <5> QED  BY <1>1, <1>2, <2>1, <3>2, <4>1, <5>1, <5>2 DEF new
      <4> QED  BY <3>2, <4>2, <4>3
    <3> QED  BY <1>2, <2>1, <3>1, <3>2 DEF new
  <2>2. CASE n # at
    <3>0. n \in 1..(at - 1) /\ n \in Elements \ {at}  BY <1>0, <2>0, <2>2
    <3>1. n \in 1..(at - 1) /\ id'[n] = id[n] /\ id[n] \in Nat
      BY ONLY <1>1, <1>2, <3>0
    <3>2. /\ kind[n] = "accessory" => id[n] < aid
          /\ NoAccessory(n, at - 1) => id[n] < iid
          /\ chosen[n] = 0 => \A m \in 1..(n - 1) :
               (kind[m] = "accessory" /\ kind[n] = "accessory") \/ NoAccessory(m, n)
                 => id[m] # id[n]
      BY <3>1 DEF AccInv
    <3>3. NoAccessory(n, at) => NoAccessory(n, at - 1) /\ kind[at] # "accessory"
      BY <1>0, <3>1 DEF NoAccessory
    <3>4. \A m \in 1..(n - 1) : id'[m] = id[m]
      BY <1>0, <1>2, <2>0, <3>1
    <3> QED  BY <1>1, <1>2, <3>1, <3>2, <3>3, <3>4
  <2> QED  BY <2>1, <2>2
<1>4. ASSUME NEW n \in Elements, n >= at + 1 \/ chosen[n] # 0
      PROVE  id'[n] = chosen[n]
  <2>1. CASE n = at  BY <1>0, <1>2, <1>4, <2>1 DEF new
  <2>2. CASE n # at
    <3>1. n >= at \/ chosen[n] # 0  BY <1>0, <1>4
    <3> QED  BY <1>2, <2>2, <3>1 DEF AccInv
  <2> QED  BY <2>1, <2>2
<1>5. at + 1 \in 1..(Len(kind) + 1) /\ (at + 1) - 1 = at  BY <1>0
<1>6. ASSUME NEW m, NEW n PROVE NoAccessory(m, n)' <=> NoAccessory(m, n)
  BY <1>0 DEF NoAccessory
<1> QED  BY <1>0, <1>1, <1>2, <1>3, <1>4, <1>5, <1>6 DEF AccInv

(* Every element has an accessory before it, the nearest is its home.      *)
LEMMA HomeFacts ==
  ASSUME kind \in Shapes, NEW n \in Elements
  PROVE  /\ Home(n) \in 1..n /\ Home(n) \in Elements /\ kind[Home(n)] = "accessory"
         /\ \A k \in (Home(n) + 1)..n : kind[k] # "accessory"
<1>0. n \in Nat /\ n >= 1 /\ kind[1] = "accessory" /\ Len(kind) \in Nat /\ n <= Len(kind)
  BY ShapeFacts DEF Elements
<1> DEFINE D == {n - a : a \in {a \in 1..n : kind[a] = "accessory"}}
<1>1. D \in SUBSET Nat /\ D # {}
  <2>1. n - 1 \in D  BY <1>0
  <2> QED  BY <1>0, <2>1
<1>2. PICK d \in D : \A e \in D : d =< e
  <2> HIDE DEF D
  <2> QED  BY <1>1, Least
<1>3. PICK a \in 1..n : kind[a] = "accessory" /\ d = n - a  BY <1>2
<1>4. \A k \in (a + 1)..n : kind[k] # "accessory"
  <2> SUFFICES ASSUME NEW k \in (a + 1)..n, kind[k] = "accessory" PROVE FALSE  OBVIOUS
  <2>1. k \in 1..n /\ n - k \in D  BY <1>0
  <2>2. d =< n - k  BY <1>2, <2>1
  <2> QED  BY <1>0, <1>3, <2>2
<1>5. /\ Home(n) \in 1..n /\ kind[Home(n)] = "accessory"
      /\ \A k \in (Home(n) + 1)..n : kind[k] # "accessory"
  BY <1>3, <1>4, Zenon DEF Home
<1> QED  BY <1>0, <1>5 DEF Elements

(* The first characteristic with its ids is the one itself, if those that  *)
(* the sketch chose were free.                                             *)
LEMMA FoundByIds ==
  ASSUME AccInv, at > Len(kind), NEW n \in Characteristics,
         ~Collides(n), ~Collides(Home(n))
  PROVE  homekit_characteristic_by_aid_and_iid(id[Home(n)], id[n]) = n
<1> DEFINE h == Home(n)
           same == Named(id[h], id[n])
<1>0. /\ kind \in Shapes /\ Len(kind) \in Nat /\ at - 1 = Len(kind)
      /\ n \in Elements /\ n \in Nat /\ kind[n] = "characteristic"
  BY ShapeFacts DEF AccInv, Characteristics, Elements
<1>1. /\ h \in 1..n /\ h \in Elements /\ kind[h] = "accessory"
      /\ \A k \in (h + 1)..n : kind[k] # "accessory"
  BY <1>0, HomeFacts
<1>2. \A e \in Elements : chosen[e] = 0 => \A m \in 1..(e - 1) :
        (kind[m] = "accessory" /\ kind[e] = "accessory") \/ NoAccessory(m, e)
          => id[m] # id[e]
  BY <1>0 DEF AccInv, Elements
<1>3. n \in same  BY <1>0 DEF Named, Characteristics
<1>4. ASSUME NEW k \in same PROVE n <= k /\ k \in Nat
  <2> DEFINE g == Home(k)
  <2>0. k \in Elements /\ k \in Nat /\ kind[k] = "characteristic" /\ id[g] = id[h] /\ id[k] = id[n]
    BY DEF Named, Characteristics, Elements
  <2>1. /\ g \in 1..k /\ g \in Elements /\ kind[g] = "accessory"
        /\ \A i \in (g + 1)..k : kind[i] # "accessory"
    BY <1>0, <2>0, HomeFacts
  <2>2. SUFFICES ASSUME k < n PROVE FALSE  BY <1>0, <2>0
  <2>3. CASE g = h
    <3>1. SameScope(k, n)  BY <1>0, <2>0, <2>3 DEF SameScope
    <3>2. k \in 1..(n - 1)  BY <1>0, <2>0, <2>2 DEF Elements
    <3>3. chosen[n] = 0  BY <2>0, <3>1, <3>2 DEF Collides
    <3>4. NoAccessory(k, n)
      <4> SUFFICES ASSUME NEW i \in k..n PROVE kind[i] # "accessory"  BY DEF NoAccessory
      <4>1. k # g  BY <2>0, <2>1
      <4>2. i \in (h + 1)..n
        <5> HIDE DEF g, h
        <5> QED  BY <1>0, <1>1, <2>0, <2>1, <2>3, <4>1
      <4> QED  BY <1>1, <4>2
    <3> QED  BY <1>0, <1>2, <2>0, <3>2, <3>3, <3>4
  <2>4. CASE g # h
    <3>1. g \in 1..(h - 1)
      <4>1. g \notin (h + 1)..n  BY <1>1, <2>1
      <4> HIDE DEF g, h
      <4> QED  BY <1>0, <1>1, <2>0, <2>1, <2>2, <2>4, <4>1
    <3>2. SameScope(g, h)  BY <1>1, <2>1 DEF SameScope
    <3>3. chosen[h] = 0
      <4> HIDE DEF g
      <4> QED  BY <2>0, <3>1, <3>2 DEF Collides
    <3> HIDE DEF g, h
    <3> QED  BY <1>1, <1>2, <2>0, <2>1, <3>1, <3>3
  <2> QED  BY <2>3, <2>4
<1>5. homekit_characteristic_by_aid_and_iid(id[h], id[n])
        = CHOOSE m \in same : \A k \in same : m <= k
  BY <1>3 DEF homekit_characteristic_by_aid_and_iid
<1> DEFINE first == CHOOSE m \in same : \A k \in same : m <= k
<1> HIDE DEF same, h
<1>6. first \in same /\ \A k \in same : first <= k  BY <1>3, <1>4, Zenon
<1> HIDE DEF first
<1>7. first = n  BY <1>0, <1>3, <1>4, <1>6
<1> QED  BY <1>5, <1>7 DEF first, h

(* A request reaches every characteristic by its ids once they are given,  *)
(* unless the sketch chose, for it or for its accessory, an id that an     *)
(* earlier element had already, from the sketch or from the counter.       *)
THEOREM CharacteristicsFound == AccSpec => []EveryoneIsFound
<1>1. AccInv /\ [AccNext]_accVars => AccInv'
  <2> SUFFICES ASSUME AccInv, [AccNext]_accVars PROVE AccInv'  OBVIOUS
  <2>1. CASE AccNext  BY <2>1, NamingKeeps DEF AccNext
  <2>2. CASE UNCHANGED accVars
    <3>1. UNCHANGED <<kind, chosen, id, aid, iid, at>>  BY <2>2 DEF accVars
    <3> QED  BY <3>1 DEF AccInv, NoAccessory, Elements
  <2> QED  BY <2>1, <2>2
<1>2. AccInv => EveryoneIsFound  BY FoundByIds DEF EveryoneIsFound
<1> QED  BY AccInitInv, <1>1, <1>2, PTL DEF AccSpec

------------------------------------------------------------------------------
(* The query of a URL.  A parameter starts where the query does and behind *)
(* every ampersand; those that start before the index are on the list.     *)
Before(n, i) == {j \in Starts : InQuery(j) /\ j < i /\ SubStr(j, NameEnd(j)) = n}

ValueAt(j) ==
  LET v == NameEnd(j) + 1
  IN  IF At(v - 1) = "=" /\ At(v) \notin {"&", "#", NUL}
      THEN SubStr(v, Until(v, {"&", "#"}))
      ELSE None

LastOne(S) == CHOOSE j \in S : \A k \in S : k <= j

MeaningUpTo(n, i) ==
  IF Before(n, i) = {} THEN "absent" ELSE ValueAt(LastOne(Before(n, i)))

Parameter == [name : Seq(Char \union Delimiters),
              value : Seq(Char \union Delimiters) \union {None}]

QueryInv ==
  /\ query \in Seq(Char \union Delimiters)
  /\ index \in Nat \ {0} /\ params \in Seq(Parameter)
  /\ parser \in {"parse", "done", "outside"}
  /\ WellFormed =>
       /\ parser # "outside" /\ index <= Len(query) + 1
       /\ \A k \in 1..(index - 1) : At(k) # "#"
       /\ parser = "parse" => index \in Starts \/ At(index) = "&"
       /\ parser = "done" => At(index) \in {NUL, "#"}
       /\ \A n : query_params_find(params, n) = MeaningUpTo(n, index)

LEMMA Characters ==
  ASSUME query \in Seq(Char \union Delimiters), NEW i \in Nat \ {0}
  PROVE  At(i) = NUL <=> i > Len(query)
<1>1. Len(query) \in Nat  BY LenProperties
<1>2. CASE i <= Len(query)
  <2>1. At(i) = query[i] /\ i \in 1..Len(query)  BY <1>1, <1>2 DEF At
  <2>2. query[i] \in Char \union Delimiters  BY <2>1, ElementOfSeq
  <2>3. NUL \notin Char \union Delimiters  BY CharAssumption DEF Delimiters, NUL
  <2> QED  BY <1>1, <1>2, <2>1, <2>2, <2>3
<1>3. CASE ~(i <= Len(query))  BY <1>1, <1>3 DEF At
<1> QED  BY <1>2, <1>3

LEMMA UntilStops ==
  ASSUME query \in Seq(Char \union Delimiters), NEW i \in Nat \ {0}, i <= Len(query) + 1,
         NEW stop
  PROVE  /\ Until(i, stop) \in i..(Len(query) + 1)
         /\ At(Until(i, stop)) \in stop \union {NUL}
         /\ \A k \in i..(Until(i, stop) - 1) : At(k) \notin stop
<1> DEFINE end == Len(query) + 1
           T == {j \in i..end : At(j) \in stop \union {NUL}}
<1>1. Len(query) \in Nat  BY LenProperties
<1>2. end \in Nat \ {0} /\ end > Len(query)  BY <1>1
<1>3. At(end) = NUL  BY <1>2, Characters
<1>4. T \in SUBSET Nat /\ end \in T  BY <1>2, <1>3
<1>5. PICK j \in T : \A k \in T : j =< k  BY <1>4, Least
<1>6. j \in i..end /\ At(j) \in stop \union {NUL}  BY <1>5
<1>7. \A k \in i..(j - 1) : At(k) \notin stop
  <2> SUFFICES ASSUME NEW k \in i..(j - 1), At(k) \in stop PROVE FALSE  OBVIOUS
  <2>1. k \in i..end  BY <1>2, <1>6
  <2>2. k \in T  BY <2>1
  <2>3. j =< k  BY <1>5, <2>2
  <2> QED  BY <1>2, <1>6, <2>3
<1> HIDE DEF T, end
<1> QED  BY <1>6, <1>7 DEF Until, end

(* The newest parameter of that name is found first.                       *)
LEMMA FindPrepended ==
  ASSUME NEW l \in Seq(Parameter), NEW e \in Parameter, NEW n
  PROVE  query_params_find(<<e>> \o l, n)
           = IF e.name = n THEN e.value ELSE query_params_find(l, n)
<1> DEFINE m == <<e>> \o l
           First(p, k) == p[k].name = n /\ \A j \in 1..(k - 1) : p[j].name # n
           Carriers(p) == {k \in 1..Len(p) : p[k].name = n}
<1>1. Len(l) \in Nat  BY LenProperties
<1>2. /\ Len(m) = Len(l) + 1 /\ m[1] = e
      /\ \A k \in 1..Len(l) : m[k + 1] = l[k]
  BY <1>1
<1> HIDE DEF m
<1>3. CASE e.name = n
  <2>1. 1 \in 1..Len(m) /\ First(m, 1)  BY <1>1, <1>2, <1>3
  <2>2. \A k \in 1..Len(m) : First(m, k) => k = 1
    <3> SUFFICES ASSUME NEW k \in 1..Len(m), First(m, k), k # 1 PROVE FALSE  OBVIOUS
    <3>1. 1 \in 1..(k - 1)  BY <1>1, <1>2
    <3> QED  BY <1>2, <1>3, <3>1
  <2>3. (CHOOSE k \in 1..Len(m) : First(m, k)) = 1  BY <2>1, <2>2
  <2> QED  BY <1>2, <1>3, <2>1, <2>3 DEF query_params_find, m
<1>4. CASE e.name # n /\ Carriers(l) = {}
  <2>1. \A k \in 1..Len(m) : m[k].name # n
    <3> TAKE k \in 1..Len(m)
    <3>1. k = 1 \/ (k - 1 \in 1..Len(l) /\ m[k] = l[k - 1])
      <4>1. k # 1 => k - 1 \in 1..Len(l) /\ (k - 1) + 1 = k  BY <1>1, <1>2
      <4> QED  BY <1>2, <4>1
    <3> QED  BY <1>2, <1>4, <3>1
  <2>2. query_params_find(m, n) = "absent"  BY <2>1 DEF query_params_find
  <2>3. query_params_find(l, n) = "absent"  BY <1>4 DEF query_params_find
  <2> QED  BY <1>4, <2>2, <2>3 DEF m
<1>5. CASE e.name # n /\ Carriers(l) # {}
  <2>1. Carriers(l) \in SUBSET Nat  OBVIOUS
  <2>2. PICK f \in Carriers(l) : \A k \in Carriers(l) : f =< k
    <3> HIDE DEF Carriers
    <3> QED  BY <1>5, <2>1, Least
  <2>3. f \in 1..Len(l) /\ First(l, f)
    <3>1. \A j \in 1..(f - 1) : j \in 1..Len(l) /\ ~(f =< j)  BY <1>1, <2>2
    <3> QED  BY <2>2, <3>1
  <2>4. \A k \in 1..Len(l) : First(l, k) => k = f
    <3> SUFFICES ASSUME NEW k \in 1..Len(l), First(l, k), k # f PROVE FALSE  OBVIOUS
    <3>1. k \in Carriers(l)  OBVIOUS
    <3>2. f =< k  BY <2>2, <3>1
    <3>3. f \in 1..(k - 1)  BY <1>1, <2>3, <3>2
    <3> QED  BY <2>3, <3>3
  <2>5. f + 1 \in 1..Len(m) /\ First(m, f + 1)
    <3>1. f + 1 \in 1..Len(m) /\ m[f + 1].name = n  BY <1>1, <1>2, <2>3
    <3>2. ASSUME NEW j \in 1..(f + 1 - 1) PROVE m[j].name # n
      <4>1. CASE j = 1  BY <1>2, <1>5, <4>1
      <4>2. CASE j # 1
        <5>1. j - 1 \in 1..(f - 1) /\ j - 1 \in 1..Len(l) /\ (j - 1) + 1 = j
          BY <1>1, <2>3, <4>2
        <5> QED  BY <1>2, <2>3, <5>1
      <4> QED  BY <4>1, <4>2
    <3> QED  BY <3>1, <3>2
  <2>6. \A k \in 1..Len(m) : First(m, k) => k = f + 1
    <3> SUFFICES ASSUME NEW k \in 1..Len(m), First(m, k), k # f + 1 PROVE FALSE  OBVIOUS
    <3>1. k # 1  BY <1>2, <1>5
    <3>2. k < f + 1
      <4>1. CASE f + 1 < k
        <5>1. f + 1 \in 1..(k - 1)  BY <1>1, <1>2, <2>3, <4>1
        <5> QED  BY <2>5, <5>1
      <4> QED  BY <1>1, <1>2, <2>3, <4>1
    <3>3. k \in 1..(f + 1 - 1)  BY <1>1, <1>2, <2>3, <3>2
    <3> QED  BY <2>5, <3>3
  <2>7. (CHOOSE k \in 1..Len(l) : First(l, k)) = f  BY <2>3, <2>4
  <2>8. (CHOOSE k \in 1..Len(m) : First(m, k)) = f + 1  BY <2>5, <2>6
  <2>9. query_params_find(l, n) = l[f].value
    BY <2>3, <2>7 DEF query_params_find
  <2>10. query_params_find(m, n) = m[f + 1].value
    BY <2>5, <2>8 DEF query_params_find
  <2> QED  BY <1>2, <1>5, <2>3, <2>9, <2>10 DEF m
<1> QED  BY <1>3, <1>4, <1>5

LEMMA PartOfQuery ==
  ASSUME query \in Seq(Char \union Delimiters), NEW i \in Nat \ {0},
         NEW j \in i..(Len(query) + 1)
  PROVE  SubStr(i, j) \in Seq(Char \union Delimiters)
<1>1. Len(query) \in Nat  BY LenProperties
<1>2. \A k \in i..(j - 1) : k \in 1..Len(query)  BY <1>1
<1>3. \A k \in i..(j - 1) : query[k] \in Char \union Delimiters
  BY <1>2, ElementOfSeq
<1>4. i \in Nat /\ j - 1 \in Int  BY <1>1
<1> HIDE DEF Delimiters
<1> QED  BY <1>1, <1>3, <1>4, SubSeqProperties DEF SubStr

(* One round takes one parameter, up to the ampersand behind it or to the  *)
(* end.                                                                    *)
LEMMA RoundTakes ==
  ASSUME query \in Seq(Char \union Delimiters), index \in Nat \ {0}, index <= Len(query),
         Until(index, Delimiters) # index
  PROVE  /\ At(index) \notin Delimiters
         /\ ValueEnd \in (index + 1)..(Len(query) + 1)
         /\ At(ValueEnd) \in {"&", "#", NUL}
         /\ \A k \in index..(ValueEnd - 1) : At(k) \notin {"&", "#"}
         /\ Param(SubStr(index, ValueStart - 1), ValueOf) \in Parameter
         /\ ValueStart - 1 = NameEnd(index) /\ ValueOf = ValueAt(index)
<1> DEFINE e == NameEnd(index)
           v == e + 1
           end == Len(query) + 1
<1>1. Len(query) \in Nat  BY LenProperties
<1>2. /\ e \in index..end /\ At(e) \in Delimiters \union {NUL}
      /\ \A k \in index..(e - 1) : At(k) \notin Delimiters
  BY <1>1, UntilStops DEF NameEnd
<1>3. e \in (index + 1)..end /\ e \in Nat \ {0}  BY <1>1, <1>2 DEF NameEnd
<1>4. At(index) \notin Delimiters
  <2>1. index \in index..(e - 1)  BY <1>1, <1>3
  <2> QED  BY <1>2, <2>1
<1>5. ValueStart = v /\ v - 1 = e /\ ValueStart - 1 = e  BY <1>1, <1>3 DEF ValueStart, NameEnd
<1>6. SubStr(index, e) \in Seq(Char \union Delimiters)  BY <1>2, PartOfQuery
<1>7. ASSUME ValueOf = ValueAt(index), ValueOf \in Seq(Char \union Delimiters) \union {None}
      PROVE  /\ Param(SubStr(index, ValueStart - 1), ValueOf) \in Parameter
             /\ ValueStart - 1 = NameEnd(index) /\ ValueOf = ValueAt(index)
  BY <1>5, <1>6, <1>7 DEF Param, Parameter
<1>8. CASE At(e) = "="
  <2> DEFINE u == Until(v, {"&", "#"})
  <2>1. e <= Len(query)
    <3>1. At(e) # NUL  BY <1>8 DEF NUL
    <3> QED  BY <1>1, <1>3, <3>1, Characters
  <2>2. v \in Nat \ {0} /\ v <= Len(query) + 1  BY <1>1, <1>3, <2>1
  <2>3. /\ u \in v..end /\ At(u) \in {"&", "#", NUL}
        /\ \A k \in v..(u - 1) : At(k) \notin {"&", "#"}
    <3>1. At(u) \in {"&", "#"} \union {NUL}  BY <2>2, UntilStops
    <3> QED  BY <2>2, <3>1, UntilStops
  <2>4. ValueEnd = u  BY <1>5, <1>8 DEF ValueEnd
  <2>5. ASSUME NEW k \in index..(u - 1) PROVE At(k) \notin {"&", "#"}
    <3>1. k \in index..(e - 1) \/ k = e \/ k \in v..(u - 1)  BY <1>1, <1>3, <2>2, <2>3
    <3> QED  BY <1>2, <1>8, <2>3, <3>1 DEF Delimiters
  <2>6. u <= v <=> At(v) \in {"&", "#", NUL}
    <3>1. CASE u = v  BY <2>2, <2>3, <3>1
    <3>2. CASE u # v
      <4>1. v \in v..(u - 1) /\ ~(u <= v) /\ v <= Len(query)  BY <1>1, <2>2, <2>3, <3>2
      <4>2. At(v) \notin {"&", "#"} /\ At(v) # NUL  BY <2>2, <2>3, <4>1, Characters
      <4> QED  BY <4>1, <4>2
    <3> QED  BY <3>1, <3>2
  <2>7. ValueOf = IF u <= v THEN None ELSE SubStr(v, u)  BY <1>5, <2>4 DEF ValueOf
  <2>8. ValueAt(index) = IF At(v) \notin {"&", "#", NUL} THEN SubStr(v, u) ELSE None
    BY <1>5, <1>8 DEF ValueAt
  <2>9. SubStr(v, u) \in Seq(Char \union Delimiters)  BY <2>2, <2>3, PartOfQuery
  <2>10. ValueOf = ValueAt(index)  BY <2>6, <2>7, <2>8
  <2>11. u \in (index + 1)..end  BY <1>1, <1>3, <2>2, <2>3
  <2> HIDE DEF u, v, e, end
  <2>12. ValueOf \in Seq(Char \union Delimiters) \union {None}  BY <2>7, <2>9
  <2> QED  BY <1>4, <1>7, <2>3, <2>4, <2>5, <2>10, <2>11, <2>12 DEF end
<1>9. CASE At(e) # "="
  <2>1. ValueEnd = e  BY <1>5, <1>9 DEF ValueEnd
  <2>2. At(e) \in {"&", "#", NUL}  BY <1>2, <1>9 DEF Delimiters
  <2>3. ~(ValueStart - 1 # e) /\ e <= ValueStart  BY <1>3, <1>5
  <2>4. ValueOf = None  BY <2>1, <2>3 DEF ValueOf
  <2>5. ValueAt(index) = None  BY <1>5, <1>9 DEF ValueAt
  <2>6. \A k \in index..(e - 1) : At(k) \notin {"&", "#"}  BY <1>2 DEF Delimiters
  <2> HIDE DEF v, e
  <2> QED  BY <1>3, <1>4, <1>7, <2>1, <2>2, <2>4, <2>5, <2>6
<1> QED  BY <1>8, <1>9

LEMMA SameQuery ==
  ASSUME query' = query
  PROVE  /\ WellFormed' = WellFormed
         /\ \A i : At(i)' = At(i)
         /\ Starts' = Starts
         /\ \A n, i : MeaningUpTo(n, i)' = MeaningUpTo(n, i)
<1>1. \A i : At(i)' = At(i)  BY DEF At
<1>2. Starts' = Starts  BY DEF Starts
<1>3. \A i, j : SubStr(i, j)' = SubStr(i, j)  BY DEF SubStr
<1>4. \A i, stop : Until(i, stop)' = Until(i, stop)  BY DEF Until, At
<1>5. \A j : NameEnd(j)' = NameEnd(j)  BY DEF NameEnd, Until, At
<1>6. \A j : InQuery(j)' = InQuery(j)  BY DEF InQuery, At
<1>7. \A j : ValueAt(j)' = ValueAt(j)  BY DEF ValueAt, NameEnd, Until, At, SubStr
<1>8. WellFormed' = WellFormed  BY DEF WellFormed, Starts, InQuery, At
<1>9. \A n, i : MeaningUpTo(n, i)' = MeaningUpTo(n, i)
  BY DEF MeaningUpTo, LastOne, Before, Starts, InQuery, ValueAt, NameEnd, Until, At, SubStr
<1> QED  BY <1>1, <1>2, <1>8, <1>9

(* Where nothing but the parameter at i starts, it is the latest one.      *)
LEMMA OneMoreStart ==
  ASSUME query \in Seq(Char \union Delimiters), NEW i \in Starts, InQuery(i),
         NEW e \in Nat, i < e, e <= Len(query) + 1,
         \A k \in i..(e - 1) : At(k) # "&",
         NEW n
  PROVE  MeaningUpTo(n, e)
           = IF SubStr(i, NameEnd(i)) = n THEN ValueAt(i) ELSE MeaningUpTo(n, i)
<1>1. Len(query) \in Nat  BY LenProperties
<1>2. Starts \subseteq Nat  BY <1>1 DEF Starts
<1>3. ASSUME NEW j \in Starts, j < e PROVE j <= i
  <2> SUFFICES ASSUME i < j PROVE FALSE  BY <1>2
  <2>1. i \in Nat /\ j \in Nat /\ i >= 1  BY <1>1 DEF Starts
  <2>2. j - 1 \in 1..Len(query) /\ query[j - 1] = "&"  BY <1>1, <2>1 DEF Starts
  <2>3. At(j - 1) = "&" /\ j - 1 \in i..(e - 1)  BY <1>1, <1>3, <2>1, <2>2 DEF At
  <2> QED  BY <2>3
<1>4. Before(n, e) = Before(n, i) \union (IF SubStr(i, NameEnd(i)) = n THEN {i} ELSE {})
  <2>1. \A j \in Starts : j < e <=> j < i \/ j = i  BY <1>2, <1>3
  <2> QED  BY <2>1 DEF Before
<1>5. CASE SubStr(i, NameEnd(i)) = n
  <2>1. i \in Before(n, e) /\ \A k \in Before(n, e) : k <= i /\ k \in Nat
    BY <1>2, <1>4, <1>5 DEF Before
  <2>2. (CHOOSE j \in Before(n, e) : \A k \in Before(n, e) : k <= j) = i
    <3>1. \A j \in Before(n, e) : (\A k \in Before(n, e) : k <= j) => j = i  BY <1>2, <2>1
    <3> QED  BY <2>1, <3>1
  <2> QED  BY <1>5, <2>1, <2>2 DEF MeaningUpTo, LastOne
<1>6. CASE SubStr(i, NameEnd(i)) # n
  <2>1. Before(n, e) = Before(n, i)  BY <1>4, <1>6
  <2> QED  BY <1>6, <2>1 DEF MeaningUpTo
<1> QED  BY <1>5, <1>6

LEMMA QueryStart == QueryInit => QueryInv
<1> SUFFICES ASSUME QueryInit PROVE QueryInv  OBVIOUS
<1>1. PICK m \in 0..MaxLength : query \in [1..m -> Char \union Delimiters]  BY DEF QueryInit
<1>2. m \in Nat  BY MaxLengthAssumption
<1>3. query \in Seq(Char \union Delimiters)  BY <1>1, <1>2, IsASeq
<1>4. index = 1 /\ params = <<>> /\ parser = "parse"  BY DEF QueryInit
<1>5. Len(query) \in Nat  BY <1>3, LenProperties
<1>6. 1 \in Starts /\ Starts \subseteq Nat \ {0}  BY <1>5 DEF Starts
<1>7. ASSUME NEW n PROVE query_params_find(params, n) = MeaningUpTo(n, 1)
  <2>1. Len(params) = 0 /\ 1..0 = {}  BY <1>4
  <2>2. query_params_find(params, n) = "absent"  BY <2>1 DEF query_params_find
  <2>3. Before(n, 1) = {}
    <3>1. \A j \in Starts : ~(j < 1)  BY <1>6
    <3> QED  BY <3>1 DEF Before
  <2> QED  BY <2>2, <2>3 DEF MeaningUpTo
<1> QED  BY <1>3, <1>4, <1>5, <1>6, <1>7 DEF QueryInv

LEMMA QueryStep == QueryInv /\ [QueryNext]_queryVars => QueryInv'
<1> SUFFICES ASSUME QueryInv, [QueryNext]_queryVars PROVE QueryInv'  OBVIOUS
<1>1. /\ query \in Seq(Char \union Delimiters) /\ index \in Nat \ {0}
      /\ params \in Seq(Parameter) /\ Len(query) \in Nat
  BY LenProperties DEF QueryInv
<1>2. CASE TakeParam
  <2> DEFINE e == ValueEnd
             p == Param(SubStr(index, ValueStart - 1), ValueOf)
  <2>1. /\ parser = "parse" /\ index <= Len(query) /\ Until(index, Delimiters) # index
        /\ params' = <<p>> \o params /\ index' = e /\ query' = query
        /\ parser' = IF At(e) \in {NUL, "#"} THEN "done" ELSE "parse"
    BY <1>2 DEF TakeParam
  <2>2. /\ At(index) \notin Delimiters
        /\ e \in (index + 1)..(Len(query) + 1) /\ At(e) \in {"&", "#", NUL}
        /\ \A k \in index..(e - 1) : At(k) \notin {"&", "#"}
        /\ p \in Parameter
        /\ ValueStart - 1 = NameEnd(index) /\ ValueOf = ValueAt(index)
    BY <1>1, <2>1, RoundTakes
  <2>3. p.name = SubStr(index, NameEnd(index)) /\ p.value = ValueAt(index)
    BY <2>2 DEF Param
  <2> HIDE DEF e, p
  <2>4. e \in Nat \ {0} /\ index < e /\ e <= Len(query) + 1  BY <1>1, <2>2
  <2>5. params' \in Seq(Parameter)
    <3>1. <<p>> \in Seq(Parameter)  BY <2>2
    <3> QED  BY <1>1, <2>1, <3>1, ConcatProperties
  <2>6. ASSUME WellFormed
        PROVE  /\ \A k \in 1..(e - 1) : At(k) # "#"
               /\ \A n : query_params_find(params', n) = MeaningUpTo(n, e)
    <3>1. /\ \A k \in 1..(index - 1) : At(k) # "#"
          /\ index \in Starts
          /\ \A n : query_params_find(params, n) = MeaningUpTo(n, index)
      BY <2>1, <2>2, <2>6 DEF QueryInv, Delimiters
    <3>2. InQuery(index)  BY <3>1 DEF InQuery
    <3>3. \A k \in 1..(e - 1) : At(k) # "#"
      <4>1. \A k \in 1..(e - 1) : k \in 1..(index - 1) \/ k \in index..(e - 1)
        BY <1>1, <2>4
      <4> QED  BY <2>2, <3>1, <4>1
    <3>4. ASSUME NEW n PROVE query_params_find(params', n) = MeaningUpTo(n, e)
      <4>1. MeaningUpTo(n, e)
              = IF SubStr(index, NameEnd(index)) = n THEN ValueAt(index)
                ELSE MeaningUpTo(n, index)
        BY <1>1, <2>2, <2>4, <3>1, <3>2, OneMoreStart
      <4>2. query_params_find(params', n)
              = IF p.name = n THEN p.value ELSE query_params_find(params, n)
        BY <1>1, <2>1, <2>2, FindPrepended
      <4> QED  BY <2>3, <3>1, <4>1, <4>2
    <3> QED  BY <3>3, <3>4
  <2>7. At(e) \notin {NUL, "#"} => At(e) = "&"  BY <2>2
  <2>8. /\ WellFormed' = WellFormed /\ (\A i : At(i)' = At(i))
        /\ Starts' = Starts /\ \A n, i : MeaningUpTo(n, i)' = MeaningUpTo(n, i)
    BY <2>1, SameQuery
  <2>9. query' \in Seq(Char \union Delimiters) /\ index' \in Nat \ {0}
        /\ parser' \in {"parse", "done"}
    BY <1>1, <2>1, <2>4
  <2>10. ASSUME WellFormed'
         PROVE  /\ parser' # "outside" /\ index' <= Len(query') + 1
                /\ \A k \in 1..(index' - 1) : At(k)' # "#"
                /\ parser' = "parse" => index' \in Starts' \/ At(e) = "&"
                /\ parser' = "done" => At(e) \in {NUL, "#"}
                /\ \A n : query_params_find(params', n) = MeaningUpTo(n, e)
    BY <2>1, <2>4, <2>6, <2>7, <2>8, <2>9, <2>10
  <2>11. At(index)' = At(e) /\ \A n : MeaningUpTo(n, index)' = MeaningUpTo(n, e)
    <3>1. At(index)' = At(e)  BY <2>1 DEF At
    <3>2. \A n : MeaningUpTo(n, index)' = MeaningUpTo(n, e)
      BY <2>1 DEF MeaningUpTo, LastOne, Before, Starts, InQuery, ValueAt, NameEnd, Until,
                  At, SubStr
    <3> QED  BY <3>1, <3>2
  <2>12. \A n : query_params_find(params, n)' = query_params_find(params', n)
    BY DEF query_params_find
  <2> QED  BY <2>5, <2>9, <2>10, <2>11, <2>12 DEF QueryInv
<1>3. CASE SkipCharacter
  <2>1. /\ parser = "parse" /\ index' = index + 1 /\ query' = query /\ params' = params
        /\ \/ index <= Len(query) /\ At(index) \in Delimiters /\ parser' = parser
           \/ index > Len(query) /\ parser' = "outside"
    BY <1>3 DEF SkipCharacter
  <2>2. ASSUME WellFormed
        PROVE  /\ At(index) = "&" /\ index <= Len(query) /\ parser' = "parse"
               /\ index + 1 \in Starts
               /\ \A k \in 1..index : At(k) # "#"
               /\ \A n : MeaningUpTo(n, index + 1) = MeaningUpTo(n, index)
    <3>1. /\ \A k \in 1..(index - 1) : At(k) # "#"
          /\ index \in Starts \/ At(index) = "&"
      BY <2>1, <2>2 DEF QueryInv
    <3>2. InQuery(index)  BY <3>1 DEF InQuery
    <3>3. index \in Starts => At(index) \notin Delimiters \union {NUL}
      BY <2>2, <3>2 DEF WellFormed
    <3>4. index > Len(query) => At(index) = NUL  BY <1>1, Characters
    <3>5. "&" \in Delimiters /\ "&" # NUL  BY DEF Delimiters, NUL
    <3>6. index <= Len(query) /\ parser' = "parse" /\ At(index) \in Delimiters
      BY <1>1, <2>1, <3>1, <3>3, <3>4, <3>5
    <3>7. index \notin Starts /\ At(index) = "&"  BY <3>1, <3>3, <3>6
    <3>8. index + 1 \in Starts
      <4>1. index \in 1..Len(query) /\ query[index] = "&"  BY <1>1, <3>6, <3>7 DEF At
      <4> QED  BY <4>1 DEF Starts
    <3>9. \A k \in 1..index : At(k) # "#"
      <4>1. \A k \in 1..index : k = index \/ k \in 1..(index - 1)  BY <1>1
      <4> QED  BY <3>1, <3>7, <4>1
    <3>10. \A n : Before(n, index + 1) = Before(n, index)
      <4>1. \A j \in Starts : j \in Nat  BY <1>1 DEF Starts
      <4>2. \A j \in Starts : j < index + 1 <=> j < index  BY <1>1, <3>7, <4>1
      <4> QED  BY <4>2 DEF Before
    <3>11. ASSUME NEW n PROVE MeaningUpTo(n, index + 1) = MeaningUpTo(n, index)
      <4>1. Before(n, index + 1) = Before(n, index)  BY <3>10
      <4> QED  BY <4>1 DEF MeaningUpTo
    <3> QED  BY <3>6, <3>7, <3>8, <3>9, <3>11
  <2>3. /\ WellFormed' = WellFormed /\ (\A i : At(i)' = At(i)) /\ Starts' = Starts
    BY <2>1, SameQuery
  <2>4. /\ query' \in Seq(Char \union Delimiters) /\ index' \in Nat \ {0}
        /\ params' \in Seq(Parameter) /\ parser' \in {"parse", "outside"}
    BY <1>1, <2>1
  <2>5. /\ At(index)' = At(index + 1)
        /\ \A n : MeaningUpTo(n, index)' = MeaningUpTo(n, index + 1)
    <3>1. At(index)' = At(index + 1)  BY <2>1 DEF At
    <3>2. \A n : MeaningUpTo(n, index)' = MeaningUpTo(n, index + 1)
      BY <2>1 DEF MeaningUpTo, LastOne, Before, Starts, InQuery, ValueAt, NameEnd, Until,
                  At, SubStr
    <3> QED  BY <3>1, <3>2
  <2>6. \A n : query_params_find(params, n)' = query_params_find(params, n)
    BY <2>1 DEF query_params_find
  <2>7. ASSUME WellFormed'
        PROVE  /\ parser' = "parse" /\ index' <= Len(query') + 1
               /\ \A k \in 1..(index' - 1) : At(k)' # "#"
               /\ index' \in Starts'
               /\ \A n : query_params_find(params, n)' = MeaningUpTo(n, index)'
    <3>1. \A n : query_params_find(params, n) = MeaningUpTo(n, index)
      BY <2>3, <2>7 DEF QueryInv
    <3>2. index' - 1 = index /\ index' <= Len(query') + 1
      BY <1>1, <2>1, <2>2, <2>3, <2>7
    <3>3. parser' = "parse" /\ index' \in Starts'  BY <2>1, <2>2, <2>3, <2>7
    <3>4. \A k \in 1..(index' - 1) : At(k)' # "#"  BY <2>2, <2>3, <2>7, <3>2
    <3>5. \A n : query_params_find(params, n)' = MeaningUpTo(n, index)'
      <4>1. \A n : MeaningUpTo(n, index + 1) = MeaningUpTo(n, index)  BY <2>2, <2>3, <2>7
      <4> QED  BY <2>5, <2>6, <3>1, <4>1
    <3> QED  BY <3>2, <3>3, <3>4, <3>5
  <2> QED  BY <2>4, <2>7 DEF QueryInv
<1>4. CASE UNCHANGED queryVars
  <2>1. query' = query /\ index' = index /\ params' = params /\ parser' = parser
    BY <1>4 DEF queryVars
  <2>2. /\ WellFormed' = WellFormed /\ Starts' = Starts /\ \A i : At(i)' = At(i)
    BY <2>1, SameQuery
  <2>3. At(index)' = At(index) /\ \A n : MeaningUpTo(n, index)' = MeaningUpTo(n, index)
    <3>1. At(index)' = At(index)  BY <2>1 DEF At
    <3>2. \A n : MeaningUpTo(n, index)' = MeaningUpTo(n, index)
      BY <2>1 DEF MeaningUpTo, LastOne, Before, Starts, InQuery, ValueAt, NameEnd, Until,
                  At, SubStr
    <3> QED  BY <3>1, <3>2
  <2>4. \A n : query_params_find(params, n)' = query_params_find(params, n)
    BY <2>1 DEF query_params_find
  <2> QED  BY <2>1, <2>2, <2>3, <2>4 DEF QueryInv
<1> QED  BY <1>2, <1>3, <1>4 DEF QueryNext

(* On a query of the grammar, of any length and over any characters, the   *)
(* parser stays inside the string, and every look-up of a name that fits   *)
(* in it answers what the query says of that name, the last one of several *)
(* (query_params_parse(), query_params_find()).                            *)
THEOREM QueriesUnderstood == QuerySpec => []QueryUnderstood
<1>1. QueryInv => QueryUnderstood
  <2> SUFFICES ASSUME QueryInv, WellFormed
               PROVE  /\ parser # "outside"
                      /\ parser = "done" =>
                           \A n : query_params_find(params, n) = Meaning(n)
    BY DEF QueryUnderstood
  <2>1. parser # "outside"  BY DEF QueryInv
  <2>2. ASSUME parser = "done", NEW n PROVE query_params_find(params, n) = Meaning(n)
    <3>1. /\ query \in Seq(Char \union Delimiters) /\ index \in Nat \ {0}
          /\ index <= Len(query) + 1 /\ At(index) \in {NUL, "#"}
          /\ query_params_find(params, n) = MeaningUpTo(n, index)
          /\ Len(query) \in Nat
      BY <2>2, LenProperties DEF QueryInv
    <3>2. ASSUME NEW j \in Starts, InQuery(j) PROVE j < index
      <4>1. j \in Nat \ {0} /\ j <= Len(query) + 1  BY <3>1 DEF Starts
      <4>2. At(j) \notin Delimiters \union {NUL}  BY <3>2 DEF WellFormed
      <4>3. CASE At(index) = NUL
        <5>1. index = Len(query) + 1  BY <3>1, <4>3, Characters
        <5>2. j # index  BY <4>2, <4>3
        <5> QED  BY <3>1, <4>1, <5>1, <5>2
      <4>4. CASE At(index) = "#"
        <5>1. j # index  BY <4>2, <4>4 DEF Delimiters
        <5>2. ~(index < j)
          <6>1. index < j => index \in 1..(j - 1)  BY <3>1, <4>1
          <6> QED  BY <3>2, <4>4, <6>1 DEF InQuery
        <5> QED  BY <3>1, <4>1, <5>1, <5>2
      <4> QED  BY <3>1, <4>3, <4>4
    <3>3. Before(n, index) = Occurrences(n)  BY <3>2 DEF Before, Occurrences
    <3>4. Meaning(n) = MeaningUpTo(n, index)
      BY <3>3 DEF Meaning, MeaningUpTo, LastOne, ValueAt
    <3> QED  BY <3>1, <3>4
  <2> QED  BY <2>1, <2>2
<1> QED  BY QueryStart, QueryStep, <1>1, PTL DEF QuerySpec

------------------------------------------------------------------------------
(* The JSON writer.  Counting the symbols of a text.                       *)
Count(t, i, C) == Cardinality({j \in 1..i : t[j] \in C})

LEMMA CountFacts ==
  ASSUME NEW t, NEW C, NEW i \in Nat
  PROVE  /\ Count(t, i, C) \in Nat /\ Count(t, 0, C) = 0
         /\ Count(t, i + 1, C) = Count(t, i, C) + (IF t[i + 1] \in C THEN 1 ELSE 0)
         /\ Count(t, i, C) # 0 => \E j \in 1..i : t[j] \in C
<1> DEFINE Places(k) == {j \in 1..k : t[j] \in C}
<1>1. Places(0) = {}  OBVIOUS
<1>2. Places(i + 1) = Places(i) \union (IF t[i + 1] \in C THEN {i + 1} ELSE {})
  <2>1. 1..(i + 1) = (1..i) \union {i + 1}  OBVIOUS
  <2> QED  BY <2>1
<1>3. IsFiniteSet(Places(i)) /\ i + 1 \notin Places(i)
  <2>1. IsFiniteSet(1..i) /\ Places(i) \subseteq 1..i  BY FS_Interval
  <2>2. i + 1 \notin 1..i  OBVIOUS
  <2> HIDE DEF Places
  <2> QED  BY <2>1, <2>2, FS_Subset
<1>4. Places(i) # {} => \E j \in 1..i : t[j] \in C  OBVIOUS
<1> HIDE DEF Places
<1>5. Cardinality(Places(i)) \in Nat  BY <1>3, FS_CardinalityType
<1>6. t[i + 1] \in C => Cardinality(Places(i) \union {i + 1}) = Cardinality(Places(i)) + 1
  BY <1>3, FS_AddElement
<1>7. t[i + 1] \notin C => Places(i + 1) = Places(i)  BY <1>2
<1>8. Cardinality({}) = 0  BY FS_EmptySet
<1>9. Count(t, i, C) = Cardinality(Places(i)) /\ Count(t, 0, C) = Cardinality(Places(0))
      /\ Count(t, i + 1, C) = Cardinality(Places(i + 1))
  BY DEF Places, Count
<1>10. Count(t, i + 1, C) = Count(t, i, C) + (IF t[i + 1] \in C THEN 1 ELSE 0)
  <2>1. CASE t[i + 1] \in C  BY <2>1, <1>2, <1>6, <1>9
  <2>2. CASE t[i + 1] \notin C  BY <2>2, <1>5, <1>7, <1>9
  <2> QED  BY <2>1, <2>2
<1> QED  BY <1>1, <1>4, <1>5, <1>8, <1>9, <1>10

Openers == {"{", "["}
Closers == {"}", "]"}

LEMMA QuotesFacts ==
  ASSUME NEW t, NEW i \in Nat
  PROVE  /\ Quotes(t, i) \in Nat /\ Quotes(t, 0) = 0
         /\ Quotes(t, i + 1) = Quotes(t, i) + (IF t[i + 1] = "quote" THEN 1 ELSE 0)
         /\ Quotes(t, i) # 0 => \E j \in 1..i : t[j] = "quote"
<1>1. \A k : Quotes(t, k) = Count(t, k, {"quote"})  BY DEF Quotes, Count
<1>2. \A j : t[j] \in {"quote"} <=> t[j] = "quote"  OBVIOUS
<1> QED  BY <1>1, <1>2, CountFacts

LEMMA LevelFacts ==
  ASSUME NEW t, NEW i \in Nat
  PROVE  /\ Level(t, i) \in Int /\ Level(t, 0) = 0
         /\ t[i + 1] \in Openers => Level(t, i + 1) = Level(t, i) + 1
         /\ t[i + 1] \in Closers => Level(t, i + 1) = Level(t, i) - 1
         /\ t[i + 1] \notin Openers \union Closers => Level(t, i + 1) = Level(t, i)
<1>1. \A k : Level(t, k) = Count(t, k, Openers) - Count(t, k, Closers)
  BY DEF Level, Count, Openers, Closers
<1>2. /\ Count(t, i, Openers) \in Nat /\ Count(t, 0, Openers) = 0
      /\ Count(t, i + 1, Openers) = Count(t, i, Openers) + (IF t[i + 1] \in Openers THEN 1 ELSE 0)
  BY CountFacts
<1>3. /\ Count(t, i, Closers) \in Nat /\ Count(t, 0, Closers) = 0
      /\ Count(t, i + 1, Closers) = Count(t, i, Closers) + (IF t[i + 1] \in Closers THEN 1 ELSE 0)
  BY CountFacts
<1>4. t[i + 1] \in Openers => t[i + 1] \notin Closers  BY DEF Openers, Closers
<1> QED  BY <1>1, <1>2, <1>3, <1>4

LEMMA LatestFacts ==
  ASSUME NEW i \in Nat, NEW S \in SUBSET (1..i), S # {}
  PROVE  Latest(S) \in S /\ \A k \in S : k <= Latest(S)
<1>1. Max(S) \in S /\ \A k \in S : Max(S) >= k  BY MaxIsGreatest
<1>2. \A k \in S : k \in Int  OBVIOUS
<1>3. \E j \in S : \A k \in S : k <= j
  <2> DEFINE m == Max(S)
  <2>1. m \in S /\ m \in Int /\ \A k \in S : m >= k  BY <1>1, <1>2
  <2> HIDE DEF m
  <2>2. \A k \in S : k <= m  BY <1>2, <2>1
  <2> QED  BY <2>1, <2>2
<1> QED  BY <1>3 DEF Latest

------------------------------------------------------------------------------
(* The brackets of a text: where those of a level begin, that every level  *)
(* above the top has one, and that the kinds of the ones that are open are *)
(* the ones the writer remembers.                                          *)
OpenBrackets(t, i, d) == {j \in 1..i : t[j] \in {"{", "["} /\ Level(t, j) = d}

Anchored(t) ==
  \A i \in 0..Len(t) : Level(t, i) # 0 => OpenBrackets(t, i, Level(t, i)) # {}

Bracket(inside) == IF inside = "OBJECT" THEN "{" ELSE "["

Nested(t, n) ==
  /\ Level(t, Len(t)) = Len(n)
  /\ \A d \in 1..Len(n) :
       /\ OpenBrackets(t, Len(t), d) # {}
       /\ t[Latest(OpenBrackets(t, Len(t), d))] = Bracket(n[d])

Grown(t, n) ==
  /\ t \in Seq(Symbols) /\ n \in Seq({"OBJECT", "ARRAY"})
  /\ IsPrefixOfJson(t) /\ Anchored(t) /\ Nested(t, n)

(* What is said of the first symbols of a text is said of every text that  *)
(* begins with them.                                                       *)
Agree(t, u, i) == \A j \in 1..i : u[j] = t[j]

LEMMA SameCounts ==
  ASSUME NEW t, NEW u, NEW i \in Nat, Agree(t, u, i)
  PROVE  \A k \in 0..i : /\ Quotes(u, k) = Quotes(t, k)
                         /\ Level(u, k) = Level(t, k)
                         /\ \A d : OpenBrackets(u, k, d) = OpenBrackets(t, k, d)
<1>1. \A k \in 0..i : Quotes(u, k) = Quotes(t, k)
  <2> TAKE k \in 0..i
  <2>1. {j \in 1..k : u[j] = "quote"} = {j \in 1..k : t[j] = "quote"}  BY DEF Agree
  <2> QED  BY <2>1, Zenon DEF Quotes
<1>2. \A k \in 0..i : Level(u, k) = Level(t, k)
  <2> TAKE k \in 0..i
  <2>1. \A j \in 1..k : u[j] = t[j]  BY DEF Agree
  <2>2. {j \in 1..k : u[j] \in Openers} = {j \in 1..k : t[j] \in Openers}  BY <2>1
  <2>3. {j \in 1..k : u[j] \in Closers} = {j \in 1..k : t[j] \in Closers}  BY <2>1
  <2> QED  BY <2>2, <2>3, Zenon DEF Level, Openers, Closers
<1>3. ASSUME NEW k \in 0..i, NEW d
      PROVE  OpenBrackets(u, k, d) = OpenBrackets(t, k, d)
  <2>1. \A j \in 1..k : u[j] = t[j] /\ Level(u, j) = Level(t, j)  BY <1>2 DEF Agree
  <2> QED  BY <2>1 DEF OpenBrackets
<1> QED  BY <1>1, <1>2, <1>3

LEMMA SameGrammar ==
  ASSUME NEW t, NEW u, NEW i \in Nat, Agree(t, u, i),
         \A k \in 0..i : Level(t, k) # 0 => OpenBrackets(t, k, Level(t, k)) # {}
  PROVE  /\ \A k \in 0..i : /\ InString(u, k) = InString(t, k)
                            /\ Around(u, k) = Around(t, k)
                            /\ KeyNext(u, k) = KeyNext(t, k)
                            /\ ValueNext(u, k) = ValueNext(t, k)
                            /\ IsKey(u, k) = IsKey(t, k)
                            /\ ValueDone(u, k) = ValueDone(t, k)
         /\ \A k \in 0..(i - 1) : MayFollow(u, k) = MayFollow(t, k)
<1>1. \A k \in 0..i : /\ Quotes(u, k) = Quotes(t, k)
                      /\ Level(u, k) = Level(t, k)
                      /\ \A d : OpenBrackets(u, k, d) = OpenBrackets(t, k, d)
  BY SameCounts
<1>2. \A k \in 0..i : k > 0 => u[k] = t[k]  BY DEF Agree
<1>3. \A k \in 0..i : InString(u, k) = InString(t, k)  BY <1>1, Zenon DEF InString
<1>4. ASSUME NEW k \in 0..i PROVE Around(u, k) = Around(t, k)
  <2>1. CASE Level(t, k) = 0  BY <1>1, <2>1 DEF Around
  <2>2. CASE Level(t, k) # 0
    <3> DEFINE S == OpenBrackets(t, k, Level(t, k))
    <3>1. S # {} /\ S \subseteq 1..k  BY <2>2 DEF OpenBrackets
    <3>2. S = OpenBrackets(u, k, Level(u, k))  BY <1>1
    <3>3. Around(t, k) = t[Latest(S)]  BY <2>2, Zenon DEF Around, OpenBrackets
    <3>4. Around(u, k) = u[Latest(S)]  BY <1>1, <2>2, <3>2, Zenon DEF Around, OpenBrackets
    <3> HIDE DEF S
    <3>5. Latest(S) \in 1..k
      <4>1. k \in Nat /\ S \in SUBSET (1..k)  BY <3>1
      <4> QED  BY <3>1, <4>1, LatestFacts
    <3> QED  BY <3>3, <3>4, <3>5 DEF Agree
  <2> QED  BY <2>1, <2>2
<1>5. \A k \in 0..i : KeyNext(u, k) = KeyNext(t, k)  BY <1>2, <1>4 DEF KeyNext
<1>6. ASSUME NEW k \in 0..i PROVE ValueNext(u, k) = ValueNext(t, k)
  <2>1. CASE k = 0  BY <2>1 DEF ValueNext
  <2>2. CASE k # 0
    <3>1. u[k] = t[k] /\ Around(u, k) = Around(t, k)  BY <1>2, <1>4, <2>2
    <3> QED  BY <3>1, <2>2 DEF ValueNext
  <2> QED  BY <2>1, <2>2
<1>7. ASSUME NEW k \in 0..i PROVE IsKey(u, k) = IsKey(t, k)
  <2>1. CASE k > 0 /\ t[k] = "quote" /\ ~InString(t, k)
    <3> DEFINE S == {j \in 1..(k - 1) : t[j] = "quote"}
    <3>1. S = {j \in 1..(k - 1) : u[j] = "quote"}  BY DEF Agree
    <3>2. Quotes(t, k - 1) # 0 /\ k - 1 \in Nat
      <4>1. k - 1 \in Nat /\ (k - 1) + 1 = k  BY <2>1
      <4>2. Quotes(t, k) = Quotes(t, k - 1) + 1  BY <2>1, <4>1, QuotesFacts
      <4>3. Quotes(t, k) # 1  BY <2>1 DEF InString
      <4> QED  BY <4>1, <4>2, <4>3
    <3>3. S # {} /\ S \subseteq 1..(k - 1)
      <4>1. \E j \in 1..(k - 1) : t[j] = "quote"  BY <3>2, QuotesFacts
      <4> QED  BY <4>1
    <3>4. u[k] = t[k] /\ InString(u, k) = InString(t, k)  BY <1>2, <1>3, <2>1
    <3>5. IsKey(t, k) <=> KeyNext(t, Latest(S) - 1)  BY <2>1, Zenon DEF IsKey
    <3>6. IsKey(u, k) <=> KeyNext(u, Latest(S) - 1)  BY <2>1, <3>1, <3>4, Zenon DEF IsKey
    <3>10. IsKey(u, k) \in BOOLEAN /\ IsKey(t, k) \in BOOLEAN  BY DEF IsKey
    <3> HIDE DEF S
    <3>7. Latest(S) \in 1..(k - 1)
      <4>1. S \in SUBSET (1..(k - 1))  BY <3>3
      <4> QED  BY <3>2, <3>3, <4>1, LatestFacts
    <3>8. Latest(S) - 1 \in 0..i  BY <3>7
    <3> QED  BY <1>5, <3>5, <3>6, <3>8, <3>10
  <2>2. CASE ~(k > 0 /\ t[k] = "quote" /\ ~InString(t, k))
    BY <1>2, <1>3, <2>2 DEF IsKey
  <2> QED  BY <2>1, <2>2
<1>8. \A k \in 0..i : ValueDone(u, k) = ValueDone(t, k)  BY <1>2, <1>3, <1>7 DEF ValueDone
<1>9. ASSUME NEW k \in 0..(i - 1) PROVE MayFollow(u, k) = MayFollow(t, k)
  <2>1. k \in 0..i /\ k + 1 \in 0..i /\ k + 1 > 0  OBVIOUS
  <2>2. u[k + 1] = t[k + 1] /\ (k > 0 => u[k] = t[k])  BY <1>2, <2>1
  <2>3. k = 0 => ValueNext(t, k) /\ ~KeyNext(t, k) /\ ~IsKey(t, k) /\ ~ValueDone(t, k)
                 /\ Around(t, k) = "top"
    BY LevelFacts DEF ValueNext, KeyNext, IsKey, ValueDone, Around
  <2>4. CASE k > 0  BY <1>3, <1>4, <1>5, <1>6, <1>7, <1>8, <2>1, <2>2, <2>4 DEF MayFollow
  <2>5. CASE k = 0  BY <1>3, <1>4, <1>5, <1>6, <1>7, <1>8, <2>1, <2>2, <2>3, <2>5 DEF MayFollow
  <2> QED  BY <2>4, <2>5
<1> QED  BY <1>3, <1>4, <1>5, <1>6, <1>7, <1>8, <1>9

------------------------------------------------------------------------------
(* A text that grows by one symbol.                                        *)
Follows(t, c) ==
  LET i == Len(t)
  IN  IF InString(t, i) THEN c \in {"c", "quote"}
      ELSE \/ c \in {"{", "[", "w"} /\ ValueNext(t, i)
           \/ c = "d" /\ (ValueNext(t, i) \/ t[i] = "d")
           \/ c = "quote" /\ (ValueNext(t, i) \/ KeyNext(t, i))
           \/ c = ":" /\ IsKey(t, i)
           \/ c = "," /\ Around(t, i) # "top" /\ ValueDone(t, i)
           \/ c = "}" /\ Around(t, i) = "{" /\ (t[i] = "{" \/ ValueDone(t, i))
           \/ c = "]" /\ Around(t, i) = "[" /\ (t[i] = "[" \/ ValueDone(t, i))

LEMMA LongerText ==
  ASSUME NEW t \in Seq(Symbols), NEW c \in Symbols
  PROVE  /\ Len(t) \in Nat /\ Append(t, c) \in Seq(Symbols)
         /\ Len(Append(t, c)) = Len(t) + 1
         /\ Agree(t, Append(t, c), Len(t))
         /\ Append(t, c)[Len(t) + 1] = c
         /\ Len(Append(t, c)) > 0 /\ Append(t, c)[Len(Append(t, c))] = c
<1> DEFINE u == Append(t, c)
<1>1. /\ Len(t) \in Nat /\ u \in Seq(Symbols) /\ Len(u) = Len(t) + 1
      /\ Agree(t, u, Len(t)) /\ u[Len(t) + 1] = c
  BY AppendProperties, LenProperties DEF Agree
<1> HIDE DEF u
<1>2. Len(u) > 0 /\ u[Len(u)] = c  BY <1>1
<1> QED  BY <1>1, <1>2 DEF u

LEMMA SamePrefix ==
  ASSUME NEW t \in Seq(Symbols), NEW c \in Symbols, Anchored(t)
  PROVE  LET u == Append(t, c)
         IN  /\ \A k \in 0..Len(t) :
                  /\ Quotes(u, k) = Quotes(t, k) /\ Level(u, k) = Level(t, k)
                  /\ \A d : OpenBrackets(u, k, d) = OpenBrackets(t, k, d)
                  /\ InString(u, k) = InString(t, k) /\ Around(u, k) = Around(t, k)
                  /\ KeyNext(u, k) = KeyNext(t, k) /\ ValueNext(u, k) = ValueNext(t, k)
                  /\ IsKey(u, k) = IsKey(t, k) /\ ValueDone(u, k) = ValueDone(t, k)
             /\ \A k \in 0..(Len(t) - 1) : MayFollow(u, k) = MayFollow(t, k)
<1> DEFINE u == Append(t, c)
<1>1. Len(t) \in Nat /\ Agree(t, u, Len(t))  BY LongerText
<1>2. \A k \in 0..Len(t) : Level(t, k) # 0 => OpenBrackets(t, k, Level(t, k)) # {}
  BY DEF Anchored
<1> HIDE DEF u
<1>3. \A k \in 0..Len(t) : /\ Quotes(u, k) = Quotes(t, k) /\ Level(u, k) = Level(t, k)
                           /\ \A d : OpenBrackets(u, k, d) = OpenBrackets(t, k, d)
  BY <1>1, SameCounts
<1>4. /\ \A k \in 0..Len(t) : /\ InString(u, k) = InString(t, k)
                              /\ Around(u, k) = Around(t, k)
                              /\ KeyNext(u, k) = KeyNext(t, k)
                              /\ ValueNext(u, k) = ValueNext(t, k)
                              /\ IsKey(u, k) = IsKey(t, k)
                              /\ ValueDone(u, k) = ValueDone(t, k)
      /\ \A k \in 0..(Len(t) - 1) : MayFollow(u, k) = MayFollow(t, k)
  BY <1>1, <1>2, SameGrammar
<1> QED  BY <1>3, <1>4 DEF u

LEMMA PrefixGrows ==
  ASSUME NEW t \in Seq(Symbols), NEW c \in Symbols, Anchored(t), IsPrefixOfJson(t),
         Follows(t, c)
  PROVE  IsPrefixOfJson(Append(t, c))
<1> DEFINE u == Append(t, c)
           i == Len(t)
<1>1. i \in Nat /\ Len(u) = i + 1 /\ u[i + 1] = c /\ Agree(t, u, i)  BY LongerText
<1>2. \A k \in 0..(i - 1) : MayFollow(u, k)
  <2>1. \A k \in 0..(i - 1) : MayFollow(u, k) = MayFollow(t, k)  BY SamePrefix
  <2>2. \A k \in 0..(i - 1) : MayFollow(t, k)  BY DEF IsPrefixOfJson
  <2> QED  BY <2>1, <2>2
<1>3. /\ InString(u, i) = InString(t, i) /\ Around(u, i) = Around(t, i)
      /\ KeyNext(u, i) = KeyNext(t, i) /\ ValueNext(u, i) = ValueNext(t, i)
      /\ IsKey(u, i) = IsKey(t, i) /\ ValueDone(u, i) = ValueDone(t, i)
  BY <1>1, SamePrefix
<1>4. i > 0 => u[i] = t[i]  BY <1>1 DEF Agree
<1>5. i = 0 => ValueNext(t, i) /\ ~ValueDone(t, i)  BY DEF ValueNext, ValueDone
<1>6. MayFollow(u, i)
  <2>1. Follows(t, c) <=>
          IF InString(t, i) THEN c \in {"c", "quote"}
          ELSE \/ c \in {"{", "[", "w"} /\ ValueNext(t, i)
               \/ c = "d" /\ (ValueNext(t, i) \/ t[i] = "d")
               \/ c = "quote" /\ (ValueNext(t, i) \/ KeyNext(t, i))
               \/ c = ":" /\ IsKey(t, i)
               \/ c = "," /\ Around(t, i) # "top" /\ ValueDone(t, i)
               \/ c = "}" /\ Around(t, i) = "{" /\ (t[i] = "{" \/ ValueDone(t, i))
               \/ c = "]" /\ Around(t, i) = "[" /\ (t[i] = "[" \/ ValueDone(t, i))
    BY DEF Follows
  <2>2. i = 0 => Around(t, i) = "top"  BY LevelFacts DEF Around
  <2> HIDE DEF u, i
  <2>3. CASE i > 0  BY <1>1, <1>3, <1>4, <2>1, <2>3 DEF MayFollow
  <2>4. CASE i = 0  BY <1>1, <1>3, <1>5, <2>1, <2>2, <2>4 DEF MayFollow
  <2> QED  BY <1>1, <2>3, <2>4
<1> HIDE DEF u, i
<1>7. \A k \in 0..(Len(u) - 1) : MayFollow(u, k)
  <2> TAKE k \in 0..(Len(u) - 1)
  <2>1. k = i \/ k \in 0..(i - 1)  BY <1>1
  <2> QED  BY <1>2, <1>6, <2>1
<1> QED  BY <1>7 DEF IsPrefixOfJson, u

(* What an appended symbol does to the open brackets.                      *)
LEMMA BracketsGrow ==
  ASSUME NEW t \in Seq(Symbols), NEW c \in Symbols, Anchored(t)
  PROVE  LET u == Append(t, c)
             i == Len(t)
         IN  /\ c \in Openers => Level(u, i + 1) = Level(t, i) + 1
             /\ c \in Closers => Level(u, i + 1) = Level(t, i) - 1
             /\ c \notin Openers \union Closers => Level(u, i + 1) = Level(t, i)
             /\ \A d : OpenBrackets(u, i + 1, d) =
                         OpenBrackets(t, i, d)
                         \union {j \in {i + 1} : c \in Openers /\ Level(u, i + 1) = d}
<1> DEFINE u == Append(t, c)
           i == Len(t)
<1>1. i \in Nat /\ u[i + 1] = c /\ Agree(t, u, i)  BY LongerText
<1>2. \A k \in 0..i : Level(u, k) = Level(t, k)  BY SamePrefix
<1> HIDE DEF u, i
<1>3. /\ c \in Openers => Level(u, i + 1) = Level(t, i) + 1
      /\ c \in Closers => Level(u, i + 1) = Level(t, i) - 1
      /\ c \notin Openers \union Closers => Level(u, i + 1) = Level(t, i)
  BY <1>1, <1>2, LevelFacts
<1>4. ASSUME NEW d
      PROVE  OpenBrackets(u, i + 1, d) =
               OpenBrackets(t, i, d)
               \union {j \in {i + 1} : c \in Openers /\ Level(u, i + 1) = d}
  <2>1. 1..(i + 1) = (1..i) \union {i + 1}  BY <1>1
  <2>2. \A j \in 1..i : u[j] = t[j] /\ Level(u, j) = Level(t, j)  BY <1>1, <1>2 DEF Agree
  <2>3. OpenBrackets(u, i + 1, d) = {j \in (1..i) \union {i + 1} : u[j] \in Openers /\ Level(u, j) = d}
    BY <2>1, Zenon DEF OpenBrackets, Openers
  <2>4. OpenBrackets(t, i, d) = {j \in 1..i : t[j] \in Openers /\ Level(t, j) = d}
    BY Zenon DEF OpenBrackets, Openers
  <2> QED  BY <1>1, <2>2, <2>3, <2>4
<1> QED  BY <1>3, <1>4 DEF u, i

LEMMA AnchoredGrows ==
  ASSUME NEW t \in Seq(Symbols), NEW c \in Symbols, Anchored(t),
         LET d == Level(Append(t, c), Len(t) + 1)
         IN  d # 0 => OpenBrackets(Append(t, c), Len(t) + 1, d) # {}
  PROVE  Anchored(Append(t, c))
<1> DEFINE u == Append(t, c)
           i == Len(t)
<1>1. i \in Nat /\ Len(u) = i + 1  BY LongerText
<1>2. \A k \in 0..i : /\ Level(u, k) = Level(t, k)
                      /\ \A d : OpenBrackets(u, k, d) = OpenBrackets(t, k, d)
  BY SamePrefix
<1>3. Level(u, i + 1) # 0 => OpenBrackets(u, i + 1, Level(u, i + 1)) # {}  OBVIOUS
<1>4. \A k \in 0..i : Level(t, k) # 0 => OpenBrackets(t, k, Level(t, k)) # {}
  BY DEF Anchored
<1> HIDE DEF u, i
<1>5. \A k \in 0..Len(u) : Level(u, k) # 0 => OpenBrackets(u, k, Level(u, k)) # {}
  <2> TAKE k \in 0..Len(u)
  <2>1. k = i + 1 \/ k \in 0..i  BY <1>1
  <2> QED  BY <1>2, <1>3, <1>4, <2>1
<1> QED  BY <1>5 DEF Anchored, u

LEMMA LatestStays ==
  ASSUME NEW t, NEW u, NEW i \in Nat, NEW d, Agree(t, u, i), OpenBrackets(t, i, d) # {}
  PROVE  u[Latest(OpenBrackets(t, i, d))] = t[Latest(OpenBrackets(t, i, d))]
<1> DEFINE S == OpenBrackets(t, i, d)
<1>1. S \in SUBSET (1..i)  BY DEF OpenBrackets
<1>2. S # {}  OBVIOUS
<1> HIDE DEF S
<1>3. Latest(S) \in 1..i  BY <1>1, <1>2, LatestFacts
<1> QED  BY <1>3 DEF Agree, S

LEMMA LastPosition ==
  ASSUME NEW S, NEW l \in Seq(S), l # <<>>
  PROVE  Len(l) \in 1..Len(l) /\ Last(l) = l[Len(l)] /\ l[Len(l)] \in S
<1>1. Len(l) \in Nat  BY LenProperties
<1>2. Len(l) # 0  BY EmptySeq
<1>3. Len(l) \in 1..Len(l)  BY <1>1, <1>2
<1> QED  BY <1>3, ElementOfSeq DEF Last

LEMMA GrownParts ==
  ASSUME NEW t, NEW n, Grown(t, n)
  PROVE  /\ t \in Seq(Symbols) /\ n \in Seq({"OBJECT", "ARRAY"})
         /\ IsPrefixOfJson(t) /\ Anchored(t)
         /\ Len(t) \in Nat /\ Len(n) \in Nat /\ Level(t, Len(t)) = Len(n)
         /\ \A d \in 1..Len(n) : /\ OpenBrackets(t, Len(t), d) # {}
                                 /\ t[Latest(OpenBrackets(t, Len(t), d))] = Bracket(n[d])
         /\ \A d \in 1..Len(n) : n[d] \in {"OBJECT", "ARRAY"}
BY LenProperties DEF Grown, Nested

LEMMA GrowsByPlain ==
  ASSUME NEW t, NEW n, Grown(t, n), NEW c \in Symbols \ (Openers \union Closers), Follows(t, c)
  PROVE  Grown(Append(t, c), n)
<1> DEFINE u == Append(t, c)
           i == Len(t)
<1>1. /\ t \in Seq(Symbols) /\ n \in Seq({"OBJECT", "ARRAY"})
      /\ IsPrefixOfJson(t) /\ Anchored(t)
      /\ i \in Nat /\ Len(n) \in Nat /\ Level(t, i) = Len(n)
      /\ \A d \in 1..Len(n) : /\ OpenBrackets(t, i, d) # {}
                              /\ t[Latest(OpenBrackets(t, i, d))] = Bracket(n[d])
  BY GrownParts
<1>2. u \in Seq(Symbols) /\ Len(u) = i + 1 /\ Agree(t, u, i)  BY <1>1, LongerText
<1>3. /\ Level(u, i + 1) = Level(t, i)
      /\ \A d : OpenBrackets(u, i + 1, d) = OpenBrackets(t, i, d)
  <2>1. /\ Level(u, i + 1) = Level(t, i)
        /\ \A d : OpenBrackets(u, i + 1, d) =
                    OpenBrackets(t, i, d)
                    \union {j \in {i + 1} : c \in Openers /\ Level(u, i + 1) = d}
    BY <1>1, BracketsGrow
  <2>2. c \notin Openers  OBVIOUS
  <2> HIDE DEF u, i
  <2> QED  BY <2>1, <2>2
<1>4. IsPrefixOfJson(u)  BY <1>1, PrefixGrows
<1>5. Anchored(u)
  <2>1. Level(u, i + 1) # 0 => OpenBrackets(u, i + 1, Level(u, i + 1)) # {}
    <3>1. Len(n) # 0 => OpenBrackets(t, i, Len(n)) # {}  BY <1>1
    <3> HIDE DEF u, i
    <3> QED  BY <1>1, <1>3, <3>1
  <2> QED  BY <1>1, <2>1, AnchoredGrows
<1> HIDE DEF u, i
<1>6. Nested(u, n)
  <2>1. \A d \in 1..Len(n) : u[Latest(OpenBrackets(t, i, d))] = t[Latest(OpenBrackets(t, i, d))]
    BY <1>1, <1>2, LatestStays
  <2> QED  BY <1>1, <1>2, <1>3, <2>1 DEF Nested
<1> QED  BY <1>1, <1>2, <1>4, <1>5, <1>6 DEF Grown, u

LEMMA GrowsByOpener ==
  ASSUME NEW t, NEW n, Grown(t, n), NEW inside \in {"OBJECT", "ARRAY"},
         Follows(t, Bracket(inside))
  PROVE  Grown(Append(t, Bracket(inside)), Append(n, inside))
<1> DEFINE c == Bracket(inside)
           u == Append(t, c)
           m == Append(n, inside)
           i == Len(t)
<1>1. /\ t \in Seq(Symbols) /\ n \in Seq({"OBJECT", "ARRAY"})
      /\ IsPrefixOfJson(t) /\ Anchored(t)
      /\ i \in Nat /\ Len(n) \in Nat /\ Level(t, i) = Len(n)
      /\ \A d \in 1..Len(n) : /\ OpenBrackets(t, i, d) # {}
                              /\ t[Latest(OpenBrackets(t, i, d))] = Bracket(n[d])
  BY GrownParts
<1>0. c \in Symbols /\ c \in Openers  BY DEF Bracket, Openers, Symbols
<1>2. u \in Seq(Symbols) /\ Len(u) = i + 1 /\ Agree(t, u, i) /\ u[i + 1] = c
  BY <1>0, <1>1, LongerText
<1>3. /\ Level(u, i + 1) = Level(t, i) + 1
      /\ \A d : OpenBrackets(u, i + 1, d) =
                  OpenBrackets(t, i, d)
                  \union {j \in {i + 1} : c \in Openers /\ Level(u, i + 1) = d}
  BY <1>0, <1>1, BracketsGrow
<1>4. IsPrefixOfJson(u)  BY <1>0, <1>1, PrefixGrows
<1>5. Anchored(u)
  <2>1. OpenBrackets(u, i + 1, Level(u, i + 1)) # {}
    <3> HIDE DEF u, i, c
    <3> QED  BY <1>0, <1>3
  <2> QED  BY <1>0, <1>1, <2>1, AnchoredGrows
<1>6. /\ m \in Seq({"OBJECT", "ARRAY"}) /\ Len(m) = Len(n) + 1
      /\ m[Len(n) + 1] = inside /\ \A d \in 1..Len(n) : m[d] = n[d]
  BY <1>1, AppendProperties
<1>7. Bracket(inside) = c  OBVIOUS
<1> HIDE DEF u, i, m, c
<1>8. Nested(u, m)
  <2>1. Level(u, Len(u)) = Len(m)  BY <1>1, <1>2, <1>3, <1>6
  <2>2. ASSUME NEW d \in 1..Len(m)
        PROVE  /\ OpenBrackets(u, i + 1, d) # {}
               /\ u[Latest(OpenBrackets(u, i + 1, d))] = Bracket(m[d])
    <3>1. CASE d \in 1..Len(n)
      <4>1. Level(u, i + 1) # d  BY <1>1, <1>3, <3>1
      <4>2. OpenBrackets(u, i + 1, d) = OpenBrackets(t, i, d)  BY <1>3, <4>1
      <4>3. u[Latest(OpenBrackets(t, i, d))] = t[Latest(OpenBrackets(t, i, d))]
        BY <1>1, <1>2, <3>1, LatestStays
      <4> QED  BY <1>1, <1>6, <3>1, <4>2, <4>3
    <3>2. CASE d = Len(n) + 1
      <4> DEFINE S == OpenBrackets(u, i + 1, d)
      <4>1. i + 1 \in S  BY <1>0, <1>1, <1>3, <3>2
      <4>2. S \subseteq 1..(i + 1)  BY Zenon DEF OpenBrackets
      <4>5. i + 1 \in Nat  BY <1>1
      <4> HIDE DEF S
      <4>3. Latest(S) \in S /\ i + 1 <= Latest(S)
        <5>1. S \in SUBSET (1..(i + 1)) /\ S # {}  BY <4>1, <4>2
        <5> QED  BY <4>1, <4>5, <5>1, LatestFacts
      <4>4. Latest(S) = i + 1
        <5>1. Latest(S) \in 1..(i + 1)  BY <4>2, <4>3
        <5> QED  BY <4>3, <4>5, <5>1
      <4> QED  BY <1>2, <1>6, <1>7, <3>2, <4>1, <4>4 DEF S
    <3> QED  BY <1>1, <1>6, <3>1, <3>2
  <2> QED  BY <1>2, <2>1, <2>2 DEF Nested
<1> QED  BY <1>2, <1>4, <1>5, <1>6, <1>8 DEF Grown, u, m, c

LEMMA GrowsByCloser ==
  ASSUME NEW t, NEW n, Grown(t, n), n # <<>>, NEW c \in Closers, Follows(t, c)
  PROVE  Grown(Append(t, c), Front(n))
<1> DEFINE u == Append(t, c)
           m == Front(n)
           i == Len(t)
<1>1. /\ t \in Seq(Symbols) /\ n \in Seq({"OBJECT", "ARRAY"})
      /\ IsPrefixOfJson(t) /\ Anchored(t)
      /\ i \in Nat /\ Len(n) \in Nat /\ Level(t, i) = Len(n)
      /\ \A d \in 1..Len(n) : /\ OpenBrackets(t, i, d) # {}
                              /\ t[Latest(OpenBrackets(t, i, d))] = Bracket(n[d])
  BY GrownParts
<1>0. c \in Symbols /\ c \notin Openers  BY DEF Closers, Openers, Symbols
<1>2. u \in Seq(Symbols) /\ Len(u) = i + 1 /\ Agree(t, u, i)  BY <1>0, <1>1, LongerText
<1>3. /\ Level(u, i + 1) = Level(t, i) - 1
      /\ \A d : OpenBrackets(u, i + 1, d) =
                  OpenBrackets(t, i, d)
                  \union {j \in {i + 1} : c \in Openers /\ Level(u, i + 1) = d}
  BY <1>0, <1>1, BracketsGrow
<1>4. IsPrefixOfJson(u)  BY <1>0, <1>1, PrefixGrows
<1>6. /\ m \in Seq({"OBJECT", "ARRAY"}) /\ Len(m) = Len(n) - 1 /\ Len(n) > 0
      /\ \A d \in 1..Len(m) : m[d] = n[d]
  BY <1>1 DEF Front
<1>7. \A d : OpenBrackets(u, i + 1, d) = OpenBrackets(t, i, d)
  <2> HIDE DEF u, i
  <2> QED  BY <1>0, <1>3
<1>5. Anchored(u)
  <2>1. Level(u, i + 1) # 0 => OpenBrackets(u, i + 1, Level(u, i + 1)) # {}
    <3>1. Level(u, i + 1) # 0 => Level(u, i + 1) \in 1..Len(n)
      <4> HIDE DEF u, i, m
      <4> QED  BY <1>1, <1>3, <1>6
    <3> HIDE DEF u, i
    <3> QED  BY <1>1, <1>7, <3>1
  <2> QED  BY <1>0, <1>1, <2>1, AnchoredGrows
<1> HIDE DEF u, i, m
<1>8. Nested(u, m)
  <2>1. Level(u, Len(u)) = Len(m)  BY <1>1, <1>2, <1>3, <1>6
  <2>2. \A d \in 1..Len(m) : d \in 1..Len(n)  BY <1>1, <1>6
  <2>3. \A d \in 1..Len(n) : u[Latest(OpenBrackets(t, i, d))] = t[Latest(OpenBrackets(t, i, d))]
    BY <1>1, <1>2, LatestStays
  <2> QED  BY <1>1, <1>2, <1>6, <1>7, <2>1, <2>2, <2>3 DEF Nested
<1> QED  BY <1>2, <1>4, <1>5, <1>6, <1>8 DEF Grown, u, m

(* What surrounds the end of a text is the last bracket the writer         *)
(* remembers.                                                              *)
LEMMA AroundEnd ==
  ASSUME NEW t, NEW n, Grown(t, n)
  PROVE  Around(t, Len(t)) = IF n = <<>> THEN "top" ELSE Bracket(n[Len(n)])
<1>1. /\ n \in Seq({"OBJECT", "ARRAY"}) /\ Len(n) \in Nat /\ Level(t, Len(t)) = Len(n)
      /\ \A d \in 1..Len(n) : t[Latest(OpenBrackets(t, Len(t), d))] = Bracket(n[d])
  BY GrownParts
<1>2. n = <<>> <=> Len(n) = 0  BY <1>1, EmptySeq
<1>3. CASE Len(n) = 0  BY <1>1, <1>2, <1>3 DEF Around
<1>4. CASE Len(n) # 0
  <2>1. Len(n) \in 1..Len(n)  BY <1>1, <1>4
  <2>2. Around(t, Len(t)) = t[Latest(OpenBrackets(t, Len(t), Len(n)))]
    BY <1>1, <1>4, Zenon DEF Around, OpenBrackets
  <2> QED  BY <1>1, <1>2, <1>4, <2>1, <2>2
<1> QED  BY <1>3, <1>4

(* Quotes open and close strings, other symbols do not.                    *)
LEMMA StringsGrow ==
  ASSUME NEW t \in Seq(Symbols), NEW c \in Symbols, Anchored(t)
  PROVE  IF c = "quote"
         THEN InString(Append(t, c), Len(t) + 1) = ~InString(t, Len(t))
         ELSE InString(Append(t, c), Len(t) + 1) = InString(t, Len(t))
<1> DEFINE u == Append(t, c)
           i == Len(t)
<1>1. i \in Nat /\ u[i + 1] = c  BY LongerText
<1>2. Quotes(u, i) = Quotes(t, i)  BY <1>1, SamePrefix
<1> HIDE DEF u, i
<1>3. Quotes(t, i) \in Nat /\ Quotes(u, i + 1) = Quotes(t, i) + (IF c = "quote" THEN 1 ELSE 0)
  <2>1. Quotes(t, i) \in Nat  BY ONLY <1>1, QuotesFacts
  <2>2. Quotes(u, i + 1) = Quotes(u, i) + (IF u[i + 1] = "quote" THEN 1 ELSE 0)
    BY ONLY <1>1, QuotesFacts
  <2> QED  BY <1>1, <1>2, <2>1, <2>2
<1>4. ASSUME NEW q \in Nat PROVE ((q + 1) % 2 = 1) = (q % 2 # 1)  OBVIOUS
<1>5. CASE c = "quote"
  <2>1. Quotes(u, i + 1) = Quotes(t, i) + 1  BY <1>3, <1>5
  <2>2. InString(u, i + 1) = ~InString(t, i)  BY <1>3, <1>4, <2>1 DEF InString
  <2> QED  BY <1>5, <2>2 DEF u, i
<1>6. CASE c # "quote"
  <2>1. Quotes(u, i + 1) = Quotes(t, i)  BY <1>3, <1>6
  <2>2. InString(u, i + 1) = InString(t, i)  BY <2>1, Zenon DEF InString
  <2> QED  BY <1>6, <2>2 DEF u, i
<1> QED  BY <1>5, <1>6

(* A text and a number of equal symbols.                                   *)
Run(t, c, k) == t \o [j \in 1..k |-> c]

LEMMA RunFacts ==
  ASSUME NEW t \in Seq(Symbols), NEW c \in Symbols, NEW k \in Nat
  PROVE  /\ Run(t, c, k) \in Seq(Symbols) /\ Len(Run(t, c, k)) = Len(t) + k
         /\ Run(t, c, 0) = t /\ Run(t, c, k + 1) = Append(Run(t, c, k), c)
         /\ Agree(t, Run(t, c, k), Len(t))
         /\ \A j \in (Len(t) + 1)..(Len(t) + k) : Run(t, c, k)[j] = c
<1> DEFINE r(m) == [j \in 1..m |-> c]
<1>0. Len(t) \in Nat  OBVIOUS
<1>1. \A m \in Nat : r(m) \in Seq(Symbols) /\ Len(r(m)) = m /\ \A j \in 1..m : r(m)[j] = c
  OBVIOUS
<1> HIDE DEF r
<1>2. \A m \in Nat : /\ Run(t, c, m) = t \o r(m) /\ Run(t, c, m) \in Seq(Symbols)
                     /\ Len(Run(t, c, m)) = Len(t) + m
                     /\ \A j \in 1..(Len(t) + m) : Run(t, c, m)[j] = IF j <= Len(t) THEN t[j] ELSE c
  <2> TAKE m \in Nat
  <2>1. Run(t, c, m) = t \o r(m)  BY Zenon DEF Run, r
  <2>2. /\ t \o r(m) \in Seq(Symbols) /\ Len(t \o r(m)) = Len(t) + m
        /\ \A j \in 1..(Len(t) + m) :
             (t \o r(m))[j] = IF j <= Len(t) THEN t[j] ELSE r(m)[j - Len(t)]
    <3> DEFINE w == r(m)
    <3>1. w \in Seq(Symbols) /\ Len(w) = m  BY <1>1
    <3> HIDE DEF w
    <3>2. t \o w \in Seq(Symbols) /\ Len(t \o w) = Len(t) + m  BY <3>1, ConcatProperties
    <3>3. \A j \in 1..(Len(t) + m) : (t \o w)[j] = IF j <= Len(t) THEN t[j] ELSE w[j - Len(t)]
      BY <1>0, <3>1
    <3> QED  BY <3>2, <3>3 DEF w
  <2>3. \A j \in 1..(Len(t) + m) : ~(j <= Len(t)) => r(m)[j - Len(t)] = c
    <3> TAKE j \in 1..(Len(t) + m)
    <3> HAVE ~(j <= Len(t))
    <3>1. j - Len(t) \in 1..m  BY <1>0
    <3> QED  BY <1>1, <3>1
  <2> QED  BY <2>1, <2>2, <2>3
<1>3. Run(t, c, 0) = t
  <2>1. /\ Run(t, c, 0) \in Seq(Symbols) /\ Len(Run(t, c, 0)) = Len(t)
        /\ \A j \in 1..Len(t) : Run(t, c, 0)[j] = t[j]
    BY <1>0, <1>2
  <2> QED  BY <2>1, SeqEqual
<1>4. Run(t, c, k + 1) = Append(Run(t, c, k), c)
  <2>1. k + 1 \in Nat  OBVIOUS
  <2>2. /\ Run(t, c, k + 1) \in Seq(Symbols) /\ Len(Run(t, c, k + 1)) = Len(t) + k + 1
        /\ \A j \in 1..(Len(t) + k + 1) :
             Run(t, c, k + 1)[j] = IF j <= Len(t) THEN t[j] ELSE c
    <3>1. /\ Run(t, c, k + 1) \in Seq(Symbols) /\ Len(Run(t, c, k + 1)) = Len(t) + (k + 1)
          /\ \A j \in 1..(Len(t) + (k + 1)) :
               Run(t, c, k + 1)[j] = IF j <= Len(t) THEN t[j] ELSE c
      BY <1>2, <2>1
    <3>2. Len(t) + (k + 1) = Len(t) + k + 1  BY <1>0
    <3> QED  BY <3>1, <3>2
  <2>3. Run(t, c, k) \in Seq(Symbols) /\ Len(Run(t, c, k)) = Len(t) + k  BY <1>2
  <2>4. /\ Append(Run(t, c, k), c) \in Seq(Symbols)
        /\ Len(Append(Run(t, c, k), c)) = Len(t) + k + 1
        /\ \A j \in 1..(Len(t) + k) : Append(Run(t, c, k), c)[j] = Run(t, c, k)[j]
        /\ Append(Run(t, c, k), c)[Len(t) + k + 1] = c
    BY <1>0, <2>3, AppendProperties
  <2>5. \A j \in 1..(Len(t) + k + 1) : Append(Run(t, c, k), c)[j] = Run(t, c, k + 1)[j]
    <3> TAKE j \in 1..(Len(t) + k + 1)
    <3>1. CASE j \in 1..(Len(t) + k)  BY <1>2, <2>2, <2>4, <3>1
    <3>2. CASE j = Len(t) + k + 1  BY <1>0, <2>2, <2>4, <3>2
    <3>3. j \in 1..(Len(t) + k) \/ j = Len(t) + k + 1  BY <1>0
    <3> QED  BY <3>1, <3>2, <3>3
  <2> QED  BY <2>2, <2>4, <2>5, SeqEqual
<1>5. Agree(t, Run(t, c, k), Len(t))  BY <1>0, <1>2 DEF Agree
<1>6. \A j \in (Len(t) + 1)..(Len(t) + k) : Run(t, c, k)[j] = c
  <2> TAKE j \in (Len(t) + 1)..(Len(t) + k)
  <2>1. j \in 1..(Len(t) + k) /\ ~(j <= Len(t))  BY <1>0
  <2> QED  BY <1>2, <2>1
<1> QED  BY <1>2, <1>3, <1>4, <1>5, <1>6

LEMMA RunSteps ==
  \A t \in Seq(Symbols), c \in Symbols :
    Run(t, c, 0) = t /\ \A k \in Nat : Run(t, c, k + 1) = Append(Run(t, c, k), c)
BY RunFacts

LEMMA CharsGrow ==
  ASSUME NEW t, NEW n, Grown(t, n), InString(t, Len(t)), NEW m \in Nat
  PROVE  Grown(Run(t, "c", m), n) /\ InString(Run(t, "c", m), Len(Run(t, "c", m)))
<1> DEFINE P == {k \in 0..m : /\ Grown(Run(t, "c", k), n)
                              /\ InString(Run(t, "c", k), Len(Run(t, "c", k)))}
<1>1. t \in Seq(Symbols) /\ Len(t) \in Nat /\ "c" \in Symbols \ (Openers \union Closers)
  BY GrownParts DEF Symbols, Openers, Closers
<1>2. 0 \in P
  <2>1. Run(t, "c", 0) = t /\ 0 \in 0..m  BY <1>1, RunFacts
  <2> QED  BY <2>1
<1>3. ASSUME NEW k \in 0..m, k # m /\ k \in P PROVE k + 1 \in P
  <2> DEFINE r == Run(t, "c", k)
  <2>1. Grown(r, n) /\ InString(r, Len(r))  BY <1>3
  <2>2. k + 1 \in 0..m /\ k \in Nat  BY <1>3
  <2>3. Run(t, "c", k + 1) = Append(r, "c")  BY ONLY <1>1, <2>2, RunSteps
  <2> HIDE DEF r, P
  <2>4. r \in Seq(Symbols) /\ Anchored(r)  BY <2>1, GrownParts
  <2>5. Follows(r, "c")  BY <2>1 DEF Follows
  <2>6. Grown(Append(r, "c"), n)  BY <1>1, <2>1, <2>5, GrowsByPlain
  <2>7. InString(Append(r, "c"), Len(Append(r, "c")))
    <3>1. InString(Append(r, "c"), Len(r) + 1) = InString(r, Len(r))  BY <1>1, <2>4, StringsGrow
    <3>2. Len(Append(r, "c")) = Len(r) + 1  BY <1>1, <2>4, LongerText
    <3> QED  BY <2>1, <3>1, <3>2
  <2> QED  BY <2>2, <2>3, <2>6, <2>7 DEF P
<1> HIDE DEF P
<1>4. 0..m \subseteq P  BY <1>2, <1>3, SetInduction, Zenon
<1>5. m \in P  BY <1>4
<1> QED  BY <1>5 DEF P

LEMMA NumberGrows ==
  ASSUME NEW t, NEW n, Grown(t, n), ~InString(t, Len(t)), ValueNext(t, Len(t)),
         NEW m \in Nat \ {0}
  PROVE  LET u == Run(t, "d", m)
         IN  Grown(u, n) /\ ~InString(u, Len(u)) /\ ValueDone(u, Len(u))
<1> DEFINE Good(u) == Grown(u, n) /\ ~InString(u, Len(u)) /\ Len(u) > 0 /\ u[Len(u)] = "d"
           P == {k \in 0..m : k # 0 => Good(Run(t, "d", k))}
<1>1. t \in Seq(Symbols) /\ Len(t) \in Nat /\ "d" \in Symbols \ (Openers \union Closers)
  BY GrownParts DEF Symbols, Openers, Closers
<1>2. 0 \in P  OBVIOUS
<1>3. ASSUME NEW k \in 0..m, k # m /\ k \in P PROVE k + 1 \in P
  <2> DEFINE r == Run(t, "d", k)
  <2>1. Grown(r, n) /\ ~InString(r, Len(r)) /\ (ValueNext(r, Len(r)) \/ r[Len(r)] = "d")
    <3>1. CASE k = 0
      <4>1. r = t  BY <1>1, <3>1, RunFacts
      <4> HIDE DEF r, P, Good
      <4> QED  BY <4>1
    <3>2. CASE k # 0  BY <1>3, <3>2
    <3> QED  BY <3>1, <3>2
  <2>2. k + 1 \in 0..m /\ k \in Nat  BY <1>3
  <2>3. Run(t, "d", k + 1) = Append(r, "d")  BY ONLY <1>1, <2>2, RunSteps
  <2> HIDE DEF r, P
  <2>4. r \in Seq(Symbols) /\ Anchored(r)  BY <2>1, GrownParts
  <2>5. Follows(r, "d")  BY <2>1 DEF Follows
  <2>6. Grown(Append(r, "d"), n)  BY <1>1, <2>1, <2>5, GrowsByPlain
  <2>7. /\ Len(Append(r, "d")) = Len(r) + 1 /\ Len(r) \in Nat
        /\ Append(r, "d")[Len(r) + 1] = "d"
    BY <1>1, <2>4, LongerText
  <2>8. ~InString(Append(r, "d"), Len(Append(r, "d")))
    <3>1. InString(Append(r, "d"), Len(r) + 1) = InString(r, Len(r))  BY <1>1, <2>4, StringsGrow
    <3> QED  BY <2>1, <2>7, <3>1
  <2>9. Good(Append(r, "d"))
    <3>1. Len(Append(r, "d")) > 0  BY <2>7
    <3> QED  BY <2>6, <2>7, <2>8, <3>1
  <2> HIDE DEF Good
  <2> QED  BY <2>2, <2>3, <2>9 DEF P
<1> HIDE DEF P
<1>4. 0..m \subseteq P
  <2>1. m \in Nat  OBVIOUS
  <2> QED  BY <1>2, <1>3, <2>1, SetInduction, Zenon
<1>5. m \in P  BY <1>4
<1>6. Good(Run(t, "d", m))
  <2> HIDE DEF Good
  <2> QED  BY <1>5 DEF P
<1> QED  BY <1>6 DEF ValueDone

(* A string is a key where a key is expected, and a value elsewhere.       *)
LEMMA StringGrows ==
  ASSUME NEW t, NEW n, Grown(t, n), ~InString(t, Len(t)),
         ValueNext(t, Len(t)) \/ KeyNext(t, Len(t)), NEW m \in Nat
  PROVE  LET u == Append(Run(Append(t, "quote"), "c", m), "quote")
         IN  /\ Grown(u, n) /\ ~InString(u, Len(u))
             /\ IsKey(u, Len(u)) = KeyNext(t, Len(t))
             /\ ValueDone(u, Len(u)) = ~KeyNext(t, Len(t))
<1> DEFINE q == Append(t, "quote")
           r == Run(q, "c", m)
           u == Append(r, "quote")
           i == Len(t)
<1>0. "quote" \in Symbols \ (Openers \union Closers) /\ "c" \in Symbols
  BY DEF Symbols, Openers, Closers
<1>1. t \in Seq(Symbols) /\ Anchored(t)  BY GrownParts
<1>2. /\ i \in Nat /\ q \in Seq(Symbols) /\ Len(q) = i + 1 /\ Agree(t, q, i)
      /\ q[i + 1] = "quote"
  BY <1>0, <1>1, LongerText
<1>3. Grown(q, n) /\ InString(q, Len(q))
  <2>1. Follows(t, "quote")  BY DEF Follows
  <2>2. Grown(q, n)  BY <1>0, <2>1, GrowsByPlain
  <2>3. InString(q, i + 1) = ~InString(t, i)  BY <1>0, <1>1, StringsGrow
  <2> QED  BY <1>2, <2>2, <2>3
<1>4. Grown(r, n) /\ InString(r, Len(r))
  <2> HIDE DEF q
  <2> QED  BY <1>3, CharsGrow
<1>5. /\ r \in Seq(Symbols) /\ Len(r) = i + 1 + m /\ Agree(q, r, i + 1)
      /\ \A j \in (i + 2)..(i + 1 + m) : r[j] = "c"
  <2> HIDE DEF q
  <2>1. /\ r \in Seq(Symbols) /\ Len(r) = Len(q) + m /\ Agree(q, r, Len(q))
        /\ \A j \in (Len(q) + 1)..(Len(q) + m) : r[j] = "c"
    <3>1. q \in Seq(Symbols) /\ "c" \in Symbols  BY <1>0, <1>2
    <3> HIDE DEF q, i
    <3> QED  BY <3>1, RunFacts
  <2>2. Len(q) + 1 = i + 2 /\ Len(q) + m = i + 1 + m  BY <1>2
  <2> HIDE DEF r, i
  <2> QED  BY <1>2, <2>1, <2>2
<1> HIDE DEF r
<1>6. /\ u \in Seq(Symbols) /\ Len(u) = i + 2 + m /\ Agree(r, u, i + 1 + m)
      /\ u[i + 2 + m] = "quote"
  <2>1. /\ Len(u) = Len(r) + 1 /\ u \in Seq(Symbols) /\ Agree(r, u, Len(r))
        /\ u[Len(r) + 1] = "quote"
    BY <1>0, <1>5, LongerText
  <2>2. Len(r) + 1 = i + 2 + m  BY <1>2, <1>5
  <2> HIDE DEF u, i
  <2> QED  BY <1>5, <2>1, <2>2
<1>7. Grown(u, n) /\ ~InString(u, Len(u))
  <2>1. Follows(r, "quote")  BY <1>4 DEF Follows
  <2>2. Grown(u, n)  BY <1>0, <1>4, <2>1, GrowsByPlain
  <2>3. InString(u, Len(r) + 1) = ~InString(r, Len(r))
    BY <1>0, <1>4, <1>5, GrownParts, StringsGrow
  <2>4. Len(r) + 1 = Len(u)  BY <1>2, <1>5, <1>6
  <2> QED  BY <1>4, <2>2, <2>3, <2>4
<1> HIDE DEF q, u, i
<1>8. Agree(t, u, i) /\ u[i + 1] = "quote" /\ \A j \in (i + 2)..(i + 1 + m) : u[j] = "c"
  <2>1. \A j \in 1..(i + 1 + m) : u[j] = r[j]  BY <1>6 DEF Agree
  <2>2. \A j \in 1..(i + 1) : r[j] = q[j] /\ j \in 1..(i + 1 + m)  BY <1>2, <1>5 DEF Agree
  <2>3. \A j \in 1..i : q[j] = t[j] /\ j \in 1..(i + 1)  BY <1>2 DEF Agree
  <2>4. i + 1 \in 1..(i + 1) /\ \A j \in (i + 2)..(i + 1 + m) : j \in 1..(i + 1 + m)  BY <1>2
  <2> QED  BY <1>2, <1>5, <2>1, <2>2, <2>3, <2>4 DEF Agree
<1>9. IsKey(u, Len(u)) = KeyNext(t, i)
  <2> DEFINE S == {j \in 1..(Len(u) - 1) : u[j] = "quote"}
  <2>1. i + 1 \in S /\ S \subseteq 1..(i + 1)
    <3>1. ASSUME NEW j \in S PROVE j \in 1..(i + 1)
      <4>1. j \in 1..(i + 1 + m) /\ u[j] # "c"  BY <1>2, <1>6
      <4>2. j \notin (i + 2)..(i + 1 + m)  BY <1>8, <4>1
      <4> QED  BY <1>2, <4>1, <4>2
    <3>2. i + 1 \in 1..(Len(u) - 1)  BY <1>2, <1>6
    <3> QED  BY <1>8, <3>1, <3>2
  <2>2. IsKey(u, Len(u)) <=> KeyNext(u, Latest(S) - 1)
    <3>1. Len(u) > 0 /\ u[Len(u)] = "quote"  BY <1>2, <1>6
    <3> QED  BY <1>7, <3>1, Zenon DEF IsKey
  <2> HIDE DEF S
  <2>3. Latest(S) = i + 1
    <3>1. i + 1 \in Nat /\ S \in SUBSET (1..(i + 1)) /\ S # {}  BY <1>2, <2>1
    <3>2. Latest(S) \in S /\ i + 1 <= Latest(S)  BY <2>1, <3>1, LatestFacts
    <3>3. Latest(S) \in 1..(i + 1)  BY <2>1, <3>2
    <3> QED  BY <1>2, <3>2, <3>3
  <2>4. Latest(S) - 1 = i  BY <1>2, <2>3
  <2>5. KeyNext(u, i) = KeyNext(t, i)
    <3>1. \A k \in 0..i : Level(t, k) # 0 => OpenBrackets(t, k, Level(t, k)) # {}
      BY <1>1 DEF Anchored, i
    <3>2. i \in 0..i  BY <1>2
    <3> QED  BY <1>2, <1>8, <3>1, <3>2, SameGrammar
  <2>6. IsKey(u, Len(u)) \in BOOLEAN /\ KeyNext(t, i) \in BOOLEAN  BY DEF IsKey, KeyNext
  <2> QED  BY <2>2, <2>4, <2>5, <2>6
<1>10. ValueDone(u, Len(u)) = ~KeyNext(t, i)
  <2>1. Len(u) > 0 /\ u[Len(u)] = "quote"  BY <1>2, <1>6
  <2> QED  BY <1>7, <1>9, <2>1 DEF ValueDone
<1> QED  BY <1>7, <1>9, <1>10 DEF q, r, u, i

------------------------------------------------------------------------------
(* The buffer and what was flushed together grow by what is written,       *)
(* wherever the buffer is cut.                                             *)
Outputs == [buffer : Seq(Symbols), sent : Seq(Symbols)]
TextOf(o) == o.sent \o o.buffer

LEMMA FlushKeepsText ==
  ASSUME NEW o \in Outputs
  PROVE  /\ Flushed(o) \in Outputs /\ TextOf(Flushed(o)) = TextOf(o)
         /\ \A limit : /\ FlushIfFull(o, limit) \in Outputs
                       /\ TextOf(FlushIfFull(o, limit)) = TextOf(o)
         /\ TextOf(o) \in Seq(Symbols)
<1>1. o.buffer \in Seq(Symbols) /\ o.sent \in Seq(Symbols)  BY DEF Outputs
<1>2. TextOf(o) \in Seq(Symbols)  BY <1>1, ConcatProperties DEF TextOf
<1>3. Flushed(o) \in Outputs
  <2>1. <<>> \in Seq(Symbols) /\ o.sent \o o.buffer \in Seq(Symbols)  BY <1>2 DEF TextOf
  <2> QED  BY <2>1 DEF Flushed, Outputs
<1>4. TextOf(Flushed(o)) = TextOf(o)
  <2>1. Flushed(o).buffer = <<>> /\ Flushed(o).sent = TextOf(o)  BY DEF Flushed, TextOf
  <2>2. TextOf(o) \o <<>> = TextOf(o)  BY <1>2, ConcatEmptySeq
  <2> QED  BY <2>1, <2>2 DEF TextOf
<1>5. \A limit : FlushIfFull(o, limit) = Flushed(o) \/ FlushIfFull(o, limit) = o
  BY DEF FlushIfFull
<1> QED  BY <1>2, <1>3, <1>4, <1>5

LEMMA BufferedFacts ==
  ASSUME NEW o \in Outputs, NEW c \in Symbols
  PROVE  Buffered(o, c) \in Outputs /\ TextOf(Buffered(o, c)) = Append(TextOf(o), c)
<1> DEFINE b == o.buffer
           s == o.sent
<1>1. b \in Seq(Symbols) /\ s \in Seq(Symbols)  BY DEF Outputs
<1>3. TextOf(o) = s \o b  BY DEF TextOf
<1>4. Append(b, c) \in Seq(Symbols)
  <2> HIDE DEF b
  <2> QED  BY <1>1, AppendProperties
<1>2. /\ Buffered(o, c).buffer = Append(b, c) /\ Buffered(o, c).sent = s
      /\ Buffered(o, c) \in Outputs
  BY <1>4 DEF Buffered, Outputs
<1> HIDE DEF b, s
<1>5. Append(s \o b, c) = s \o Append(b, c)  BY <1>1
<1> QED  BY <1>2, <1>3, <1>5 DEF TextOf

LEMMA PutFacts ==
  ASSUME NEW o \in Outputs, NEW c \in Symbols
  PROVE  json_put(o, c) \in Outputs /\ TextOf(json_put(o, c)) = Append(TextOf(o), c)
BY BufferedFacts, FlushKeepsText DEF json_put

LEMMA WriteFacts ==
  ASSUME NEW o \in Outputs, NEW c \in Symbols, NEW n \in Nat
  PROVE  LET w == json_write(o, [i \in 1..n |-> c])
         IN  w \in Outputs /\ TextOf(w) = Run(TextOf(o), c, n)
<1> DEFINE data == [i \in 1..n |-> c]
           Next1(p) == FlushIfFull(Buffered(p, c), Size)
<1>1. Len(data) = n /\ \A k \in 1..n : data[k] = c  OBVIOUS
<1>2. \A p \in Outputs : Next1(p) \in Outputs /\ TextOf(Next1(p)) = Append(TextOf(p), c)
  BY BufferedFacts, FlushKeepsText
<1>3. PICK f :
        /\ f = [k \in 0..n |-> IF k = 0 THEN o ELSE Next1(f[k - 1])]
        /\ json_write(o, data) = FlushIfFull(f[n], Size - 1)
  <2> DEFINE step == [k \in 1..n |-> [p \in Outputs |-> Next1(p)]]
  <2>1. step \in [1..n -> [Outputs -> Outputs]]
    <3> HIDE DEF Next1
    <3> QED  BY <1>2
  <2> HIDE DEF step
  <2>2. PICK g \in [0..n -> Outputs] : Iterates(g, o, step, n)  BY <2>1, Iteration
  <2>3. ASSUME NEW k \in 0..n, k # 0 PROVE step[k][g[k - 1]] = Next1(g[k - 1])
    <3>1. k \in 1..n /\ k - 1 \in 0..n  BY <2>3
    <3>2. g[k - 1] \in Outputs  BY <3>1
    <3> HIDE DEF Next1
    <3> QED  BY <3>1, <3>2 DEF step
  <2>4. g = [k \in 0..n |-> IF k = 0 THEN o ELSE Next1(g[k - 1])]
    <3> HIDE DEF Next1
    <3> QED  BY <2>2, <2>3 DEF Iterates
  <2>5. \A f : f = [k \in 0..n |-> IF k = 0 THEN o ELSE Next1(f[k - 1])]
               <=> f = [k \in 0..Len(data) |->
                          IF k = 0 THEN o
                          ELSE FlushIfFull(Buffered(f[k - 1], data[k]), Size)]
    <3>1. \A k \in 0..n : k # 0 => data[k] = c  BY <1>1
    <3>2. 0..Len(data) = 0..n  BY <1>1
    <3> HIDE DEF data
    <3> QED  BY <3>1, <3>2
  <2>6. \E f : /\ f = [k \in 0..Len(data) |->
                          IF k = 0 THEN o
                          ELSE FlushIfFull(Buffered(f[k - 1], data[k]), Size)]
               /\ json_write(o, data) = FlushIfFull(f[Len(data)], Size - 1)
    <3>1. g = [k \in 0..Len(data) |->
                 IF k = 0 THEN o
                 ELSE FlushIfFull(Buffered(g[k - 1], data[k]), Size)]
      <4> HIDE DEF data, Next1
      <4> QED  BY <2>4, <2>5, Zenon
    <3> HIDE DEF data
    <3> QED  BY <3>1, Zenon DEF json_write
  <2> HIDE DEF Next1, data
  <2> QED  BY <1>1, <2>5, <2>6
<1>4. TextOf(o) \in Seq(Symbols)  BY FlushKeepsText
<1> DEFINE P == {k \in 0..n : f[k] \in Outputs /\ TextOf(f[k]) = Run(TextOf(o), c, k)}
<1>5. 0 \in P
  <2>1. f[0] = o /\ 0 \in 0..n
    <3> HIDE DEF Next1
    <3> QED  BY <1>3
  <2> QED  BY <1>4, <2>1, RunFacts
<1>6. ASSUME NEW k \in 0..n, k # n /\ k \in P PROVE k + 1 \in P
  <2>1. k + 1 \in 0..n /\ (k + 1) - 1 = k /\ k + 1 # 0  BY <1>6
  <2>2. f[k] \in Outputs /\ TextOf(f[k]) = Run(TextOf(o), c, k)  BY <1>6
  <2> HIDE DEF P, Next1
  <2>3. f[k + 1] = Next1(f[k])  BY <1>3, <2>1
  <2>4. f[k + 1] \in Outputs /\ TextOf(f[k + 1]) = Append(TextOf(f[k]), c)  BY <1>2, <2>2, <2>3
  <2>5. Run(TextOf(o), c, k + 1) = Append(Run(TextOf(o), c, k), c)
    <3>1. k \in Nat  OBVIOUS
    <3> QED  BY <1>4, <3>1, RunSteps, Zenon
  <2> QED  BY <2>1, <2>2, <2>4, <2>5 DEF P
<1> HIDE DEF P
<1>7. 0..n \subseteq P  BY <1>5, <1>6, SetInduction, Zenon
<1>8. n \in P  BY <1>7
<1>9. f[n] \in Outputs /\ TextOf(f[n]) = Run(TextOf(o), c, n)  BY <1>8 DEF P
<1>10. /\ json_write(o, data) \in Outputs
       /\ TextOf(json_write(o, data)) = Run(TextOf(o), c, n)
  BY <1>3, <1>9, FlushKeepsText
<1> QED  BY <1>10

LEMMA QuotedFacts ==
  ASSUME NEW o \in Outputs, NEW n \in Nat
  PROVE  /\ Quoted(o, n) \in Outputs
         /\ TextOf(Quoted(o, n)) = Append(Run(Append(TextOf(o), "quote"), "c", n), "quote")
<1>1. "quote" \in Symbols /\ "c" \in Symbols  BY DEF Symbols
<1> DEFINE p == json_put(o, "quote")
           w == json_write(p, [i \in 1..n |-> "c"])
<1>2. p \in Outputs /\ TextOf(p) = Append(TextOf(o), "quote")  BY <1>1, PutFacts
<1>3. Quoted(o, n) = json_put(w, "quote")  BY DEF Quoted
<1> HIDE DEF p
<1>4. w \in Outputs /\ TextOf(w) = Run(TextOf(p), "c", n)  BY <1>1, <1>2, WriteFacts
<1> HIDE DEF w
<1>5. json_put(w, "quote") \in Outputs /\ TextOf(json_put(w, "quote")) = Append(TextOf(w), "quote")
  BY <1>1, <1>4, PutFacts
<1> QED  BY <1>2, <1>3, <1>4, <1>5

------------------------------------------------------------------------------
(* Where the text stands in each state of the writer.                      *)
Stands(s, t, n) ==
  LET i == Len(t)
      inside(b) == n # <<>> /\ n[Len(n)] = b
  IN  CASE s = "START"        -> t = <<>>
        [] s = "END"          -> n = <<>> /\ ValueDone(t, i)
        [] s = "OBJECT"       -> inside("OBJECT") /\ i > 0 /\ t[i] = "{"
        [] s = "OBJECT_KEY"   -> inside("OBJECT") /\ i > 0 /\ t[i] = ":"
        [] s = "OBJECT_VALUE" -> inside("OBJECT") /\ ValueDone(t, i)
        [] s = "ARRAY"        -> inside("ARRAY") /\ i > 0 /\ t[i] = "["
        [] s = "ARRAY_ITEM"   -> inside("ARRAY") /\ ValueDone(t, i)
        [] s = "ERROR"        -> TRUE

JsonInv ==
  /\ state \in States /\ buffer \in Seq(Symbols) /\ sent \in Seq(Symbols)
  /\ Grown(Text, nesting) /\ ~InString(Text, Len(Text))
  /\ Stands(state, Text, nesting)

LEMMA EmptyText == Grown(<<>>, <<>>) /\ ~InString(<<>>, 0) /\ Len(<<>>) = 0
<1>1. Level(<<>>, 0) = 0 /\ Quotes(<<>>, 0) = 0  BY LevelFacts, QuotesFacts
<1>2. <<>> \in Seq(Symbols) /\ <<>> \in Seq({"OBJECT", "ARRAY"}) /\ Len(<<>>) = 0  OBVIOUS
<1>3. IsPrefixOfJson(<<>>)  BY <1>2 DEF IsPrefixOfJson
<1>4. Anchored(<<>>)
  <2>1. \A i \in 0..Len(<<>>) : i = 0  BY <1>2
  <2> QED  BY <1>1, <2>1 DEF Anchored
<1>5. Nested(<<>>, <<>>)  BY <1>1, <1>2 DEF Nested
<1> QED  BY <1>1, <1>2, <1>3, <1>4, <1>5 DEF Grown, InString

LEMMA OutFacts ==
  ASSUME JsonInv
  PROVE  Out \in Outputs /\ TextOf(Out) = Text
BY DEF JsonInv, Out, Outputs, TextOf, Text

(* A step that writes o and keeps what the invariant says of the text.     *)
LEMMA StepKeeps ==
  ASSUME NEW o \in Outputs, SetOut(o), state' \in States,
         Grown(TextOf(o), nesting'), ~InString(TextOf(o), Len(TextOf(o))),
         Stands(state', TextOf(o), nesting')
  PROVE  JsonInv'
<1>1. /\ buffer' = o.buffer /\ sent' = o.sent
      /\ buffer' \in Seq(Symbols) /\ sent' \in Seq(Symbols)
  BY DEF SetOut, Outputs
<1>2. Text' = TextOf(o)  BY <1>1 DEF Text, TextOf
<1> QED  BY <1>1, <1>2 DEF JsonInv

LEMMA QuietKeeps ==
  ASSUME JsonInv, UNCHANGED <<nesting, buffer, sent>>,
         UNCHANGED state \/ state' = "ERROR"
  PROVE  JsonInv'
<1>1. Text' = Text  BY DEF Text
<1>2. state' \in States /\ Stands(state', Text', nesting')
  BY <1>1 DEF JsonInv, Stands, States
<1> QED  BY <1>1, <1>2 DEF JsonInv

(* Where a value may stand, a value is next once the comma is written.     *)
LEMMA ReadyForValue ==
  ASSUME JsonInv, state \in ValuePlaces
  PROVE  LET t == TextOf(Separated)
         IN  /\ Separated \in Outputs /\ Grown(t, nesting) /\ ~InString(t, Len(t))
             /\ ValueNext(t, Len(t)) /\ ~KeyNext(t, Len(t))
<1>1. /\ Grown(Text, nesting) /\ ~InString(Text, Len(Text)) /\ Stands(state, Text, nesting)
      /\ Out \in Outputs /\ TextOf(Out) = Text
  BY OutFacts DEF JsonInv
<1>2. CASE state # "ARRAY_ITEM"
  <2>1. Separated = Out  BY <1>2 DEF Separated
  <2>2. ValueNext(Text, Len(Text)) /\ ~KeyNext(Text, Len(Text))
    <3>1. CASE state = "START"
      <4>1. Len(Text) = 0  BY <1>1, <3>1 DEF Stands
      <4> QED  BY <4>1 DEF ValueNext, KeyNext
    <3>2. CASE state = "ARRAY"  BY <1>1, <3>2 DEF Stands, ValueNext, KeyNext
    <3>3. CASE state = "OBJECT_KEY"  BY <1>1, <3>3 DEF Stands, ValueNext, KeyNext
    <3> QED  BY <1>2, <3>1, <3>2, <3>3 DEF ValuePlaces
  <2> QED  BY <1>1, <2>1, <2>2
<1>3. CASE state = "ARRAY_ITEM"
  <2> DEFINE u == Append(Text, ",")
  <2>0. "," \in Symbols \ (Openers \union Closers)  BY DEF Symbols, Openers, Closers
  <2>1. Separated \in Outputs /\ TextOf(Separated) = u
    <3>1. Separated = json_put(Out, ",")  BY <1>3 DEF Separated
    <3>2. json_put(Out, ",") \in Outputs /\ TextOf(json_put(Out, ",")) = Append(TextOf(Out), ",")
      BY <1>1, <2>0, PutFacts
    <3> QED  BY <1>1, <3>1, <3>2
  <2>2. nesting # <<>> /\ nesting[Len(nesting)] = "ARRAY" /\ ValueDone(Text, Len(Text))
    BY <1>1, <1>3 DEF Stands
  <2>3. Text \in Seq(Symbols) /\ Anchored(Text) /\ Len(Text) \in Nat  BY <1>1, GrownParts
  <2>4. Around(Text, Len(Text)) = "["  BY <1>1, <2>2, AroundEnd DEF Bracket
  <2>5. Follows(Text, ",")  BY <1>1, <2>2, <2>4 DEF Follows
  <2>6. Grown(u, nesting)  BY <1>1, <2>0, <2>5, GrowsByPlain
  <2>7. Len(u) = Len(Text) + 1 /\ u[Len(Text) + 1] = ","  BY <2>0, <2>3, LongerText
  <2>8. ~InString(u, Len(u))
    <3>1. InString(u, Len(Text) + 1) = InString(Text, Len(Text))
      BY <2>0, <2>3, StringsGrow
    <3> QED  BY <1>1, <2>7, <3>1
  <2>9. Around(u, Len(u)) = "["  BY <2>2, <2>6, AroundEnd DEF Bracket
  <2>10. ValueNext(u, Len(u)) /\ ~KeyNext(u, Len(u))
    <3> HIDE DEF u
    <3> QED  BY <2>7, <2>9 DEF ValueNext, KeyNext
  <2> QED  BY <2>1, <2>6, <2>8, <2>10
<1> QED  BY <1>2, <1>3

LEMMA ValueWritten ==
  ASSUME JsonInv, state \in ValuePlaces, NEW o \in Outputs, SetOut(o),
         state' = AfterValue(state), UNCHANGED nesting,
         Grown(TextOf(o), nesting), ~InString(TextOf(o), Len(TextOf(o))),
         ValueDone(TextOf(o), Len(TextOf(o)))
  PROVE  JsonInv'
<1> DEFINE t == TextOf(o)
<1>1. Stands(state, Text, nesting) /\ Grown(Text, nesting)  BY DEF JsonInv
<1> HIDE DEF t
<1>2. state' \in States /\ Stands(state', t, nesting)
  <2>0. ValueDone(t, Len(t))  BY DEF t
  <2>1. CASE state = "START"
    <3>1. Text = <<>>  BY <1>1, <2>1 DEF Stands
    <3>2. nesting \in Seq({"OBJECT", "ARRAY"}) /\ Level(Text, Len(Text)) = Len(nesting)
      BY <1>1, GrownParts
    <3>3. Len(nesting) = 0  BY <3>1, <3>2, LevelFacts
    <3>4. nesting = <<>>  BY <3>2, <3>3, EmptySeq
    <3>5. state' = "END"  BY <2>1 DEF AfterValue
    <3> QED  BY <2>0, <3>4, <3>5 DEF Stands, States
  <2>2. CASE state \in {"ARRAY", "ARRAY_ITEM"}
    <3>1. nesting # <<>> /\ nesting[Len(nesting)] = "ARRAY"  BY <1>1, <2>2 DEF Stands
    <3>2. state' = "ARRAY_ITEM"  BY <2>2 DEF AfterValue
    <3> QED  BY <2>0, <3>1, <3>2 DEF Stands, States
  <2>3. CASE state = "OBJECT_KEY"
    <3>1. nesting # <<>> /\ nesting[Len(nesting)] = "OBJECT"  BY <1>1, <2>3 DEF Stands
    <3>2. state' = "OBJECT_VALUE"  BY <2>3 DEF AfterValue
    <3> QED  BY <2>0, <3>1, <3>2 DEF Stands, States
  <2> QED  BY <2>1, <2>2, <2>3 DEF ValuePlaces
<1> QED  BY <1>2, StepKeeps DEF t

------------------------------------------------------------------------------
(* The calls.  An integer that snprintf cut would be followed by bytes     *)
(* from behind the buffer of json_integer.                                 *)
IntegersFit == \A n \in IntegerDigits : n < IntegerBuffer

LEMMA StartKeeps ==
  ASSUME JsonInv, NEW inside \in {"OBJECT", "ARRAY"}, Start(Bracket(inside), inside)
  PROVE  JsonInv'
<1> DEFINE c == Bracket(inside)
           o == json_put(Separated, c)
           t == TextOf(Separated)
           m == Append(nesting, inside)
<1>0. c \in Symbols /\ c \in Openers  BY DEF Bracket, Symbols, Openers
<1>1. CASE UNCHANGED <<nesting, buffer, sent>> /\ (UNCHANGED state \/ state' = "ERROR")
  BY <1>1, QuietKeeps
<1>2. CASE /\ state \in ValuePlaces /\ SetOut(o)
           /\ state' = inside /\ nesting' = m
  <2>1. /\ Separated \in Outputs /\ Grown(t, nesting) /\ ~InString(t, Len(t))
        /\ ValueNext(t, Len(t))
    BY <1>2, ReadyForValue
  <2>2. o \in Outputs /\ TextOf(o) = Append(t, c)  BY <1>0, <2>1, PutFacts
  <2>3. /\ t \in Seq(Symbols) /\ Anchored(t) /\ Len(t) \in Nat
        /\ nesting \in Seq({"OBJECT", "ARRAY"})
    BY <2>1, GrownParts
  <2>4. Grown(Append(t, c), m)
    <3>1. Follows(t, c)  BY <2>1 DEF Follows, Bracket
    <3> HIDE DEF t
    <3> QED  BY <2>1, <3>1, GrowsByOpener
  <2>5. /\ Len(Append(t, c)) = Len(t) + 1 /\ Append(t, c)[Len(t) + 1] = c
        /\ InString(Append(t, c), Len(t) + 1) = InString(t, Len(t))
    <3>1. c # "quote"  BY DEF Bracket
    <3> HIDE DEF t, c
    <3> QED  BY <1>0, <2>3, <3>1, LongerText, StringsGrow
  <2>6. m # <<>> /\ m[Len(m)] = inside
    <3>1. Len(nesting) \in Nat  BY <2>3, LenProperties
    <3>2. Len(m) = Len(nesting) + 1 /\ m[Len(nesting) + 1] = inside
      BY <2>3, AppendProperties
    <3>3. Len(m) # 0  BY <3>1, <3>2
    <3> HIDE DEF m
    <3> QED  BY <3>2, <3>3
  <2> HIDE DEF o, t, m
  <2>7. Stands(inside, Append(t, c), m)
    <3>1. Len(Append(t, c)) > 0 /\ Append(t, c)[Len(Append(t, c))] = c  BY <2>3, <2>5
    <3> QED  BY <2>6, <3>1 DEF Stands, Bracket
  <2>8. inside \in States  BY DEF States
  <2>9. ~InString(TextOf(o), Len(TextOf(o)))  BY <2>1, <2>2, <2>5
  <2> QED  BY <1>2, <2>2, <2>4, <2>7, <2>8, <2>9, StepKeeps
<1> QED  BY <1>1, <1>2 DEF Start, Silent, Misplaced, jsonVars

LEMMA CloseKeeps ==
  ASSUME JsonInv, NEW inside \in {"OBJECT", "ARRAY"}, NEW places, NEW c,
         \/ inside = "OBJECT" /\ c = "}" /\ places = {"OBJECT", "OBJECT_VALUE"}
         \/ inside = "ARRAY" /\ c = "]" /\ places = {"ARRAY", "ARRAY_ITEM"},
         Close(c, places)
  PROVE  JsonInv'
<1> DEFINE o == json_put(Out, c)
           t == Text
           m == Front(nesting)
<1>0. c \in Closers /\ c \in Symbols /\ c # "quote"  BY DEF Symbols, Closers
<1>1. CASE UNCHANGED <<nesting, buffer, sent>> /\ (UNCHANGED state \/ state' = "ERROR")
  BY <1>1, QuietKeeps
<1>2. CASE /\ state \in places /\ SetOut(o)
           /\ nesting' = m /\ state' = Surroundings(nesting')
  <2>1. /\ Grown(t, nesting) /\ ~InString(t, Len(t)) /\ Stands(state, t, nesting)
        /\ Out \in Outputs /\ TextOf(Out) = t
    BY OutFacts DEF JsonInv
  <2>2. o \in Outputs /\ TextOf(o) = Append(t, c)  BY <1>0, <2>1, PutFacts
  <2> HIDE DEF t, o
  <2>3. /\ t \in Seq(Symbols) /\ Anchored(t) /\ Len(t) \in Nat
        /\ nesting \in Seq({"OBJECT", "ARRAY"})
    BY <2>1, GrownParts
  <2>4. /\ nesting # <<>> /\ nesting[Len(nesting)] = inside
        /\ t[Len(t)] = Bracket(inside) \/ ValueDone(t, Len(t))
    <3>1. \/ state \in {"OBJECT", "OBJECT_VALUE"} /\ inside = "OBJECT"
          \/ state \in {"ARRAY", "ARRAY_ITEM"} /\ inside = "ARRAY"
      BY <1>2
    <3> QED  BY <2>1, <3>1 DEF Stands, Bracket
  <2>5. Around(t, Len(t)) = Bracket(inside)  BY <2>1, <2>4, AroundEnd
  <2>6. Grown(Append(t, c), m)
    <3>1. Follows(t, c)  BY <2>1, <2>4, <2>5 DEF Follows, Bracket
    <3> QED  BY <1>0, <2>1, <2>4, <3>1, GrowsByCloser
  <2>7. /\ Len(Append(t, c)) = Len(t) + 1 /\ Append(t, c)[Len(t) + 1] = c
        /\ InString(Append(t, c), Len(t) + 1) = InString(t, Len(t))
    BY <1>0, <2>3, LongerText, StringsGrow
  <2>8. ValueDone(Append(t, c), Len(Append(t, c)))
    <3> DEFINE u == Append(t, c)
    <3>2. Len(u) > 0 /\ u[Len(u)] = c  BY <1>0, <2>3, LongerText
    <3> HIDE DEF u
    <3>3. ValueDone(u, Len(u))  BY <3>2 DEF ValueDone, Closers
    <3> QED  BY <3>3 DEF u
  <2> HIDE DEF m
  <2>9. Stands(Surroundings(m), Append(t, c), m) /\ Surroundings(m) \in States
    <3>1. m \in Seq({"OBJECT", "ARRAY"})  BY <2>6, GrownParts
    <3>2. CASE m = <<>>  BY <2>8, <3>2 DEF Surroundings, Stands, States
    <3>3. CASE m # <<>>
      <4>3. Last(m) = m[Len(m)] /\ m[Len(m)] \in {"OBJECT", "ARRAY"}
        BY <3>1, <3>3, LastPosition
      <4>4. CASE m[Len(m)] = "OBJECT"
        BY <2>8, <3>3, <4>3, <4>4 DEF Surroundings, Stands, States
      <4>5. CASE m[Len(m)] = "ARRAY"
        BY <2>8, <3>3, <4>3, <4>5 DEF Surroundings, Stands, States
      <4> QED  BY <4>3, <4>4, <4>5
    <3> QED  BY <3>2, <3>3
  <2>10. ~InString(TextOf(o), Len(TextOf(o)))  BY <2>1, <2>2, <2>7
  <2> QED  BY <1>2, <2>2, <2>6, <2>9, <2>10, StepKeeps DEF o
<1> QED  BY <1>1, <1>2 DEF Close, Silent, Misplaced, jsonVars

LEMMA NumberKeeps ==
  ASSUME JsonInv, state \in ValuePlaces, NEW n \in Nat \ {0},
         SetOut(json_write(Separated, [i \in 1..n |-> "d"])),
         state' = AfterValue(state), UNCHANGED nesting
  PROVE  JsonInv'
<1> DEFINE t == TextOf(Separated)
           o == json_write(Separated, [i \in 1..n |-> "d"])
<1>1. /\ Separated \in Outputs /\ Grown(t, nesting) /\ ~InString(t, Len(t))
      /\ ValueNext(t, Len(t))
  BY ReadyForValue
<1>2. o \in Outputs /\ TextOf(o) = Run(t, "d", n)
  <2>1. "d" \in Symbols /\ n \in Nat  BY DEF Symbols
  <2> QED  BY <1>1, <2>1, WriteFacts
<1> HIDE DEF t
<1>3. /\ Grown(Run(t, "d", n), nesting)
      /\ ~InString(Run(t, "d", n), Len(Run(t, "d", n)))
      /\ ValueDone(Run(t, "d", n), Len(Run(t, "d", n)))
  BY <1>1, NumberGrows
<1>4. SetOut(o)  OBVIOUS
<1> HIDE DEF o
<1> QED  BY <1>2, <1>3, <1>4, ValueWritten

LEMMA LiteralKeeps ==
  ASSUME JsonInv, state \in ValuePlaces, SetOut(json_write(Separated, <<"w">>)),
         state' = AfterValue(state), UNCHANGED nesting
  PROVE  JsonInv'
<1> DEFINE t == TextOf(Separated)
           o == json_write(Separated, <<"w">>)
           u == Append(t, "w")
<1>0. "w" \in Symbols \ (Openers \union Closers)  BY DEF Symbols, Openers, Closers
<1>1. /\ Separated \in Outputs /\ Grown(t, nesting) /\ ~InString(t, Len(t))
      /\ ValueNext(t, Len(t))
  BY ReadyForValue
<1>2. t \in Seq(Symbols) /\ Anchored(t)  BY <1>1, GrownParts
<1>3. o \in Outputs /\ TextOf(o) = u
  <2>1. <<"w">> = [i \in 1..1 |-> "w"]  OBVIOUS
  <2>2. 1 \in Nat /\ 0 \in Nat /\ 0 + 1 = 1  OBVIOUS
  <2>3. o \in Outputs /\ TextOf(o) = Run(t, "w", 1)  BY <1>0, <1>1, <2>1, <2>2, WriteFacts
  <2> HIDE DEF t, o
  <2>4. Run(t, "w", 0 + 1) = Append(Run(t, "w", 0), "w") /\ Run(t, "w", 0) = t
    BY <1>0, <1>2, <2>2, RunFacts
  <2> QED  BY <2>2, <2>3, <2>4
<1>4. SetOut(o)  OBVIOUS
<1> HIDE DEF t, o
<1>5. Grown(u, nesting)
  <2>1. Follows(t, "w")  BY <1>1 DEF Follows
  <2> QED  BY <1>0, <1>1, <2>1, GrowsByPlain
<1>6. /\ Len(t) \in Nat /\ Len(u) = Len(t) + 1 /\ u[Len(t) + 1] = "w"
      /\ InString(u, Len(t) + 1) = InString(t, Len(t))
  BY <1>0, <1>2, LongerText, StringsGrow
<1>7. ~InString(u, Len(u)) /\ ValueDone(u, Len(u))
  <2> HIDE DEF u
  <2> QED  BY <1>1, <1>6 DEF ValueDone
<1> QED  BY <1>3, <1>4, <1>5, <1>7, ValueWritten

LEMMA StringValueKeeps ==
  ASSUME JsonInv, state \in ValuePlaces, NEW n \in Nat, SetOut(Quoted(Separated, n)),
         state' = AfterValue(state), UNCHANGED nesting
  PROVE  JsonInv'
<1> DEFINE t == TextOf(Separated)
           o == Quoted(Separated, n)
           u == Append(Run(Append(t, "quote"), "c", n), "quote")
<1>1. /\ Separated \in Outputs /\ Grown(t, nesting) /\ ~InString(t, Len(t))
      /\ ValueNext(t, Len(t)) /\ ~KeyNext(t, Len(t))
  BY ReadyForValue
<1>2. o \in Outputs /\ TextOf(o) = u  BY <1>1, QuotedFacts
<1>3. SetOut(o)  OBVIOUS
<1> HIDE DEF t, o
<1>4. Grown(u, nesting) /\ ~InString(u, Len(u)) /\ ValueDone(u, Len(u))
  BY <1>1, StringGrows
<1> HIDE DEF u
<1> QED  BY <1>2, <1>3, <1>4, ValueWritten

LEMMA KeyKeeps ==
  ASSUME JsonInv, state \in {"OBJECT", "OBJECT_VALUE"}, NEW n \in Nat,
         LET o == IF state = "OBJECT_VALUE" THEN json_put(Out, ",") ELSE Out
         IN  SetOut(json_put(Quoted(o, n), ":")),
         state' = "OBJECT_KEY", UNCHANGED nesting
  PROVE  JsonInv'
<1> DEFINE o == IF state = "OBJECT_VALUE" THEN json_put(Out, ",") ELSE Out
           t == TextOf(o)
           p == Quoted(o, n)
           u == TextOf(p)
           v == Append(u, ":")
<1>0. /\ "," \in Symbols \ (Openers \union Closers)
      /\ ":" \in Symbols \ (Openers \union Closers)
  BY DEF Symbols, Openers, Closers
<1>1. /\ Grown(Text, nesting) /\ ~InString(Text, Len(Text)) /\ Stands(state, Text, nesting)
      /\ Out \in Outputs /\ TextOf(Out) = Text
  BY OutFacts DEF JsonInv
<1>2. nesting # <<>> /\ nesting[Len(nesting)] = "OBJECT"  BY <1>1 DEF Stands
<1>3. o \in Outputs /\ Grown(t, nesting) /\ ~InString(t, Len(t)) /\ KeyNext(t, Len(t))
  <2>1. CASE state = "OBJECT"
    <3>1. o = Out  BY <2>1
    <3>2. KeyNext(Text, Len(Text))  BY <1>1, <2>1 DEF Stands, KeyNext
    <3> HIDE DEF o
    <3> QED  BY <1>1, <3>1, <3>2
  <2>2. CASE state = "OBJECT_VALUE"
    <3> DEFINE w == Append(Text, ",")
    <3>1. o \in Outputs /\ t = w
      <4>1. o = json_put(Out, ",")  BY <2>2
      <4> HIDE DEF o
      <4> QED  BY <1>0, <1>1, <4>1, PutFacts
    <3>2. ValueDone(Text, Len(Text))  BY <1>1, <2>2 DEF Stands
    <3>3. Text \in Seq(Symbols) /\ Anchored(Text) /\ Len(Text) \in Nat  BY <1>1, GrownParts
    <3>4. Around(Text, Len(Text)) = "{"  BY <1>1, <1>2, AroundEnd DEF Bracket
    <3>5. Follows(Text, ",")  BY <1>1, <3>2, <3>4 DEF Follows
    <3>6. Grown(w, nesting)  BY <1>0, <1>1, <3>5, GrowsByPlain
    <3>7. /\ Len(w) = Len(Text) + 1 /\ w[Len(Text) + 1] = ","
          /\ InString(w, Len(Text) + 1) = InString(Text, Len(Text))
      BY <1>0, <3>3, LongerText, StringsGrow
    <3>8. Around(w, Len(w)) = "{"  BY <1>2, <3>6, AroundEnd DEF Bracket
    <3> HIDE DEF w, t, o
    <3>9. KeyNext(w, Len(w)) /\ ~InString(w, Len(w))
      <4>1. Len(w) > 0 /\ w[Len(w)] = ","  BY <1>0, <3>3, LongerText DEF w
      <4> QED  BY <1>1, <3>7, <3>8, <4>1 DEF KeyNext
    <3> QED  BY <3>1, <3>6, <3>9
  <2> QED  BY <2>1, <2>2
<1>4. SetOut(json_put(p, ":"))  OBVIOUS
<1> HIDE DEF o
<1>5. p \in Outputs /\ u = Append(Run(Append(t, "quote"), "c", n), "quote")
  BY <1>3, QuotedFacts
<1> HIDE DEF t
<1>6. Grown(u, nesting) /\ ~InString(u, Len(u)) /\ IsKey(u, Len(u))
  <2> DEFINE x == Append(Run(Append(t, "quote"), "c", n), "quote")
  <2>1. /\ Grown(x, nesting) /\ ~InString(x, Len(x))
        /\ IsKey(x, Len(x)) = KeyNext(t, Len(t))
    BY <1>3, StringGrows
  <2>2. u = x  BY <1>5
  <2> HIDE DEF x, u
  <2> QED  BY <1>3, <2>1, <2>2
<1>7. json_put(p, ":") \in Outputs /\ TextOf(json_put(p, ":")) = v
  BY <1>0, <1>5, PutFacts
<1> HIDE DEF p, u
<1>8. u \in Seq(Symbols) /\ Anchored(u) /\ Len(u) \in Nat  BY <1>6, GrownParts
<1>9. Grown(v, nesting)
  <2>1. Follows(u, ":")  BY <1>6 DEF Follows
  <2> QED  BY <1>0, <1>6, <2>1, GrowsByPlain
<1>10. /\ Len(v) = Len(u) + 1 /\ v[Len(u) + 1] = ":"
       /\ InString(v, Len(u) + 1) = InString(u, Len(u))
  BY <1>0, <1>8, LongerText, StringsGrow
<1> HIDE DEF v
<1>11. Stands("OBJECT_KEY", v, nesting) /\ ~InString(v, Len(v))
  <2>1. Len(v) > 0 /\ v[Len(v)] = ":"  BY <1>0, <1>8, LongerText DEF v
  <2>2. Stands("OBJECT_KEY", v, nesting)  BY <1>2, <2>1 DEF Stands
  <2> QED  BY <1>6, <1>10, <2>2
<1>12. "OBJECT_KEY" \in States  BY DEF States
<1> QED  BY <1>4, <1>7, <1>9, <1>11, <1>12, StepKeeps

LEMMA JsonStarts == JsonInit => JsonInv
<1> SUFFICES ASSUME JsonInit PROVE JsonInv  OBVIOUS
<1>1. /\ state = "START" /\ nesting = <<>> /\ buffer = <<>> /\ sent = <<>>
      /\ <<>> \in Seq(Symbols)
  BY DEF JsonInit
<1>2. Text = <<>>  BY <1>1 DEF Text
<1> QED  BY <1>1, <1>2, EmptyText DEF JsonInv, Stands, States

LEMMA JsonCalls ==
  ASSUME IntegersFit
  PROVE  JsonInv /\ [JsonNext]_jsonVars => JsonInv'
<1> SUFFICES ASSUME JsonInv, [JsonNext]_jsonVars PROVE JsonInv'  OBVIOUS
<1>0. /\ Digits \subseteq Nat \ {0} /\ IntegerDigits \subseteq Nat \ {0}
      /\ StringLengths \subseteq Nat /\ IntegerBuffer \in Nat
  BY DigitsAssumption
<1>1. CASE UNCHANGED jsonVars  BY <1>1, QuietKeeps DEF jsonVars
<1>2. CASE json_reset
  <2> DEFINE o == [buffer |-> <<>>, sent |-> <<>>]
  <2>1. o \in Outputs /\ TextOf(o) = <<>>  BY DEF Outputs, TextOf
  <2>2. SetOut(o) /\ state' = "START" /\ nesting' = <<>>  BY <1>2 DEF json_reset, SetOut
  <2>3. "START" \in States /\ Stands("START", <<>>, <<>>)  BY DEF States, Stands
  <2> HIDE DEF o
  <2> QED  BY <2>1, <2>2, <2>3, EmptyText, StepKeeps
<1>3. CASE json_flush
  <2>1. Out \in Outputs /\ TextOf(Out) = Text  BY OutFacts
  <2>2. Flushed(Out) \in Outputs /\ TextOf(Flushed(Out)) = Text  BY <2>1, FlushKeepsText
  <2>3. SetOut(Flushed(Out)) /\ UNCHANGED <<state, nesting>>  BY <1>3 DEF json_flush
  <2> QED  BY <2>2, <2>3, StepKeeps DEF JsonInv
<1>4. CASE json_object_start
  <2>1. Start(Bracket("OBJECT"), "OBJECT")  BY <1>4 DEF json_object_start, Bracket
  <2> QED  BY <2>1, StartKeeps
<1>5. CASE json_array_start
  <2>1. Start(Bracket("ARRAY"), "ARRAY")  BY <1>5 DEF json_array_start, Bracket
  <2> QED  BY <2>1, StartKeeps
<1>6. CASE json_object_end  BY <1>6, CloseKeeps DEF json_object_end
<1>7. CASE json_array_end  BY <1>7, CloseKeeps DEF json_array_end
<1>8. ASSUME NEW n \in IntegerDigits, json_integer(n) PROVE JsonInv'
  <2>1. [i \in 1..n |-> IF i < IntegerBuffer THEN "d" ELSE "junk"] = [i \in 1..n |-> "d"]
    <3>1. n \in Nat /\ n < IntegerBuffer  BY <1>0 DEF IntegersFit
    <3>2. \A i \in 1..n : i < IntegerBuffer  BY <1>0, <3>1
    <3> QED  BY <3>2
  <2>2. CASE UNCHANGED <<nesting, buffer, sent>> /\ (UNCHANGED state \/ state' = "ERROR")
    BY <2>2, QuietKeeps
  <2>3. CASE /\ state \in ValuePlaces /\ state' = AfterValue(state) /\ UNCHANGED nesting
             /\ SetOut(json_write(Separated, [i \in 1..n |->
                                     IF i < IntegerBuffer THEN "d" ELSE "junk"]))
    <3>1. SetOut(json_write(Separated, [i \in 1..n |-> "d"]))  BY <2>1, <2>3
    <3>2. n \in Nat \ {0}  BY <1>0
    <3> QED  BY <2>3, <3>1, <3>2, NumberKeeps
  <2> QED  BY <1>8, <2>2, <2>3 DEF json_integer, Scalar, Silent, Misplaced, jsonVars
<1>9. ASSUME NEW n \in Digits, json_unsigned(n) \/ json_float(n) PROVE JsonInv'
  <2>1. n \in Nat \ {0}  BY <1>0
  <2>2. CASE UNCHANGED <<nesting, buffer, sent>> /\ (UNCHANGED state \/ state' = "ERROR")
    BY <2>2, QuietKeeps
  <2>3. CASE /\ state \in ValuePlaces /\ state' = AfterValue(state) /\ UNCHANGED nesting
             /\ SetOut(json_write(Separated, [i \in 1..n |-> "d"]))
    BY <2>1, <2>3, NumberKeeps
  <2> QED  BY <1>9, <2>2, <2>3 DEF json_unsigned, json_float, Scalar, Silent, Misplaced, jsonVars
<1>10. CASE json_boolean \/ json_null
  <2>1. CASE UNCHANGED <<nesting, buffer, sent>> /\ (UNCHANGED state \/ state' = "ERROR")
    BY <2>1, QuietKeeps
  <2>2. CASE /\ state \in ValuePlaces /\ state' = AfterValue(state) /\ UNCHANGED nesting
             /\ SetOut(json_write(Separated, <<"w">>))
    BY <2>2, LiteralKeeps
  <2> QED  BY <1>10, <2>1, <2>2 DEF json_boolean, json_null, Scalar, Silent, Misplaced, jsonVars
<1>11. ASSUME NEW n \in StringLengths, json_string(n) PROVE JsonInv'
  <2>1. n \in Nat  BY <1>0
  <2>2. CASE UNCHANGED <<nesting, buffer, sent>> /\ (UNCHANGED state \/ state' = "ERROR")
    BY <2>2, QuietKeeps
  <2>3. CASE /\ state \in ValuePlaces /\ state' = AfterValue(state) /\ UNCHANGED nesting
             /\ SetOut(Quoted(Separated, n))
    BY <2>1, <2>3, StringValueKeeps
  <2>4. CASE /\ state \in {"OBJECT", "OBJECT_VALUE"}
             /\ LET o == IF state = "OBJECT_VALUE" THEN json_put(Out, ",") ELSE Out
                IN  SetOut(json_put(Quoted(o, n), ":"))
             /\ state' = "OBJECT_KEY" /\ UNCHANGED nesting
    BY <2>1, <2>4, KeyKeeps
  <2> QED  BY <1>11, <2>2, <2>3, <2>4 DEF json_string, Scalar, Silent, Misplaced, jsonVars
<1> QED
  BY <1>1, <1>2, <1>3, <1>4, <1>5, <1>6, <1>7, <1>8, <1>9, <1>10, <1>11 DEF JsonNext, Call

LEMMA JsonInvHolds ==
  ASSUME IntegersFit
  PROVE  JsonSpec => []JsonInv
<1>1. JsonInit => JsonInv  BY JsonStarts
<1>2. JsonInv /\ [JsonNext]_jsonVars => JsonInv'  BY JsonCalls
<1> QED  BY <1>1, <1>2, PTL DEF JsonSpec

(* What json.c wrote is at any time the beginning of a JSON text: none of  *)
(* the calls of JsonStream in any state, no nesting and no place at which  *)
(* json_put or json_write flushes the buffer makes it anything else, for   *)
(* every size of the buffer, as long as integers fit into the buffer of    *)
(* json_integer.                                                           *)
THEOREM AlwaysWritesJson ==
  ASSUME IntegersFit
  PROVE  JsonSpec => []AlwaysJson
<1>1. JsonInv => AlwaysJson  BY GrownParts DEF JsonInv, AlwaysJson
<1> QED  BY <1>1, JsonInvHolds, PTL

(* The state JSON_STATE_END of json.c is reached when and only when a      *)
(* whole value is written, and nesting_idx counts the brackets that are    *)
(* open, also after a misplaced call silenced the writer.                  *)
THEOREM EndMeansComplete ==
  ASSUME IntegersFit
  PROVE  JsonSpec => []EndIsComplete
<1>1. JsonInv => EndIsComplete
  <2> SUFFICES ASSUME JsonInv PROVE EndIsComplete  OBVIOUS
  <2>1. /\ Grown(Text, nesting) /\ Stands(state, Text, nesting) /\ state \in States
    BY DEF JsonInv
  <2>2. /\ IsPrefixOfJson(Text) /\ Level(Text, Len(Text)) = Len(nesting)
        /\ nesting \in Seq({"OBJECT", "ARRAY"})
    BY <2>1, GrownParts
  <2>3. nesting = <<>> <=> Len(nesting) = 0  BY <2>2, EmptySeq
  <2>4. CASE state = "END"
    <3>1. IsJson(Text)  BY <2>1, <2>2, <2>3, <2>4 DEF Stands, IsJson
    <3> QED  BY <2>2, <2>4, <3>1 DEF EndIsComplete
  <2>5. CASE state = "START"
    <3>1. Len(Text) = 0  BY <2>1, <2>5 DEF Stands
    <3>2. ~IsJson(Text)  BY <3>1 DEF IsJson, ValueDone
    <3> QED  BY <2>2, <2>5, <3>2 DEF EndIsComplete
  <2>6. CASE state = "ERROR"  BY <2>2, <2>6 DEF EndIsComplete
  <2>7. CASE state \notin {"START", "END", "ERROR"}
    <3>1. nesting # <<>>  BY <2>1, <2>7 DEF Stands, States
    <3>2. ~IsJson(Text)  BY <2>2, <2>3, <3>1 DEF IsJson
    <3> QED  BY <2>2, <2>7, <3>2 DEF EndIsComplete
  <2> QED  BY <2>4, <2>5, <2>6, <2>7
<1> QED  BY <1>1, JsonInvHolds, PTL

------------------------------------------------------------------------------
(* The TLV codec.  Divisions.                                              *)
LEMMA Dividing ==
  ASSUME NEW C \in Nat \ {0}, NEW a \in Nat
  PROVE  /\ a \div C \in Nat /\ a % C \in 0..(C - 1)
         /\ a = (C * (a \div C)) + (a % C)
OBVIOUS

LEMMA Quotients ==
  ASSUME NEW C \in Nat \ {0}, NEW q \in Nat, NEW r \in 0..(C - 1)
  PROVE  ((C * q) + r) \div C = q /\ ((C * q) + r) % C = r
OBVIOUS

LEMMA Multiples ==
  ASSUME NEW C \in Nat \ {0}, NEW a \in Nat, NEW b \in Nat, a % C = 0
  PROVE  (a + b) % C = b % C
<1>1. PICK q \in Nat : a = C * q
  <2>1. a \div C \in Nat /\ a = (C * (a \div C)) + (a % C)  BY Dividing
  <2> DEFINE d == a \div C
  <2>2. d \in Nat /\ a = (C * d) + 0  BY <2>1
  <2> HIDE DEF d
  <2>3. a = C * d  BY <2>2
  <2> QED  BY <2>2, <2>3
<1>2. PICK p \in Nat, r \in 0..(C - 1) : b = (C * p) + r /\ b % C = r
  <2>1. b \div C \in Nat /\ b % C \in 0..(C - 1) /\ b = (C * (b \div C)) + (b % C)
    BY Dividing
  <2> QED  BY <2>1
<1>3. a + b = (C * (q + p)) + r  BY <1>1, <1>2
<1>4. q + p \in Nat  OBVIOUS
<1>5. ((C * (q + p)) + r) % C = r  BY <1>4, Quotients
<1> QED  BY <1>2, <1>3, <1>5

LEMMA CountOfChunks ==
  ASSUME NEW v \in Seq(Nat)
  PROVE  /\ ChunkCount(v) \in Nat
         /\ v # <<>> => /\ ChunkCount(v) # 0
                        /\ (ChunkCount(v) - 1) * Chunk < Len(v)
                        /\ Len(v) =< ChunkCount(v) * Chunk
<1> DEFINE L == Len(v)
           a == L + Chunk - 1
<1>1. L \in Nat /\ (v # <<>> => L # 0) /\ Chunk \in Nat \ {0}
  BY LenProperties, EmptySeq, ChunkAssumption
<1>2. ChunkCount(v) = a \div Chunk  BY DEF ChunkCount
<1>3. a \in Nat  BY <1>1
<1> HIDE DEF a
<1>4. a \div Chunk \in Nat /\ a % Chunk \in 0..(Chunk - 1)
      /\ a = (Chunk * (a \div Chunk)) + (a % Chunk)
  BY <1>1, <1>3, Dividing
<1>5. a = L + Chunk - 1  BY DEF a
<1> HIDE DEF L
<1> DEFINE q == a \div Chunk
           r == a % Chunk
           p == Chunk * q
<1>6. q \in Nat /\ r \in 0..(Chunk - 1) /\ p \in Nat /\ L + Chunk - 1 = p + r
  <2>1. q \in Nat /\ r \in 0..(Chunk - 1) /\ L + Chunk - 1 = p + r  BY <1>4, <1>5
  <2> HIDE DEF q, r
  <2> QED  BY <1>1, <2>1
<1> HIDE DEF r, q
<1>7. q # 0 => q - 1 \in Nat /\ (q - 1) * Chunk = p - Chunk /\ q * Chunk = p
  BY <1>1, <1>6
<1>8. q = 0 => p = 0  BY <1>1, <1>6
<1> HIDE DEF p
<1>9. L # 0 => q # 0 /\ p - Chunk < L /\ L =< p
  BY <1>1, <1>6, <1>8
<1>10. ChunkCount(v) = q  BY <1>2 DEF q
<1> QED  BY <1>1, <1>6, <1>7, <1>9, <1>10 DEF L

------------------------------------------------------------------------------
(* Sizes and merged lists grow with the list.                              *)
AnyTlv == [type : Nat, value : Seq(Nat)]

LEMMA OurTlvs == TLVs \subseteq AnyTlv /\ Seq(TLVs) \subseteq Seq(AnyTlv)
<1>1. TLVs \subseteq AnyTlv  BY ValueAssumption DEF TLVs, AnyTlv
<1> QED  BY <1>1

Cost(tlv) == Len(tlv.value) + 2 * ChunkCount(tlv.value)

Sizes(list) == [k \in 1..Len(list) |-> [m \in Nat |-> m + Cost(list[k])]]

LEMMA CostFacts == \A x \in AnyTlv : Cost(x) \in Nat
<1>1. ASSUME NEW x \in AnyTlv PROVE Cost(x) \in Nat
  <2>1. x.value \in Seq(Nat)  BY DEF AnyTlv
  <2>2. Len(x.value) \in Nat /\ ChunkCount(x.value) \in Nat
    BY <2>1, CountOfChunks, LenProperties
  <2> QED  BY <2>2 DEF Cost
<1> QED  BY <1>1

LEMMA SizeIterates ==
  ASSUME NEW l \in Seq(AnyTlv)
  PROVE  /\ Len(l) \in Nat
         /\ \E f : /\ f \in [0..Len(l) -> Nat] /\ Iterates(f, 0, Sizes(l), Len(l))
                   /\ RequiredSize(l) = f[Len(l)]
<1> DEFINE n == Len(l)
           Body(g, k) == IF k = 0 THEN 0
                         ELSE g[k - 1] + Len(l[k].value) + 2 * ChunkCount(l[k].value)
<1>1. n \in Nat /\ \A k \in 1..n : l[k] \in AnyTlv
  BY LenProperties, ElementOfSeq
<1>2. \A k \in 1..n, m \in Nat : Sizes(l)[k][m] = m + Cost(l[k])  BY DEF Sizes
<1>3. Sizes(l) \in [1..n -> [Nat -> Nat]]
  <2>1. \A k \in 1..n, m \in Nat : m + Cost(l[k]) \in Nat  BY <1>1, CostFacts
  <2> QED  BY <2>1 DEF Sizes
<1> HIDE DEF n
<1>4. \A m \in Nat, k \in 1..n :
        m + Len(l[k].value) + 2 * ChunkCount(l[k].value) = Sizes(l)[k][m]
  <2>1. ASSUME NEW m \in Nat, NEW k \in 1..n
        PROVE  m + Len(l[k].value) + 2 * ChunkCount(l[k].value) = Sizes(l)[k][m]
    <3>1. l[k].value \in Seq(Nat)  BY <1>1 DEF AnyTlv
    <3>2. Len(l[k].value) \in Nat /\ ChunkCount(l[k].value) \in Nat
      BY <3>1, CountOfChunks, LenProperties
    <3> QED  BY <1>2, <3>2 DEF Cost
  <2> QED  BY <2>1
<1>5. PICK f \in [0..n -> Nat] : Iterates(f, 0, Sizes(l), n)  BY <1>1, <1>3, Iteration
<1>6. f = [k \in 0..n |-> Body(f, k)]
  <2>1. ASSUME NEW k \in 0..n
        PROVE  Body(f, k) = IF k = 0 THEN 0 ELSE Sizes(l)[k][f[k - 1]]
    <3>1. k # 0 => k \in 1..n /\ f[k - 1] \in Nat  BY <1>1
    <3> QED  BY <1>4, <3>1
  <2> HIDE DEF Body
  <2> QED  BY <1>5, <2>1 DEF Iterates
<1>7. \E h : h = [k \in 0..n |-> Body(h, k)] /\ RequiredSize(l) = h[n]
  <2>1. f = [k \in 0..Len(l) |->
               IF k = 0 THEN 0
               ELSE f[k - 1] + Len(l[k].value) + 2 * ChunkCount(l[k].value)]
    BY <1>6, Zenon DEF n
  <2>2. \E h : /\ h = [k \in 0..Len(l) |->
                        IF k = 0 THEN 0
                        ELSE h[k - 1] + Len(l[k].value) + 2 * ChunkCount(l[k].value)]
               /\ RequiredSize(l) = h[Len(l)]
    BY <2>1, Zenon DEF RequiredSize
  <2> QED  BY <2>2, Zenon DEF n
<1>8. PICK h : h = [k \in 0..n |-> Body(h, k)] /\ RequiredSize(l) = h[n]  BY <1>7
<1>9. h = [k \in 0..n |-> h[k]]
  <2> HIDE DEF Body
  <2> QED  BY <1>8
<1>10. h[0] = 0  BY <1>1, <1>8
<1>11. ASSUME NEW k \in 1..n, h[k - 1] \in Nat PROVE h[k] = Sizes(l)[k][h[k - 1]]
  <2>1. k \in 0..n /\ k # 0  BY <1>1
  <2>2. h[k] = h[k - 1] + Len(l[k].value) + 2 * ChunkCount(l[k].value)  BY <1>8, <2>1
  <2> QED  BY <1>4, <1>11, <2>2
<1> HIDE DEF Body
<1>12. h \in [0..n -> Nat] /\ Iterates(h, 0, Sizes(l), n)
  BY <1>1, <1>3, <1>9, <1>10, <1>11, Iterating
<1> QED  BY <1>1, <1>8, <1>12 DEF n

LEMMA SizeFacts ==
  ASSUME NEW l \in Seq(AnyTlv), NEW x \in AnyTlv
  PROVE  /\ RequiredSize(l) \in Nat /\ RequiredSize(<<>>) = 0
         /\ RequiredSize(Append(l, x)) = RequiredSize(l) + Cost(x)
<1> DEFINE n == Len(l)
           m == Append(l, x)
<1>1. /\ m \in Seq(AnyTlv) /\ Len(m) = n + 1 /\ m[n + 1] = x
      /\ \A k \in 1..n : m[k] = l[k]
  BY AppendProperties
<1> HIDE DEF m
<1>2. PICK f : /\ f \in [0..n -> Nat] /\ Iterates(f, 0, Sizes(l), n)
               /\ RequiredSize(l) = f[n]
  BY SizeIterates
<1>3. n \in Nat  BY SizeIterates
<1> HIDE DEF n
<1>4. PICK g : Iterates(g, 0, Sizes(m), n + 1) /\ RequiredSize(m) = g[n + 1]
  <2>1. PICK g : Iterates(g, 0, Sizes(m), Len(m)) /\ RequiredSize(m) = g[Len(m)]
    BY <1>1, SizeIterates
  <2> QED  BY <1>1, <2>1
<1>5. g[n + 1] = Sizes(m)[n + 1][f[n]]
  <2>1. \A k \in 1..n : Sizes(l)[k] = Sizes(m)[k]
    <3>1. ASSUME NEW k \in 1..n PROVE Sizes(l)[k] = Sizes(m)[k]
      <4>1. k \in 1..Len(m) /\ k \in 1..Len(l) /\ m[k] = l[k]  BY <1>1, <1>3 DEF n
      <4> QED  BY <4>1 DEF Sizes
    <3> QED  BY <3>1
  <2> QED  BY ONLY <1>2, <1>3, <1>4, <2>1, IterationStep, SMTT(30)
<1>6. f[n] \in Nat /\ n + 1 \in 1..Len(m)  BY <1>1, <1>2, <1>3
<1>7. Sizes(m)[n + 1][f[n]] = f[n] + Cost(x)  BY <1>1, <1>6 DEF Sizes
<1>8. RequiredSize(<<>>) = 0
  <2>1. <<>> \in Seq(AnyTlv) /\ Len(<<>>) = 0  OBVIOUS
  <2>2. PICK h : Iterates(h, 0, Sizes(<<>>), 0) /\ RequiredSize(<<>>) = h[0]
    BY <2>1, SizeIterates
  <2> QED  BY <2>2 DEF Iterates
<1> QED  BY <1>2, <1>4, <1>5, <1>6, <1>7, <1>8 DEF m

LEMMA MergeFacts ==
  ASSUME NEW l \in Seq(AnyTlv), NEW x \in AnyTlv
  PROVE  Merge(l, x) \in Seq(AnyTlv) /\ Merge(l, x) # <<>>
<1>1. Append(l, x) \in Seq(AnyTlv) /\ Append(l, x) # <<>>  BY AppendProperties
<1>2. ASSUME l # <<>>
      PROVE  LET y == [x EXCEPT !.value = Last(l).value \o @]
             IN  Append(Front(l), y) \in Seq(AnyTlv) /\ Append(Front(l), y) # <<>>
  <2>1. Len(l) \in Nat /\ Len(l) # 0  BY <1>2, LenProperties, EmptySeq
  <2>2. Last(l) \in AnyTlv
    <3>1. Len(l) \in 1..Len(l)  BY <2>1
    <3> QED  BY <3>1, ElementOfSeq DEF Last
  <2>3. Front(l) \in Seq(AnyTlv)  BY <2>1 DEF Front
  <2> DEFINE y == [x EXCEPT !.value = Last(l).value \o @]
  <2>4. y \in AnyTlv
    <3>1. Last(l).value \in Seq(Nat) /\ x.value \in Seq(Nat)  BY <2>2 DEF AnyTlv
    <3>2. Last(l).value \o x.value \in Seq(Nat)  BY <3>1, ConcatProperties
    <3> QED  BY <3>2 DEF AnyTlv
  <2> HIDE DEF y
  <2>5. Append(Front(l), y) \in Seq(AnyTlv) /\ Append(Front(l), y) # <<>>
    BY <2>3, <2>4, AppendProperties
  <2> QED  BY <2>5 DEF y
<1> QED  BY <1>1, <1>2 DEF Merge

Merges(list) == [k \in 1..Len(list) |-> [m \in Seq(AnyTlv) |-> Merge(m, list[k])]]

LEMMA MergeIterates ==
  ASSUME NEW l \in Seq(AnyTlv)
  PROVE  /\ Len(l) \in Nat
         /\ \E f : /\ f \in [0..Len(l) -> Seq(AnyTlv)] /\ Iterates(f, <<>>, Merges(l), Len(l))
                   /\ Merged(l) = f[Len(l)]
<1> DEFINE n == Len(l)
           T == Seq(AnyTlv)
           Body(g, k) == IF k = 0 THEN <<>> ELSE Merge(g[k - 1], l[k])
<1>1. n \in Nat /\ (\A k \in 1..n : l[k] \in AnyTlv) /\ <<>> \in T
  BY LenProperties, ElementOfSeq
<1>2. \A k \in 1..n, m \in T : Merges(l)[k][m] = Merge(m, l[k])  BY DEF Merges
<1>3. Merges(l) \in [1..n -> [T -> T]]
  <2>1. \A k \in 1..n, m \in T : Merge(m, l[k]) \in T  BY <1>1, MergeFacts
  <2> QED  BY <2>1 DEF Merges
<1> HIDE DEF n, T
<1>4. PICK f \in [0..n -> T] : Iterates(f, <<>>, Merges(l), n)  BY <1>1, <1>3, Iteration
<1>5. f = [k \in 0..n |-> Body(f, k)]
  <2>1. ASSUME NEW k \in 0..n
        PROVE  Body(f, k) = IF k = 0 THEN <<>> ELSE Merges(l)[k][f[k - 1]]
    <3>1. k # 0 => k \in 1..n /\ f[k - 1] \in T  BY <1>1
    <3> QED  BY <1>2, <3>1
  <2> HIDE DEF Body
  <2> QED  BY <1>4, <2>1 DEF Iterates
<1>6. \E h : h = [k \in 0..n |-> Body(h, k)] /\ Merged(l) = h[n]
  <2>1. f = [k \in 0..Len(l) |-> IF k = 0 THEN <<>> ELSE Merge(f[k - 1], l[k])]
    BY <1>5, Zenon DEF n
  <2>2. \E h : /\ h = [k \in 0..Len(l) |-> IF k = 0 THEN <<>> ELSE Merge(h[k - 1], l[k])]
               /\ Merged(l) = h[Len(l)]
    BY <2>1, Zenon DEF Merged
  <2> QED  BY <2>2, Zenon DEF n
<1>7. PICK h : h = [k \in 0..n |-> Body(h, k)] /\ Merged(l) = h[n]  BY <1>6
<1>8. h = [k \in 0..n |-> h[k]]
  <2> HIDE DEF Body
  <2> QED  BY <1>7
<1>9. h[0] = <<>>  BY <1>1, <1>7
<1>10. ASSUME NEW k \in 1..n, h[k - 1] \in T PROVE h[k] = Merges(l)[k][h[k - 1]]
  <2>1. k \in 0..n /\ k # 0  BY <1>1
  <2>2. h[k] = Merge(h[k - 1], l[k])  BY <1>7, <2>1
  <2> QED  BY <1>2, <1>10, <2>2
<1> HIDE DEF Body
<1>11. h \in [0..n -> T] /\ Iterates(h, <<>>, Merges(l), n)
  BY <1>1, <1>3, <1>8, <1>9, <1>10, Iterating
<1> QED  BY <1>1, <1>7, <1>11 DEF n, T

(* What a list merges to is made one value after the other.                *)
LEMMA MergedFacts ==
  ASSUME NEW l \in Seq(AnyTlv), NEW x \in AnyTlv
  PROVE  /\ Merged(l) \in Seq(AnyTlv) /\ Merged(<<>>) = <<>>
         /\ Merged(Append(l, x)) = Merge(Merged(l), x)
<1> DEFINE n == Len(l)
           m == Append(l, x)
<1>1. /\ m \in Seq(AnyTlv) /\ Len(m) = n + 1 /\ m[n + 1] = x
      /\ \A k \in 1..n : m[k] = l[k]
  BY AppendProperties
<1> HIDE DEF m
<1>2. PICK f : /\ f \in [0..n -> Seq(AnyTlv)] /\ Iterates(f, <<>>, Merges(l), n)
               /\ Merged(l) = f[n]
  BY MergeIterates
<1>3. n \in Nat  BY MergeIterates
<1> HIDE DEF n
<1>4. PICK g : Iterates(g, <<>>, Merges(m), n + 1) /\ Merged(m) = g[n + 1]
  <2>1. PICK g : Iterates(g, <<>>, Merges(m), Len(m)) /\ Merged(m) = g[Len(m)]
    BY <1>1, MergeIterates
  <2> QED  BY <1>1, <2>1
<1>5. g[n + 1] = Merges(m)[n + 1][f[n]]
  <2>1. \A k \in 1..n : Merges(l)[k] = Merges(m)[k]
    <3>1. ASSUME NEW k \in 1..n PROVE Merges(l)[k] = Merges(m)[k]
      <4>1. k \in 1..Len(m) /\ k \in 1..Len(l) /\ m[k] = l[k]  BY <1>1, <1>3 DEF n
      <4> QED  BY <4>1 DEF Merges
    <3> QED  BY <3>1
  <2> QED  BY ONLY <1>2, <1>3, <1>4, <2>1, IterationStep, SMTT(30)
<1>6. f[n] \in Seq(AnyTlv) /\ n + 1 \in 1..Len(m)  BY <1>1, <1>2, <1>3
<1>7. Merges(m)[n + 1][f[n]] = Merge(f[n], x)  BY <1>1, <1>6 DEF Merges
<1>8. Merged(<<>>) = <<>>
  <2>1. <<>> \in Seq(AnyTlv) /\ Len(<<>>) = 0  OBVIOUS
  <2>2. PICK h : Iterates(h, <<>>, Merges(<<>>), 0) /\ Merged(<<>>) = h[0]
    BY <2>1, MergeIterates
  <2> QED  BY <2>2 DEF Iterates
<1> QED  BY <1>2, <1>4, <1>5, <1>6, <1>7, <1>8 DEF m

------------------------------------------------------------------------------
(* Chunks as they are written one after the other.                         *)
Chunks == {c \in AnyTlv : Len(c.value) \in 1..Chunk}

Wire(c) == <<c.type, Len(c.value)>> \o c.value

Wires(cs) == FlattenSeq([k \in 1..Len(cs) |-> Wire(cs[k])])

(* A list that is given by its elements, with one element more.            *)
LEMMA OneMore ==
  ASSUME NEW S, NEW n \in Nat, NEW x \in S, NEW s \in [1..n -> S],
         NEW t \in [1..(n + 1) -> S], \A q \in 1..n : t[q] = s[q], t[n + 1] = x
  PROVE  s \in Seq(S) /\ t = Append(s, x)
<1>1. s \in Seq(S) /\ Len(s) = n  OBVIOUS
<1>2. t \in Seq(S) /\ Len(t) = n + 1  OBVIOUS
<1>3. /\ Append(s, x) \in Seq(S) /\ Len(Append(s, x)) = n + 1
      /\ \A q \in 1..n : Append(s, x)[q] = s[q]
      /\ Append(s, x)[n + 1] = x
  BY <1>1, AppendProperties
<1>4. \A q \in 1..(n + 1) : t[q] = Append(s, x)[q]
  <2>1. ASSUME NEW q \in 1..(n + 1) PROVE t[q] = Append(s, x)[q]
    <3>1. q = n + 1 \/ (q \in 1..n /\ q # n + 1)  OBVIOUS
    <3> QED  BY <1>3, <3>1
  <2> QED  BY <2>1
<1> QED  BY <1>1, <1>2, <1>3, <1>4, SeqEqual

LEMMA WireFacts ==
  ASSUME NEW c \in AnyTlv
  PROVE  /\ Wire(c) \in Seq(Nat) /\ Len(c.value) \in Nat
         /\ Len(Wire(c)) = Len(c.value) + 2
         /\ Wire(c)[1] = c.type /\ Wire(c)[2] = Len(c.value)
         /\ \A q \in 1..Len(c.value) : Wire(c)[q + 2] = c.value[q]
<1>1. c.type \in Nat /\ c.value \in Seq(Nat) /\ Len(c.value) \in Nat
  BY LenProperties DEF AnyTlv
<1> DEFINE h == <<c.type, Len(c.value)>>
<1>2. h \in Seq(Nat) /\ Len(h) = 2 /\ h[1] = c.type /\ h[2] = Len(c.value)
  BY <1>1
<1> DEFINE v == c.value
<1>3. Wire(c) = h \o v  BY DEF Wire
<1> HIDE DEF h, v
<1>4. v \in Seq(Nat) /\ Len(v) \in Nat  BY <1>1 DEF v
<1>5. /\ h \o v \in Seq(Nat) /\ Len(h \o v) = 2 + Len(v)
      /\ \A q \in 1..(2 + Len(v)) : (h \o v)[q] = IF q <= 2 THEN h[q] ELSE v[q - 2]
  <2>1. /\ h \o v \in Seq(Nat) /\ Len(h \o v) = Len(h) + Len(v)
        /\ \A q \in 1..(Len(h) + Len(v)) :
             (h \o v)[q] = IF q <= Len(h) THEN h[q] ELSE v[q - Len(h)]
    <3>1. h \in Seq(Nat) /\ v \in Seq(Nat)  BY <1>2, <1>4
    <3> QED  BY ONLY <3>1, ConcatProperties
  <2> QED  BY <1>2, <2>1
<1>6. (h \o v)[1] = h[1] /\ (h \o v)[2] = h[2]
  <2>1. 1 \in 1..(2 + Len(v)) /\ 2 \in 1..(2 + Len(v))  BY <1>4
  <2> QED  BY <1>5, <2>1
<1>7. ASSUME NEW q \in 1..Len(v) PROVE (h \o v)[q + 2] = v[q]
  <2>1. q + 2 \in 1..(2 + Len(v)) /\ ~(q + 2 <= 2) /\ (q + 2) - 2 = q  BY <1>4
  <2> QED  BY <1>5, <2>1
<1>8. Len(v) + 2 = 2 + Len(v)  BY <1>4
<1> QED  BY <1>2, <1>3, <1>4, <1>5, <1>6, <1>7, <1>8 DEF v

LEMMA WiresFacts ==
  ASSUME NEW cs \in Seq(AnyTlv), NEW c \in AnyTlv
  PROVE  /\ Wires(cs) \in Seq(Nat) /\ Wires(<<>>) = <<>>
         /\ Wires(Append(cs, c)) = Wires(cs) \o Wire(c)
<1> DEFINE n == Len(cs)
           m == Append(cs, c)
           s == [k \in 1..n |-> Wire(cs[k])]
           t == [k \in 1..Len(m) |-> Wire(m[k])]
<1>1. /\ m \in Seq(AnyTlv) /\ Len(m) = n + 1 /\ m[n + 1] = c
      /\ \A k \in 1..n : m[k] = cs[k]
  BY AppendProperties
<1>2. n \in Nat /\ \A k \in 1..n : cs[k] \in AnyTlv  BY LenProperties, ElementOfSeq
<1>3. Wire(c) \in Seq(Nat) /\ \A k \in 1..n : Wire(cs[k]) \in Seq(Nat)  BY <1>2, WireFacts
<1>4. s \in [1..n -> Seq(Nat)]  BY <1>3
<1>5. \A k \in 1..(n + 1) : Wire(m[k]) \in Seq(Nat)
  <2>1. \A k \in 1..(n + 1) : k = n + 1 \/ k \in 1..n  BY <1>2
  <2> QED  BY <1>1, <1>3, <2>1
<1>6. t \in [1..(n + 1) -> Seq(Nat)] /\ t[n + 1] = Wire(c) /\ \A k \in 1..n : t[k] = s[k]
  <2>1. 1..Len(m) = 1..(n + 1)  BY <1>1
  <2>2. n + 1 \in 1..(n + 1) /\ \A k \in 1..n : k \in 1..(n + 1)  BY <1>2
  <2>3. t = [k \in 1..(n + 1) |-> Wire(m[k])]  BY <2>1
  <2> HIDE DEF t, m, n
  <2>4. t \in [1..(n + 1) -> Seq(Nat)]  BY <1>5, <2>3
  <2>5. t[n + 1] = Wire(c)  BY <1>1, <2>2, <2>3
  <2>6. ASSUME NEW k \in 1..n PROVE t[k] = s[k]
    <3>1. t[k] = Wire(m[k]) /\ m[k] = cs[k]  BY <1>1, <2>2, <2>3
    <3> QED  BY <3>1
  <2> QED  BY <2>4, <2>5, <2>6
<1>7. Wires(cs) = FlattenSeq(s) /\ Wires(m) = FlattenSeq(t)  BY DEF Wires
<1>8. Wires(<<>>) = <<>>  BY DEF Wires, FlattenSeq
<1> HIDE DEF s, t, m, n
<1>9. s \in Seq(Seq(Nat)) /\ t = Append(s, Wire(c))
  BY <1>2, <1>3, <1>4, <1>6, OneMore
<1>10. FlattenSeq(s) \in Seq(Nat) /\ FlattenSeq(Append(s, Wire(c))) = FlattenSeq(s) \o Wire(c)
  BY <1>3, <1>9, FlattenAppend
<1> QED  BY <1>7, <1>8, <1>9, <1>10 DEF m

LEMMA PieceFacts ==
  ASSUME NEW v \in Seq(Nat), v # <<>>, NEW k \in 1..ChunkCount(v)
  PROVE  /\ Piece(v, k) \in Seq(Nat) /\ Len(Piece(v, k)) \in 1..Chunk
         /\ k * Chunk \in Nat /\ (k - 1) * Chunk \in Nat /\ k * Chunk = (k - 1) * Chunk + Chunk
         /\ (k - 1) * Chunk + Len(Piece(v, k)) = IF k * Chunk < Len(v) THEN k * Chunk ELSE Len(v)
         /\ k # ChunkCount(v) => k * Chunk < Len(v)
         /\ k = ChunkCount(v) => ~(k * Chunk < Len(v))
         /\ \A q \in 1..Len(Piece(v, k)) : Piece(v, k)[q] = v[(k - 1) * Chunk + q]
<1> DEFINE L == Len(v)
           N == ChunkCount(v)
           a == (k - 1) * Chunk
           z == k * Chunk
<1>1. L \in Nat /\ Chunk \in Nat \ {0} /\ N \in Nat /\ N # 0
      /\ (N - 1) * Chunk < L /\ L =< N * Chunk
  BY CountOfChunks, LenProperties, ChunkAssumption
<1> HIDE DEF L, N
<1>2. k \in 1..N  BY DEF N
<1>3. a \in Nat /\ z \in Nat /\ z = a + Chunk  BY <1>1, <1>2
<1>4. a < L /\ (k # N => z < L) /\ (k = N => ~(z < L))
  <2>1. k - 1 <= N - 1 /\ (k # N => k <= N - 1)  BY <1>1, <1>2
  <2>2. (k - 1) * Chunk <= (N - 1) * Chunk  BY <1>1, <1>2, <2>1
  <2>3. k # N => k * Chunk <= (N - 1) * Chunk  BY <1>1, <1>2, <2>1
  <2>4. (N - 1) * Chunk \in Int  BY <1>1
  <2> DEFINE y == (N - 1) * Chunk
  <2>5. y \in Int /\ y < L /\ a <= y /\ (k # N => z <= y)  BY <1>1, <2>2, <2>3, <2>4
  <2>6. k = N => L <= z  BY <1>1
  <2> HIDE DEF y, a, z
  <2> QED  BY <1>1, <1>3, <2>5, <2>6
<1> HIDE DEF a, z
<1> DEFINE e == IF z < L THEN z ELSE L
<1>5. e \in Nat /\ e - a \in 1..Chunk /\ e <= L /\ a + 1 \in 1..L
  BY <1>1, <1>3, <1>4
<1>6. Piece(v, k) = SubSeq(v, a + 1, e)  BY DEF Piece, a, z, L
<1> HIDE DEF e
<1>7. /\ Piece(v, k) \in Seq(Nat) /\ Len(Piece(v, k)) = e - a
      /\ \A q \in 1..(e - a) : Piece(v, k)[q] = v[a + q]
  <2>1. e \in 1..L /\ a + 1 \in 1..L /\ a + 1 <= e  BY <1>1, <1>3, <1>5
  <2>2. \A q \in (a + 1)..e : v[q] \in Nat
    <3>1. \A q \in (a + 1)..e : q \in 1..Len(v)  BY <1>3, <2>1 DEF L
    <3> QED  BY <3>1, ElementOfSeq
  <2>3. SubSeq(v, a + 1, e) \in Seq(Nat) /\ Len(SubSeq(v, a + 1, e)) = e - a
        /\ \A q \in 1..(e - a) : SubSeq(v, a + 1, e)[q] = v[a + q]
    BY <1>3, <1>5, <2>1, <2>2, SubSeqProperties
  <2> QED  BY <1>6, <2>3
<1>8. a + (e - a) = e  BY <1>3, <1>5
<1> QED  BY <1>3, <1>4, <1>5, <1>7, <1>8 DEF a, z, e, L, N

LEMMA Joined ==
  ASSUME NEW S, NEW a \in Seq(S), NEW b \in Seq(S), NEW c \in Seq(S), NEW x \in S
  PROVE  /\ a \o b \in Seq(S) /\ (a \o b) \o c = a \o (b \o c)
         /\ a \o Append(b, x) = Append(a \o b, x)
         /\ a \o <<>> = a /\ <<>> \o a = a /\ Append(a, x) = a \o <<x>>
<1>1. a \o b \in Seq(S) /\ b \o c \in Seq(S) /\ a \o <<>> = a /\ <<>> \o a = a
  BY ConcatProperties, ConcatEmptySeq
<1>2. (a \o b) \o c = a \o (b \o c)  BY ConcatAssociative
<1>3. Append(a, x) = a \o <<x>> /\ Append(b, x) = b \o <<x>> /\ Append(a \o b, x) = (a \o b) \o <<x>>
  BY <1>1, AppendIsConcat
<1>4. <<x>> \in Seq(S)  OBVIOUS
<1>5. (a \o b) \o <<x>> = a \o (b \o <<x>>)  BY <1>4, ConcatAssociative
<1> QED  BY <1>1, <1>2, <1>3, <1>5

LEMMA BytesJoined ==
  \A p, q, r \in Seq(Nat) : /\ p \o q \in Seq(Nat) /\ (p \o q) \o r = p \o (q \o r)
                            /\ Len(p) \in Nat /\ Len(p \o q) = Len(p) + Len(q)
BY ConcatProperties, ConcatAssociative, LenProperties

LEMMA WiresJoined ==
  ASSUME NEW a \in Seq(AnyTlv)
  PROVE  \A r \in Seq(AnyTlv) : Wires(a \o r) = Wires(a) \o Wires(r)
<1> DEFINE P == {r \in Seq(AnyTlv) : Wires(a \o r) = Wires(a) \o Wires(r)}
<1>1. <<>> \in P
  <2>1. <<>> \in Seq(AnyTlv) /\ a \o <<>> = a  BY ConcatEmptySeq
  <2>2. Wires(a) \in Seq(Nat)
    <3>1. CASE AnyTlv # {}  BY <3>1, WiresFacts
    <3>2. <<>> \in Seq(Nat) /\ 0 \in Nat  OBVIOUS
    <3>3. [type |-> 0, value |-> <<>>] \in AnyTlv  BY <3>2 DEF AnyTlv
    <3> QED  BY <3>1, <3>3
  <2>3. Wires(<<>>) = <<>>  BY DEF Wires, FlattenSeq
  <2>4. Wires(a) \o <<>> = Wires(a)  BY <2>2, ConcatEmptySeq
  <2> QED  BY <2>1, <2>3, <2>4
<1>2. ASSUME NEW r \in Seq(AnyTlv), NEW c \in AnyTlv, r \in P PROVE Append(r, c) \in P
  <2>1. Append(r, c) \in Seq(AnyTlv) /\ a \o r \in Seq(AnyTlv)
        /\ a \o Append(r, c) = Append(a \o r, c)
    BY AppendProperties, Joined
  <2>2. Wires(a \o r) = Wires(a) \o Wires(r)  BY <1>2
  <2>3. /\ Wires(a) \in Seq(Nat) /\ Wires(r) \in Seq(Nat)
        /\ Wires(Append(a \o r, c)) = Wires(a \o r) \o Wire(c)
        /\ Wires(Append(r, c)) = Wires(r) \o Wire(c)
    BY <2>1, WiresFacts
  <2>4. Wire(c) \in Seq(Nat)  BY WireFacts
  <2>5. (Wires(a) \o Wires(r)) \o Wire(c) = Wires(a) \o (Wires(r) \o Wire(c))
    <3> DEFINE p == Wires(a)
               q == Wires(r)
               w == Wire(c)
    <3>1. p \in Seq(Nat) /\ q \in Seq(Nat) /\ w \in Seq(Nat)  BY <2>3, <2>4
    <3> HIDE DEF p, q, w
    <3>2. (p \o q) \o w = p \o (q \o w)  BY ONLY <3>1, BytesJoined
    <3> QED  BY <3>2 DEF p, q, w
  <2> QED  BY <2>1, <2>2, <2>3, <2>5
<1> HIDE DEF P
<1>3. Seq(AnyTlv) \subseteq P  BY <1>1, <1>2, ListInduction
<1> QED  BY <1>3 DEF P

(* The k-th chunk of x.                                                    *)
Cut(x, k) == [type |-> x.type, value |-> Piece(x.value, k)]

LEMMA CutFacts ==
  ASSUME NEW x \in AnyTlv, x.value # <<>>, NEW k \in 1..ChunkCount(x.value)
  PROVE  Cut(x, k) \in Chunks /\ Cut(x, k) \in AnyTlv
<1>1. x.value \in Seq(Nat) /\ x.type \in Nat  BY DEF AnyTlv
<1>2. Piece(x.value, k) \in Seq(Nat) /\ Len(Piece(x.value, k)) \in 1..Chunk
  BY <1>1, PieceFacts
<1> QED  BY <1>1, <1>2 DEF Cut, Chunks, AnyTlv

LEMMA FormattedSteps ==
  ASSUME NEW x \in AnyTlv, x.value # <<>>
  PROVE  /\ ChunkCount(x.value) \in Nat /\ ChunkCount(x.value) # 0
         /\ \E f : /\ f \in [0..ChunkCount(x.value) -> Seq(Nat)]
                   /\ f[0] = <<>> /\ Formatted(x) = f[ChunkCount(x.value)]
                   /\ \A k \in 1..ChunkCount(x.value) : f[k] = f[k - 1] \o Wire(Cut(x, k))
<1> DEFINE N == ChunkCount(x.value)
           s == [k \in 1..N |-> Wire(Cut(x, k))]
<1>1. N \in Nat /\ N # 0
  <2>1. x.value \in Seq(Nat)  BY DEF AnyTlv
  <2> QED  BY <2>1, CountOfChunks
<1>2. Formatted(x) = FlattenSeq(s)
  <2>1. \A k \in 1..N : Wire(Cut(x, k)) = LET p == Piece(x.value, k) IN <<x.type, Len(p)>> \o p
    BY DEF Wire, Cut
  <2>2. s = [k \in 1..N |-> LET p == Piece(x.value, k) IN <<x.type, Len(p)>> \o p]  BY <2>1
  <2> HIDE DEF s
  <2> QED  BY <2>2 DEF Formatted
<1>3. \A k \in 1..N : Wire(Cut(x, k)) \in Seq(Nat)  BY CutFacts, WireFacts
<1>4. s \in Seq(Seq(Nat)) /\ Len(s) = N
  <2> HIDE DEF N
  <2> QED  BY <1>1, <1>3
<1>5. \A k \in 1..N : s[k] = Wire(Cut(x, k))  OBVIOUS
<1> HIDE DEF s, N
<1>6. PICK f : /\ f \in [0..Len(s) -> Seq(Nat)]
               /\ f[0] = <<>> /\ \A k \in 1..Len(s) : f[k] = f[k - 1] \o s[k]
               /\ FlattenSeq(s) = f[Len(s)]
  <2>1. \E f \in [0..Len(s) -> Seq(Nat)] :
          /\ f[0] = <<>> /\ \A k \in 1..Len(s) : f[k] = f[k - 1] \o s[k]
          /\ FlattenSeq(s) = f[Len(s)]
    BY <1>4, FlattenSteps
  <2> QED  BY <2>1
<1>7. \A k \in 1..N : f[k] = f[k - 1] \o Wire(Cut(x, k))  BY <1>4, <1>5, <1>6
<1> QED  BY <1>1, <1>2, <1>4, <1>6, <1>7 DEF N

LEMMA FormattedType == \A x \in AnyTlv : Formatted(x) \in Seq(Nat)
<1>1. ASSUME NEW x \in AnyTlv PROVE Formatted(x) \in Seq(Nat)
  <2>1. CASE x.value = <<>>
    <3>1. <<x.type, 0>> \in Seq(Nat)  BY DEF AnyTlv
    <3> QED  BY <2>1, <3>1 DEF Formatted
  <2>2. CASE x.value # <<>>
    <3>1. PICK f : /\ f \in [0..ChunkCount(x.value) -> Seq(Nat)]
                   /\ Formatted(x) = f[ChunkCount(x.value)]
      BY <2>2, FormattedSteps
    <3>2. ChunkCount(x.value) \in Nat  BY <2>2, FormattedSteps
    <3> QED  BY <3>1, <3>2
  <2> QED  BY <2>1, <2>2
<1> QED  BY <1>1

LEMMA EncodedFacts ==
  ASSUME NEW l \in Seq(AnyTlv), NEW x \in AnyTlv
  PROVE  /\ Encoded(l) \in Seq(Nat) /\ Encoded(<<>>) = <<>>
         /\ Encoded(Append(l, x)) = Encoded(l) \o Formatted(x)
<1> DEFINE n == Len(l)
           m == Append(l, x)
           s == [k \in 1..n |-> Formatted(l[k])]
           t == [k \in 1..Len(m) |-> Formatted(m[k])]
<1>1. /\ m \in Seq(AnyTlv) /\ Len(m) = n + 1 /\ m[n + 1] = x
      /\ \A k \in 1..n : m[k] = l[k]
  BY AppendProperties
<1>2. n \in Nat /\ \A k \in 1..n : l[k] \in AnyTlv  BY LenProperties, ElementOfSeq
<1>3. Formatted(x) \in Seq(Nat) /\ \A k \in 1..n : Formatted(l[k]) \in Seq(Nat)
  BY <1>2, FormattedType
<1>4. s \in [1..n -> Seq(Nat)]  BY <1>3
<1>5. \A k \in 1..(n + 1) : Formatted(m[k]) \in Seq(Nat)
  <2>1. \A k \in 1..(n + 1) : k = n + 1 \/ k \in 1..n  BY <1>2
  <2> QED  BY <1>1, <1>3, <2>1
<1>6. t \in [1..(n + 1) -> Seq(Nat)] /\ t[n + 1] = Formatted(x) /\ \A k \in 1..n : t[k] = s[k]
  <2>1. 1..Len(m) = 1..(n + 1)  BY <1>1
  <2>2. n + 1 \in 1..(n + 1) /\ \A k \in 1..n : k \in 1..(n + 1)  BY <1>2
  <2>3. t = [k \in 1..(n + 1) |-> Formatted(m[k])]  BY <2>1
  <2> HIDE DEF t, m, n
  <2>4. t \in [1..(n + 1) -> Seq(Nat)]  BY <1>5, <2>3
  <2>5. t[n + 1] = Formatted(x)  BY <1>1, <2>2, <2>3
  <2>6. ASSUME NEW k \in 1..n PROVE t[k] = s[k]
    <3>1. t[k] = Formatted(m[k]) /\ m[k] = l[k]  BY <1>1, <2>2, <2>3
    <3> QED  BY <3>1
  <2> QED  BY <2>4, <2>5, <2>6
<1>7. Encoded(l) = FlattenSeq(s) /\ Encoded(m) = FlattenSeq(t)  BY DEF Encoded
<1>8. Encoded(<<>>) = <<>>  BY DEF Encoded, FlattenSeq
<1> HIDE DEF s, t, m, n
<1>9. s \in Seq(Seq(Nat)) /\ t = Append(s, Formatted(x))
  BY <1>2, <1>3, <1>4, <1>6, OneMore
<1>10. FlattenSeq(s) \in Seq(Nat) /\ FlattenSeq(Append(s, Formatted(x))) = FlattenSeq(s) \o Formatted(x)
  BY <1>3, <1>9, FlattenAppend
<1> QED  BY <1>7, <1>8, <1>9, <1>10 DEF m

(* How far the first k chunks reach.                                       *)
Reach(v, k) == IF k * Chunk < Len(v) THEN k * Chunk ELSE Len(v)

LEMMA ReachFacts ==
  ASSUME NEW v \in Seq(Nat), v # <<>>
  PROVE  /\ Len(v) \in Nat /\ ChunkCount(v) \in Nat /\ ChunkCount(v) # 0
         /\ Reach(v, 0) = 0 /\ Reach(v, ChunkCount(v)) = Len(v)
         /\ \A k \in 0..ChunkCount(v) : Reach(v, k) \in Nat
         /\ \A k \in 0..ChunkCount(v) : k # ChunkCount(v) =>
              /\ Reach(v, k) = k * Chunk
              /\ Reach(v, k + 1) = Reach(v, k) + Len(Piece(v, k + 1))
<1> DEFINE N == ChunkCount(v)
<1>1. Len(v) \in Nat /\ Len(v) # 0 /\ N \in Nat /\ N # 0 /\ Chunk \in Nat \ {0}
  BY CountOfChunks, LenProperties, EmptySeq, ChunkAssumption
<1>2. Reach(v, 0) = 0
  <2>1. 0 * Chunk = 0  BY <1>1
  <2> QED  BY <1>1, <2>1 DEF Reach
<1>3. \A k \in 1..N : /\ k # N => k * Chunk < Len(v)
                      /\ k = N => ~(k * Chunk < Len(v))
                      /\ k * Chunk \in Nat
                      /\ (k - 1) * Chunk + Len(Piece(v, k)) = Reach(v, k)
  BY PieceFacts DEF Reach
<1>4. Reach(v, N) = Len(v)
  <2>1. N \in 1..N  BY <1>1
  <2> QED  BY <1>3, <2>1 DEF Reach
<1> HIDE DEF N
<1>5. ASSUME NEW k \in 0..N, k # N PROVE Reach(v, k) = k * Chunk
  <2>1. CASE k = 0
    <3>1. 0 * Chunk = 0  BY <1>1
    <3> QED  BY <1>2, <2>1, <3>1
  <2>2. CASE k # 0
    <3>1. k \in 1..N  BY <1>1, <2>2
    <3> QED  BY <1>3, <1>5, <3>1 DEF Reach
  <2> QED  BY <2>1, <2>2
<1>6. ASSUME NEW k \in 0..N, k # N PROVE Reach(v, k + 1) = Reach(v, k) + Len(Piece(v, k + 1))
  <2>1. k + 1 \in 1..N /\ (k + 1) - 1 = k  BY <1>1, <1>6
  <2>2. ((k + 1) - 1) * Chunk + Len(Piece(v, k + 1)) = Reach(v, k + 1)  BY <1>3, <2>1
  <2> QED  BY <1>5, <1>6, <2>1, <2>2
<1>7. \A k \in 0..N : Reach(v, k) \in Nat
  <2>1. ASSUME NEW k \in 0..N PROVE Reach(v, k) \in Nat
    <3>1. k * Chunk \in Nat  BY <1>1
    <3> QED  BY <1>1, <3>1 DEF Reach
  <2> QED  BY <2>1
<1> QED  BY <1>1, <1>2, <1>4, <1>5, <1>6, <1>7 DEF N

(* What is written for a value is what is counted for it.                  *)
LEMMA FormattedLength ==
  ASSUME NEW x \in AnyTlv, x.value # <<>>
  PROVE  Len(Formatted(x)) = Cost(x)
<1> DEFINE v == x.value
           N == ChunkCount(v)
<1>1. v \in Seq(Nat) /\ v # <<>>  BY DEF AnyTlv
<1>2. PICK f : /\ f \in [0..N -> Seq(Nat)] /\ f[0] = <<>> /\ Formatted(x) = f[N]
               /\ \A k \in 1..N : f[k] = f[k - 1] \o Wire(Cut(x, k))
  BY FormattedSteps
<1> HIDE DEF v
<1>3. /\ Len(v) \in Nat /\ N \in Nat /\ N # 0 /\ Reach(v, 0) = 0 /\ Reach(v, N) = Len(v)
      /\ \A k \in 0..N : Reach(v, k) \in Nat
      /\ \A k \in 0..N : k # N => Reach(v, k + 1) = Reach(v, k) + Len(Piece(v, k + 1))
  BY <1>1, ReachFacts
<1>4. \A k \in 1..N : Wire(Cut(x, k)) \in Seq(Nat) /\ Len(Piece(v, k)) \in Nat
                      /\ Len(Wire(Cut(x, k))) = Len(Piece(v, k)) + 2
  <2>1. ASSUME NEW k \in 1..N
        PROVE  Wire(Cut(x, k)) \in Seq(Nat) /\ Len(Piece(v, k)) \in Nat
               /\ Len(Wire(Cut(x, k))) = Len(Piece(v, k)) + 2
    <3>1. Cut(x, k) \in AnyTlv  BY <1>1, CutFacts DEF v
    <3>2. Cut(x, k).value = Piece(v, k)  BY DEF Cut, v
    <3> QED  BY <3>1, <3>2, WireFacts
  <2> QED  BY <2>1
<1> HIDE DEF N
<1> DEFINE P == {k \in 0..N : Len(f[k]) = Reach(v, k) + 2 * k}
<1>5. 0 \in P
  <2>1. Len(f[0]) = 0  BY <1>2
  <2>2. Reach(v, 0) + 2 * 0 = 0 /\ 0 \in 0..N  BY <1>3
  <2> QED  BY <2>1, <2>2
<1>6. ASSUME NEW k \in 0..N, k # N /\ k \in P PROVE k + 1 \in P
  <2>1. k + 1 \in 0..N /\ k + 1 \in 1..N /\ (k + 1) - 1 = k /\ k \in Nat  BY <1>3, <1>6
  <2>2. f[k + 1] = f[k] \o Wire(Cut(x, k + 1))  BY <1>2, <2>1
  <2>3. f[k] \in Seq(Nat) /\ Wire(Cut(x, k + 1)) \in Seq(Nat)  BY <1>2, <1>4, <2>1
  <2>4. Len(f[k + 1]) = Len(f[k]) + Len(Wire(Cut(x, k + 1)))  BY <2>2, <2>3, ConcatProperties
  <2>5. Len(f[k]) = Reach(v, k) + 2 * k  BY <1>6
  <2>6. Reach(v, k) \in Nat /\ Reach(v, k + 1) = Reach(v, k) + Len(Piece(v, k + 1))
        /\ Len(Piece(v, k + 1)) \in Nat
        /\ Len(Wire(Cut(x, k + 1))) = Len(Piece(v, k + 1)) + 2
    BY <1>3, <1>4, <1>6, <2>1
  <2>7. Len(f[k + 1]) = Reach(v, k + 1) + 2 * (k + 1)
    <3> DEFINE r == Reach(v, k)
               p == Len(Piece(v, k + 1))
    <3>1. r \in Nat /\ p \in Nat /\ Reach(v, k + 1) = r + p  BY <2>6
    <3>2. Len(f[k + 1]) = (r + 2 * k) + (p + 2)  BY <2>4, <2>5, <2>6
    <3> HIDE DEF r, p
    <3>3. (r + 2 * k) + (p + 2) = (r + p) + 2 * (k + 1)  BY <2>1, <3>1
    <3> QED  BY <3>1, <3>2, <3>3
  <2> QED  BY <2>1, <2>7
<1> HIDE DEF P
<1>7. 0..N \subseteq P  BY <1>3, <1>5, <1>6, SetInduction, Zenon
<1>8. N \in P  BY <1>3, <1>7
<1>9. Len(Formatted(x)) = Len(v) + 2 * N  BY <1>2, <1>3, <1>8 DEF P
<1> QED  BY <1>9 DEF Cost, N, v

(* A value that is not empty.                                              *)
Solid == {x \in AnyTlv : x.value # <<>>}

LEMMA EncodedLength == \A l \in Seq(Solid) : Len(Encoded(l)) = RequiredSize(l)
<1> DEFINE P == {l \in Seq(Solid) : Len(Encoded(l)) = RequiredSize(l)}
<1>1. Seq(Solid) \subseteq Seq(AnyTlv) /\ Solid \subseteq AnyTlv  BY DEF Solid
<1>2. <<>> \in P
  <2>1. Encoded(<<>>) = <<>>  BY DEF Encoded, FlattenSeq
  <2>2. RequiredSize(<<>>) = 0
    <3>1. <<>> \in Seq(AnyTlv) /\ [type |-> 0, value |-> <<>>] \in AnyTlv  BY DEF AnyTlv
    <3> QED  BY <3>1, SizeFacts
  <2> QED  BY <2>1, <2>2
<1>3. ASSUME NEW l \in Seq(Solid), NEW x \in Solid, l \in P PROVE Append(l, x) \in P
  <2>1. Append(l, x) \in Seq(Solid)  BY AppendProperties
  <2>2. l \in Seq(AnyTlv) /\ x \in AnyTlv /\ x.value # <<>>  BY <1>1 DEF Solid
  <2>3. /\ Encoded(l) \in Seq(Nat) /\ Formatted(x) \in Seq(Nat)
        /\ Encoded(Append(l, x)) = Encoded(l) \o Formatted(x)
    BY <2>2, EncodedFacts, FormattedType
  <2>4. Len(Encoded(Append(l, x))) = Len(Encoded(l)) + Len(Formatted(x))
    BY <2>3, ConcatProperties
  <2>5. Len(Formatted(x)) = Cost(x)  BY <2>2, FormattedLength
  <2>6. RequiredSize(Append(l, x)) = RequiredSize(l) + Cost(x)  BY <2>2, SizeFacts
  <2>7. Len(Encoded(l)) = RequiredSize(l)  BY <1>3
  <2> QED  BY <2>1, <2>4, <2>5, <2>6, <2>7
<1> HIDE DEF P
<1>4. Seq(Solid) \subseteq P  BY <1>2, <1>3, ListInduction
<1> QED  BY <1>4 DEF P

------------------------------------------------------------------------------
(* A value and its chunks merge to the same.                               *)
Joining(l, x) == l # <<>> /\ Last(l).type = x.type /\ Len(Last(l).value) % Chunk = 0

LEMMA MergeApart ==
  ASSUME NEW l, NEW x, ~Joining(l, x)
  PROVE  Merge(l, x) = Append(l, x)
BY DEF Merge, Joining

LEMMA MergeJoining ==
  ASSUME NEW l, NEW x, Joining(l, x)
  PROVE  Merge(l, x) = Append(Front(l), [x EXCEPT !.value = Last(l).value \o @])
BY DEF Merge, Joining

LEMMA LastAppended ==
  ASSUME NEW l \in Seq(AnyTlv), NEW x \in AnyTlv
  PROVE  /\ Append(l, x) # <<>> /\ Last(Append(l, x)) = x /\ Front(Append(l, x)) = l
         /\ l # <<>> => Last(l) \in AnyTlv /\ Front(l) \in Seq(AnyTlv)
<1> DEFINE n == Len(l)
           m == Append(l, x)
<1>1. n \in Nat /\ (l # <<>> => n # 0)  BY LenProperties, EmptySeq
<1>2. /\ m \in Seq(AnyTlv) /\ Len(m) = n + 1 /\ m[n + 1] = x /\ m # <<>>
      /\ \A q \in 1..n : m[q] = l[q]
  BY AppendProperties
<1>3. \A q \in 1..n : l[q] \in AnyTlv  BY ElementOfSeq
<1> HIDE DEF m
<1>4. Last(m) = x  BY <1>2 DEF Last
<1>5. Front(m) = l
  <2>1. Front(m) = SubSeq(m, 1, n)
    <3>1. (n + 1) - 1 = n  BY <1>1
    <3> QED  BY <1>2, <3>1 DEF Front
  <2>2. /\ SubSeq(m, 1, n) \in Seq(AnyTlv) /\ Len(SubSeq(m, 1, n)) = n
        /\ \A q \in 1..n : SubSeq(m, 1, n)[q] = l[q]
    <3>1. \A q \in 1..n : m[q] \in AnyTlv  BY <1>2, <1>3
    <3> HIDE DEF n
    <3> QED  BY <1>1, <1>2, <3>1
  <2> QED  BY <2>1, <2>2, SeqEqual
<1>6. ASSUME l # <<>> PROVE Last(l) \in AnyTlv /\ Front(l) \in Seq(AnyTlv)
  <2>1. n \in 1..n  BY <1>1, <1>6
  <2>2. Last(l) \in AnyTlv  BY <1>3, <2>1 DEF Last
  <2>3. Front(l) \in Seq(AnyTlv)  BY <1>1, <1>6 DEF Front
  <2> QED  BY <2>2, <2>3
<1> QED  BY <1>2, <1>4, <1>5, <1>6 DEF m

LEMMA Continued ==
  ASSUME NEW x \in AnyTlv, NEW u
  PROVE  [x EXCEPT !.value = u \o @] = [type |-> x.type, value |-> u \o x.value]
<1>1. x = [type |-> x.type, value |-> x.value]  BY DEF AnyTlv
<1> DEFINE w == u \o x.value
<1>2. [x EXCEPT !.value = u \o @] = [x EXCEPT !.value = w]  OBVIOUS
<1> HIDE DEF w
<1>3. [x EXCEPT !.value = w] = [type |-> x.type, value |-> w]  BY <1>1
<1> QED  BY <1>2, <1>3 DEF w

LEMMA Extended ==
  ASSUME NEW x \in AnyTlv, NEW u
  PROVE  [x EXCEPT !.value = @ \o u] = [type |-> x.type, value |-> x.value \o u]
<1>1. x = [type |-> x.type, value |-> x.value]  BY DEF AnyTlv
<1> DEFINE w == x.value \o u
<1>2. [x EXCEPT !.value = @ \o u] = [x EXCEPT !.value = w]  OBVIOUS
<1> HIDE DEF w
<1>3. [x EXCEPT !.value = w] = [type |-> x.type, value |-> w]  BY <1>1
<1> QED  BY <1>2, <1>3 DEF w

LEMMA MergeTwice ==
  ASSUME NEW l \in Seq(AnyTlv), NEW a \in AnyTlv, NEW b \in AnyTlv,
         a.type = b.type, Len(a.value) % Chunk = 0
  PROVE  Merge(Merge(l, a), b) = Merge(l, [a EXCEPT !.value = @ \o b.value])
<1> DEFINE c == [a EXCEPT !.value = @ \o b.value]
<1>1. a.value \in Seq(Nat) /\ b.value \in Seq(Nat) /\ a.type \in Nat /\ Chunk \in Nat \ {0}
  BY ChunkAssumption DEF AnyTlv
<1>2. c \in AnyTlv /\ c.type = a.type /\ c.value = a.value \o b.value
  <2>1. a.value \o b.value \in Seq(Nat)  BY <1>1, ConcatProperties
  <2> QED  BY <2>1 DEF AnyTlv
<1>3. CASE ~Joining(l, a)
  <2>1. Merge(l, a) = Append(l, a)  BY <1>3, MergeApart
  <2>2. /\ Append(l, a) # <<>> /\ Last(Append(l, a)) = a /\ Front(Append(l, a)) = l
    BY LastAppended
  <2>3. Joining(Append(l, a), b)  BY <2>2 DEF Joining
  <2>4. Merge(Append(l, a), b) = Append(l, [b EXCEPT !.value = a.value \o @])
    BY <2>2, <2>3, MergeJoining
  <2>5. [b EXCEPT !.value = a.value \o @] = c  BY DEF AnyTlv
  <2>6. ~Joining(l, c)  BY <1>2, <1>3 DEF Joining
  <2>7. Merge(l, c) = Append(l, c)  BY <2>6, MergeApart
  <2> QED  BY <2>1, <2>4, <2>5, <2>7
<1>4. CASE Joining(l, a)
  <2> DEFINE y == Last(l)
             d == [a EXCEPT !.value = y.value \o @]
             k == Front(l)
  <2>1. l # <<>> /\ y.type = a.type /\ Len(y.value) % Chunk = 0  BY <1>4 DEF Joining
  <2>2. y \in AnyTlv /\ k \in Seq(AnyTlv)  BY <2>1, LastAppended
  <2>3. Merge(l, a) = Append(k, d)  BY <1>4, MergeJoining
  <2>4. y.value \in Seq(Nat)  BY <2>2 DEF AnyTlv
  <2> HIDE DEF y, k
  <2>5. d \in AnyTlv /\ d.type = a.type /\ d.value = y.value \o a.value
    <3>1. y.value \o a.value \in Seq(Nat)  BY <1>1, <2>4, ConcatProperties
    <3> QED  BY <3>1 DEF AnyTlv
  <2>6. Len(d.value) % Chunk = 0
    <3>1. Len(d.value) = Len(y.value) + Len(a.value)  BY <1>1, <2>4, <2>5, ConcatProperties
    <3>2. Len(y.value) \in Nat /\ Len(a.value) \in Nat  BY <1>1, <2>4, LenProperties
    <3> DEFINE p == Len(y.value)
               q == Len(a.value)
    <3>3. p \in Nat /\ q \in Nat /\ p % Chunk = 0 /\ q % Chunk = 0  BY <2>1, <3>2
    <3> HIDE DEF p, q
    <3>4. (p + q) % Chunk = q % Chunk  BY <1>1, <3>3, Multiples
    <3> QED  BY <3>1, <3>3, <3>4 DEF p, q
  <2>7. c.value = a.value \o b.value /\ c.type = a.type  BY <1>2
  <2> HIDE DEF c
  <2>8. Joining(l, c)  BY <2>1, <2>7 DEF Joining, y
  <2>9. Merge(l, c) = Append(k, [c EXCEPT !.value = y.value \o @])
    BY <2>8, MergeJoining DEF y, k
  <2> DEFINE e == [b EXCEPT !.value = d.value \o @]
  <2>10. Merge(Append(k, d), b) = Append(k, e)
    <3> HIDE DEF d
    <3>1. /\ Append(k, d) # <<>> /\ Last(Append(k, d)) = d /\ Front(Append(k, d)) = k
      BY <2>2, <2>5, LastAppended
    <3>2. Joining(Append(k, d), b)  BY <2>5, <2>6, <3>1 DEF Joining
    <3> QED  BY <3>1, <3>2, MergeJoining
  <2>11. e = [c EXCEPT !.value = y.value \o @]
    <3>1. e = [type |-> b.type, value |-> d.value \o b.value]  BY Continued
    <3>2. [c EXCEPT !.value = y.value \o @] = [type |-> c.type, value |-> y.value \o c.value]
      BY <1>2, Continued
    <3>3. (y.value \o a.value) \o b.value = y.value \o (a.value \o b.value)
      <4> DEFINE p == y.value
                 q == a.value
                 r == b.value
      <4>1. p \in Seq(Nat) /\ q \in Seq(Nat) /\ r \in Seq(Nat)  BY <1>1, <2>4
      <4> HIDE DEF p, q, r
      <4>2. (p \o q) \o r = p \o (q \o r)  BY ONLY <4>1, BytesJoined
      <4> QED  BY <4>2 DEF p, q, r
    <3> HIDE DEF e, d
    <3> QED  BY <2>5, <2>7, <3>1, <3>2, <3>3
  <2> QED  BY <2>3, <2>9, <2>10, <2>11 DEF c
<1> QED  BY <1>3, <1>4

LEMMA UptoFacts ==
  ASSUME NEW v \in Seq(Nat), v # <<>>
  PROVE  /\ SubSeq(v, 1, Reach(v, ChunkCount(v))) = v
         /\ SubSeq(v, 1, Reach(v, 1)) = Piece(v, 1)
         /\ \A k \in 1..ChunkCount(v) : SubSeq(v, 1, Reach(v, k)) \in Seq(Nat)
         /\ \A k \in 1..ChunkCount(v) : k # ChunkCount(v) =>
              /\ Len(SubSeq(v, 1, Reach(v, k))) % Chunk = 0
              /\ SubSeq(v, 1, Reach(v, k + 1)) = SubSeq(v, 1, Reach(v, k)) \o Piece(v, k + 1)
<1> DEFINE N == ChunkCount(v)
           L == Len(v)
           R(k) == Reach(v, k)
           U(k) == SubSeq(v, 1, R(k))
<1>1. /\ L \in Nat /\ N \in Nat /\ N # 0 /\ R(0) = 0 /\ R(N) = L
      /\ \A k \in 0..N : R(k) \in Nat
      /\ \A k \in 0..N : k # N => R(k) = k * Chunk /\ R(k + 1) = R(k) + Len(Piece(v, k + 1))
  BY ReachFacts
<1>2. Chunk \in Nat \ {0}  BY ChunkAssumption
<1>3. \A k \in 1..N : /\ Piece(v, k) \in Seq(Nat) /\ Len(Piece(v, k)) \in 1..Chunk
                      /\ \A q \in 1..Len(Piece(v, k)) : Piece(v, k)[q] = v[(k - 1) * Chunk + q]
  BY PieceFacts
<1> HIDE DEF N, R
<1>4. ASSUME NEW k \in 0..N PROVE R(k) <= L
  <2>1. R(k) = IF k * Chunk < L THEN k * Chunk ELSE L  BY DEF R, Reach
  <2>2. k * Chunk \in Nat  BY <1>1, <1>2
  <2> DEFINE z == k * Chunk
  <2> HIDE DEF z, L
  <2> QED  BY <1>1, <2>1, <2>2 DEF z
<1>5. ASSUME NEW k \in 0..N
      PROVE  U(k) \in Seq(Nat) /\ Len(U(k)) = R(k) /\ \A q \in 1..R(k) : U(k)[q] = v[q]
  <2>1. R(k) \in Nat /\ R(k) <= Len(v)  BY <1>1, <1>4
  <2> DEFINE r == R(k)
  <2> HIDE DEF r
  <2>2. r \in Nat /\ r <= Len(v)  BY <2>1 DEF r
  <2>3. SubSeq(v, 1, r) \in Seq(Nat) /\ Len(SubSeq(v, 1, r)) = r
        /\ \A q \in 1..r : SubSeq(v, 1, r)[q] = v[q]
    BY <2>2
  <2> QED  BY <2>3 DEF r
<1> HIDE DEF U
<1>6. U(N) = v
  <2>1. N \in 0..N  BY <1>1
  <2>2. U(N) \in Seq(Nat) /\ Len(U(N)) = Len(v) /\ \A q \in 1..Len(v) : U(N)[q] = v[q]
    BY <1>1, <1>5, <2>1
  <2> QED  BY <2>2, SeqEqual
<1>7. U(1) = Piece(v, 1)
  <2>1. 0 \in 0..N /\ 0 # N /\ 1 \in 0..N /\ 1 \in 1..N /\ 0 + 1 = 1  BY <1>1
  <2>2. R(0 + 1) = R(0) + Len(Piece(v, 0 + 1))  BY <1>1, <2>1
  <2>3. R(1) = Len(Piece(v, 1))  BY <1>1, <1>3, <2>1, <2>2
  <2>4. U(1) \in Seq(Nat) /\ Len(U(1)) = R(1) /\ \A q \in 1..R(1) : U(1)[q] = v[q]
    BY <1>5, <2>1
  <2>5. \A q \in 1..R(1) : Piece(v, 1)[q] = v[q]
    <3>1. \A q \in 1..R(1) : Piece(v, 1)[q] = v[(1 - 1) * Chunk + q]  BY <1>3, <2>1, <2>3
    <3>2. \A q \in Nat : (1 - 1) * Chunk + q = q  BY <1>2
    <3>3. \A q \in 1..R(1) : q \in Nat  BY <1>1, <2>1
    <3> QED  BY <3>1, <3>2, <3>3
  <2> DEFINE a == U(1)
             p == Piece(v, 1)
             r == R(1)
  <2>6. a \in Seq(Nat) /\ Len(a) = r /\ p \in Seq(Nat) /\ Len(p) = r
    BY <1>3, <2>1, <2>3, <2>4
  <2>7. \A q \in 1..r : a[q] = p[q]  BY <2>4, <2>5
  <2> HIDE DEF a, p, r
  <2>8. a = p  BY <2>6, <2>7, SeqEqual
  <2> QED  BY <2>8 DEF a, p
<1>8. ASSUME NEW k \in 1..N, k # N
      PROVE  Len(U(k)) % Chunk = 0 /\ U(k + 1) = U(k) \o Piece(v, k + 1)
  <2>1. k \in 0..N /\ k + 1 \in 0..N /\ k + 1 \in 1..N /\ (k + 1) - 1 = k /\ k \in Nat
    BY <1>1, <1>8
  <2>2. R(k) = k * Chunk /\ R(k + 1) = R(k) + Len(Piece(v, k + 1))  BY <1>1, <1>8, <2>1
  <2>3. Len(U(k)) % Chunk = 0
    <3>1. Len(U(k)) = (Chunk * k) + 0
      <4>1. Len(U(k)) = k * Chunk  BY <1>5, <2>1, <2>2
      <4>2. k * Chunk = (Chunk * k) + 0  BY <1>2, <2>1
      <4> QED  BY <4>1, <4>2
    <3>2. ((Chunk * k) + 0) % Chunk = 0
      <4>1. 0 \in 0..(Chunk - 1)  BY <1>2
      <4> QED  BY <1>2, <2>1, <4>1, Quotients
    <3> QED  BY <3>1, <3>2
  <2> DEFINE a == U(k)
             b == U(k + 1)
             p == Piece(v, k + 1)
             r == R(k)
             m == Len(p)
  <2>4. /\ a \in Seq(Nat) /\ Len(a) = r /\ \A q \in 1..r : a[q] = v[q]
        /\ b \in Seq(Nat) /\ Len(b) = r + m /\ \A q \in 1..(r + m) : b[q] = v[q]
    BY <1>5, <2>1, <2>2
  <2>5. p \in Seq(Nat) /\ m \in Nat /\ \A q \in 1..m : p[q] = v[r + q]
    BY <1>3, <2>1, <2>2
  <2>6. r \in Nat /\ Len(p) = m  BY <1>1, <2>1
  <2> HIDE DEF a, b, p, r, m
  <2>7. /\ a \o p \in Seq(Nat) /\ Len(a \o p) = r + m
        /\ \A q \in 1..(r + m) : (a \o p)[q] = IF q <= r THEN a[q] ELSE p[q - r]
    BY <2>4, <2>5, <2>6, ConcatProperties
  <2>8. \A q \in 1..(r + m) : b[q] = (a \o p)[q]
    <3>1. ASSUME NEW q \in 1..(r + m) PROVE b[q] = (a \o p)[q]
      <4>1. CASE q <= r
        <5>1. q \in 1..r  BY <2>6, <4>1
        <5> QED  BY <2>4, <2>7, <4>1, <5>1
      <4>2. CASE ~(q <= r)
        <5>1. q - r \in 1..m /\ r + (q - r) = q  BY <2>5, <2>6, <4>2
        <5>2. p[q - r] = v[q]  BY <2>5, <5>1
        <5> QED  BY <2>4, <2>7, <4>2, <5>2
      <4> QED  BY <4>1, <4>2
    <3> QED  BY <3>1
  <2>9. b = a \o p  BY <2>4, <2>7, <2>8, SeqEqual
  <2> QED  BY <2>3, <2>9 DEF a, b, p
<1>9. \A k \in 1..N : U(k) \in Seq(Nat)
  <2>1. \A k \in 1..N : k \in 0..N  BY <1>1
  <2> QED  BY <1>5, <2>1
<1> QED  BY <1>6, <1>7, <1>8, <1>9 DEF U, R, N

(* Appending the chunks of a value to chunks is merging the value.         *)
LEMMA ChunksOfValue ==
  ASSUME NEW cs \in Seq(Chunks), NEW x \in Solid
  PROVE  \E ds \in Seq(Chunks) : /\ Wires(ds) = Wires(cs) \o Formatted(x)
                                 /\ Merged(ds) = Merge(Merged(cs), x)
<1> DEFINE v == x.value
           N == ChunkCount(v)
           U(k) == [type |-> x.type, value |-> SubSeq(v, 1, Reach(v, k))]
           Got(ds, k) == IF k = 0 THEN Merged(cs) ELSE Merge(Merged(cs), U(k))
<1>1. x \in AnyTlv /\ v # <<>> /\ v \in Seq(Nat) /\ x.type \in Nat
      /\ x = [type |-> x.type, value |-> v]
  BY DEF Solid, AnyTlv
<1>2. PICK f : /\ f \in [0..N -> Seq(Nat)] /\ f[0] = <<>> /\ Formatted(x) = f[N]
               /\ \A k \in 1..N : f[k] = f[k - 1] \o Wire(Cut(x, k))
  BY <1>1, FormattedSteps
<1>3. N \in Nat /\ N # 0  BY <1>1, FormattedSteps
<1>4. /\ U(N) = x /\ U(1) = Cut(x, 1)
      /\ \A k \in 1..N : U(k) \in AnyTlv
      /\ \A k \in 1..N : k # N => /\ Len(U(k).value) % Chunk = 0
                                  /\ U(k + 1) = [U(k) EXCEPT !.value = @ \o Cut(x, k + 1).value]
                                  /\ U(k).type = Cut(x, k + 1).type
  <2> HIDE DEF v
  <2>1. /\ SubSeq(v, 1, Reach(v, N)) = v
        /\ SubSeq(v, 1, Reach(v, 1)) = Piece(v, 1)
        /\ \A k \in 1..N : SubSeq(v, 1, Reach(v, k)) \in Seq(Nat)
        /\ \A k \in 1..N : k # N =>
             /\ Len(SubSeq(v, 1, Reach(v, k))) % Chunk = 0
             /\ SubSeq(v, 1, Reach(v, k + 1)) = SubSeq(v, 1, Reach(v, k)) \o Piece(v, k + 1)
    BY <1>1, UptoFacts
  <2>2. \A k : Cut(x, k) = [type |-> x.type, value |-> Piece(v, k)]  BY DEF Cut, v
  <2> HIDE DEF N
  <2>3. U(N) = x  BY <1>1, <2>1
  <2>4. U(1) = Cut(x, 1)  BY <2>1, <2>2
  <2>5. \A k \in 1..N : U(k) \in AnyTlv  BY <1>1, <2>1 DEF AnyTlv
  <2>6. ASSUME NEW k \in 1..N, k # N
        PROVE  /\ Len(U(k).value) % Chunk = 0
               /\ U(k + 1) = [U(k) EXCEPT !.value = @ \o Cut(x, k + 1).value]
               /\ U(k).type = Cut(x, k + 1).type
    <3> DEFINE s == SubSeq(v, 1, Reach(v, k))
               t == SubSeq(v, 1, Reach(v, k + 1))
               p == Piece(v, k + 1)
    <3>1. Len(s) % Chunk = 0 /\ t = s \o p  BY <2>1, <2>6
    <3>2. Cut(x, k + 1) = [type |-> x.type, value |-> p]  BY <2>2
    <3>3. U(k) = [type |-> x.type, value |-> s] /\ U(k + 1) = [type |-> x.type, value |-> t]
      OBVIOUS
    <3> HIDE DEF s, t, p, U
    <3>4. U(k) \in AnyTlv  BY <2>5
    <3>5. U(k).value = s /\ U(k).type = x.type /\ Cut(x, k + 1).value = p
          /\ Cut(x, k + 1).type = x.type
      BY <3>2, <3>3
    <3>6. [U(k) EXCEPT !.value = @ \o Cut(x, k + 1).value] = [type |-> x.type, value |-> s \o p]
      <4> DEFINE y == U(k)
                 z == Cut(x, k + 1).value
      <4>1. y \in AnyTlv  BY <3>4
      <4> HIDE DEF y, z
      <4>2. [y EXCEPT !.value = @ \o z] = [type |-> y.type, value |-> y.value \o z]
        BY <4>1, Extended
      <4> QED  BY <3>5, <4>2 DEF y, z
    <3> QED  BY <3>1, <3>3, <3>5, <3>6
  <2> QED  BY <2>3, <2>4, <2>5, <2>6
<1>5. \A k \in 1..N : Cut(x, k) \in Chunks /\ Cut(x, k) \in AnyTlv  BY <1>1, CutFacts
<1>6. Seq(Chunks) \subseteq Seq(AnyTlv)  BY DEF Chunks
<1>7. cs \in Seq(AnyTlv) /\ Wires(cs) \in Seq(Nat) /\ Merged(cs) \in Seq(AnyTlv)
  BY <1>1, <1>6, WiresFacts, MergedFacts
<1> HIDE DEF v, N, U
<1> DEFINE P == {k \in 0..N : \E ds \in Seq(Chunks) :
                   /\ Wires(ds) = Wires(cs) \o f[k]
                   /\ Merged(ds) = IF k = 0 THEN Merged(cs) ELSE Merge(Merged(cs), U(k))}
<1>8. 0 \in P
  <2>1. Wires(cs) \o f[0] = Wires(cs)  BY <1>2, <1>7, ConcatEmptySeq
  <2>2. 0 \in 0..N  BY <1>3
  <2> QED  BY <2>1, <2>2
<1>9. ASSUME NEW k \in 0..N, k # N /\ k \in P PROVE k + 1 \in P
  <2>1. k + 1 \in 0..N /\ k + 1 \in 1..N /\ (k + 1) - 1 = k /\ k + 1 # 0  BY <1>3, <1>9
  <2>2. PICK ds \in Seq(Chunks) :
               /\ Wires(ds) = Wires(cs) \o f[k]
               /\ Merged(ds) = IF k = 0 THEN Merged(cs) ELSE Merge(Merged(cs), U(k))
    BY <1>9
  <2> DEFINE c == Cut(x, k + 1)
             es == Append(ds, c)
  <2>3. c \in Chunks /\ c \in AnyTlv /\ ds \in Seq(AnyTlv)  BY <1>5, <1>6, <2>1
  <2>4. es \in Seq(Chunks)  BY <2>3, AppendProperties
  <2>5. f[k + 1] = f[k] \o Wire(c) /\ f[k] \in Seq(Nat)  BY <1>2, <2>1
  <2> HIDE DEF P, c
  <2>6. Wires(es) = Wires(ds) \o Wire(c) /\ Wire(c) \in Seq(Nat)
    BY <2>3, WiresFacts, WireFacts
  <2>7. Wires(es) = Wires(cs) \o f[k + 1]
    <3> DEFINE p == Wires(cs)
               q == f[k]
               r == Wire(c)
    <3>1. p \in Seq(Nat) /\ q \in Seq(Nat) /\ r \in Seq(Nat)  BY <1>7, <2>5, <2>6
    <3> HIDE DEF p, q, r
    <3>2. (p \o q) \o r = p \o (q \o r)  BY <3>1, BytesJoined
    <3> QED  BY <2>2, <2>5, <2>6, <3>2 DEF p, q, r
  <2>8. Merged(es) = Merge(Merged(ds), c)  BY <2>3, MergedFacts
  <2>9. Merged(es) = Merge(Merged(cs), U(k + 1))
    <3>1. CASE k = 0
      <4>1. U(k + 1) = c  BY <1>4, <3>1 DEF c
      <4> QED  BY <2>2, <2>8, <3>1, <4>1
    <3>2. CASE k # 0
      <4>1. k \in 1..N /\ k # N  BY <1>3, <1>9, <3>2
      <4>2. /\ U(k) \in AnyTlv /\ Len(U(k).value) % Chunk = 0 /\ U(k).type = c.type
            /\ U(k + 1) = [U(k) EXCEPT !.value = @ \o c.value]
        BY <1>4, <4>1 DEF c
      <4>3. Merged(ds) = Merge(Merged(cs), U(k))  BY <2>2, <3>2
      <4> DEFINE u == U(k)
                 l == Merged(cs)
      <4>4. u \in AnyTlv /\ Len(u.value) % Chunk = 0 /\ u.type = c.type /\ l \in Seq(AnyTlv)
        BY <1>7, <4>2
      <4> HIDE DEF u, l
      <4>5. Merge(Merge(l, u), c) = Merge(l, [u EXCEPT !.value = @ \o c.value])
        BY <2>3, <4>4, MergeTwice
      <4> QED  BY <2>8, <4>2, <4>3, <4>5 DEF u, l
    <3> QED  BY <3>1, <3>2
  <2> HIDE DEF es
  <2> QED  BY <2>1, <2>4, <2>7, <2>9 DEF P
<1> HIDE DEF P
<1>10. 0..N \subseteq P  BY <1>3, <1>8, <1>9, SetInduction, Zenon
<1>11. N \in P  BY <1>3, <1>10
<1>12. PICK ds \in Seq(Chunks) : /\ Wires(ds) = Wires(cs) \o f[N]
                                 /\ Merged(ds) = Merge(Merged(cs), U(N))
  BY <1>3, <1>11 DEF P
<1> QED  BY <1>2, <1>4, <1>12

(* A list and its chunks read the same and merge to the same.              *)
LEMMA ChunksOfList ==
  \A l \in Seq(Solid) : \E cs \in Seq(Chunks) : Wires(cs) = Encoded(l) /\ Merged(cs) = Merged(l)
<1> DEFINE P == {l \in Seq(Solid) : \E cs \in Seq(Chunks) :
                   Wires(cs) = Encoded(l) /\ Merged(cs) = Merged(l)}
<1>1. Seq(Solid) \subseteq Seq(AnyTlv)  BY DEF Solid
<1>2. <<>> \in P
  <2>1. Encoded(<<>>) = <<>> /\ Wires(<<>>) = <<>>  BY DEF Encoded, Wires, FlattenSeq
  <2>2. <<>> \in Seq(Solid) /\ <<>> \in Seq(Chunks)  OBVIOUS
  <2> QED  BY <2>1, <2>2
<1>3. ASSUME NEW l \in Seq(Solid), NEW x \in Solid, l \in P PROVE Append(l, x) \in P
  <2>1. Append(l, x) \in Seq(Solid) /\ l \in Seq(AnyTlv) /\ x \in AnyTlv
    BY <1>1, AppendProperties DEF Solid
  <2>2. PICK cs \in Seq(Chunks) : Wires(cs) = Encoded(l) /\ Merged(cs) = Merged(l)  BY <1>3
  <2> HIDE DEF P
  <2>3. PICK ds \in Seq(Chunks) : /\ Wires(ds) = Wires(cs) \o Formatted(x)
                                  /\ Merged(ds) = Merge(Merged(cs), x)
    BY ChunksOfValue
  <2>4. Encoded(Append(l, x)) = Encoded(l) \o Formatted(x)  BY <2>1, EncodedFacts
  <2>5. Merged(Append(l, x)) = Merge(Merged(l), x)  BY <2>1, MergedFacts
  <2>6. Wires(ds) = Encoded(Append(l, x)) /\ Merged(ds) = Merged(Append(l, x))
    BY <2>2, <2>3, <2>4, <2>5
  <2> QED  BY <2>1, <2>6 DEF P
<1> HIDE DEF P
<1>4. Seq(Solid) \subseteq P  BY <1>2, <1>3, ListInduction
<1> QED  BY <1>4 DEF P

------------------------------------------------------------------------------
(* What the parser finds where a chunk begins.                             *)
HeaderAfter(a, c, b) ==
  /\ b \in Seq(Nat) /\ Len(a) \in Nat /\ Len(b) \in Nat /\ Len(c.value) \in Nat
  /\ Len(a) + 1 <= Len(b) /\ b[Len(a) + 1] = c.type /\ b[Len(a) + 2] = Len(c.value)
  /\ SubSeq(b, Len(a) + 3, Len(a) + 2 + Len(c.value)) = c.value
  /\ Len(a \o Wire(c)) = Len(a) + 2 + Len(c.value)

LEMMA Headers ==
  \A a, z \in Seq(Nat), c \in AnyTlv : HeaderAfter(a, c, (a \o Wire(c)) \o z)
<1> SUFFICES ASSUME NEW a \in Seq(Nat), NEW z \in Seq(Nat), NEW c \in AnyTlv,
                    NEW b, b = (a \o Wire(c)) \o z
             PROVE  HeaderAfter(a, c, b)
  OBVIOUS
<1> DEFINE w == Wire(c)
           n == Len(a)
           m == Len(c.value)
           e == a \o w
<1>1. w \in Seq(Nat) /\ m \in Nat /\ Len(w) = m + 2 /\ w[1] = c.type /\ w[2] = m
      /\ \A q \in 1..m : w[q + 2] = c.value[q]
  BY WireFacts
<1>2. n \in Nat /\ Len(z) \in Nat  BY LenProperties
<1>3. c.value \in Seq(Nat) /\ Len(c.value) = m  BY DEF AnyTlv
<1> HIDE DEF w, m
<1>4. e \in Seq(Nat) /\ Len(e) = n + Len(w)
      /\ \A q \in 1..(n + Len(w)) : e[q] = IF q <= n THEN a[q] ELSE w[q - n]
  BY <1>1, ConcatProperties
<1> HIDE DEF n
<1>5. Len(e) = n + (m + 2) /\ \A q \in 1..(m + 2) : e[n + q] = w[q]
  <2>1. Len(e) = n + (m + 2)  BY <1>1, <1>4
  <2>2. ASSUME NEW q \in 1..(m + 2) PROVE e[n + q] = w[q]
    <3>1. n + q \in 1..(n + (m + 2)) /\ ~(n + q <= n) /\ (n + q) - n = q  BY <1>1, <1>2
    <3> QED  BY <1>1, <1>4, <3>1
  <2> QED  BY <2>1, <2>2
<1> HIDE DEF e
<1>6. b = e \o z  BY DEF e, w
<1>7. b \in Seq(Nat) /\ Len(b) = Len(e) + Len(z)
      /\ \A q \in 1..(Len(e) + Len(z)) : b[q] = IF q <= Len(e) THEN e[q] ELSE z[q - Len(e)]
  <2>1. /\ e \o z \in Seq(Nat) /\ Len(e \o z) = Len(e) + Len(z)
        /\ \A q \in 1..(Len(e) + Len(z)) :
             (e \o z)[q] = IF q <= Len(e) THEN e[q] ELSE z[q - Len(e)]
    BY <1>4, ConcatProperties
  <2> QED  BY <1>6, <2>1
<1>8. \A q \in 1..(m + 2) : b[n + q] = w[q]
  <2>1. ASSUME NEW q \in 1..(m + 2) PROVE b[n + q] = w[q]
    <3> DEFINE y == Len(e)
    <3>1. y = n + (m + 2)  BY <1>5
    <3> HIDE DEF y
    <3>2. n + q \in 1..(y + Len(z)) /\ n + q <= y  BY <1>1, <1>2, <3>1
    <3>3. b[n + q] = e[n + q]  BY <1>7, <3>2 DEF y
    <3> QED  BY <1>5, <3>3
  <2> QED  BY <2>1
<1>9. Len(b) = (n + (m + 2)) + Len(z)  BY <1>5, <1>7
<1>10. b[n + 1] = c.type /\ b[n + 2] = m
  <2>1. 1 \in 1..(m + 2) /\ 2 \in 1..(m + 2)  BY <1>1
  <2> QED  BY <1>1, <1>8, <2>1
<1>11. SubSeq(b, n + 3, n + 2 + m) = c.value
  <2> DEFINE s == SubSeq(b, n + 3, n + 2 + m)
             v == c.value
  <2>1. \A q \in (n + 3)..(n + 2 + m) : b[q] \in Nat
    <3>1. \A q \in (n + 3)..(n + 2 + m) : q \in 1..Len(b)  BY <1>1, <1>2, <1>9
    <3> QED  BY <1>7, <3>1, ElementOfSeq
  <2>2. /\ s \in Seq(Nat)
        /\ Len(s) = IF n + 3 <= n + 2 + m THEN (n + 2 + m) - (n + 3) + 1 ELSE 0
        /\ \A q \in 1..((n + 2 + m) - (n + 3) + 1) : s[q] = b[(n + 3) + q - 1]
    <3> DEFINE x == n + 3
               y == n + 2 + m
    <3>1. x \in Int /\ y \in Int
      <4>1. n \in Nat /\ m \in Nat  BY <1>1, <1>2
      <4> QED  BY <4>1
    <3>2. \A q \in x..y : b[q] \in Nat  BY <2>1
    <3> HIDE DEF x, y
    <3>3. /\ SubSeq(b, x, y) \in Seq(Nat)
          /\ Len(SubSeq(b, x, y)) = IF x <= y THEN y - x + 1 ELSE 0
          /\ \A q \in 1..(y - x + 1) : SubSeq(b, x, y)[q] = b[x + q - 1]
      BY ONLY <3>1, <3>2, SubSeqProperties
    <3> QED  BY <3>3 DEF x, y
  <2>3. (n + 2 + m) - (n + 3) + 1 = m /\ (~(n + 3 <= n + 2 + m) => m = 0)  BY <1>1, <1>2
  <2>4. Len(s) = m  BY <2>2, <2>3
  <2>5. \A q \in 1..m : s[q] = v[q]
    <3>1. ASSUME NEW q \in 1..m PROVE s[q] = v[q]
      <4>1. (n + 3) + q - 1 = n + (q + 2) /\ q + 2 \in 1..(m + 2)
        <5>1. n \in Nat /\ m \in Nat /\ q \in Nat /\ q >= 1 /\ q <= m  BY <1>1, <1>2
        <5> QED  BY <5>1
      <4>2. s[q] = b[n + (q + 2)]  BY <2>2, <2>3, <4>1
      <4> QED  BY <1>1, <1>8, <4>1, <4>2
    <3> QED  BY <3>1
  <2>6. s \in Seq(Nat) /\ v \in Seq(Nat) /\ Len(v) = m  BY <1>3, <2>2
  <2> HIDE DEF s, v
  <2>7. s = v  BY <2>4, <2>5, <2>6, SeqEqual
  <2> QED  BY <2>7 DEF s, v
<1>12. n + 1 <= Len(b) /\ Len(b) \in Nat /\ Len(e) = n + 2 + m
  BY <1>1, <1>2, <1>5, <1>9
<1>13. /\ b \in Seq(Nat) /\ Len(a) \in Nat /\ Len(b) \in Nat /\ Len(c.value) \in Nat
       /\ Len(a) + 1 <= Len(b) /\ b[Len(a) + 1] = c.type /\ b[Len(a) + 2] = Len(c.value)
       /\ SubSeq(b, Len(a) + 3, Len(a) + 2 + Len(c.value)) = c.value
       /\ Len(a \o Wire(c)) = Len(a) + 2 + Len(c.value)
  BY <1>1, <1>2, <1>7, <1>10, <1>11, <1>12 DEF n, m, e, w
<1> QED  BY ONLY <1>13 DEF HeaderAfter

LEMMA NextChunk ==
  ASSUME NEW d \in Seq(Chunks), NEW r \in Seq(Chunks), r # <<>>
  PROVE  /\ Head(r) \in Chunks /\ Tail(r) \in Seq(Chunks) /\ Append(d, Head(r)) \in Seq(Chunks)
         /\ Append(d, Head(r)) \o Tail(r) = d \o r
         /\ Wires(d \o r) = (Wires(d) \o Wire(Head(r))) \o Wires(Tail(r))
         /\ Wires(d) \in Seq(Nat) /\ Wires(Tail(r)) \in Seq(Nat)
         /\ Wires(Append(d, Head(r))) = Wires(d) \o Wire(Head(r))
<1> DEFINE h == Head(r)
           t == Tail(r)
<1>1. h \in Chunks /\ t \in Seq(Chunks) /\ r = <<h>> \o t
  <2>1. Len(r) \in Nat /\ Len(r) # 0  BY LenProperties, EmptySeq
  <2>2. h \in Chunks /\ t \in Seq(Chunks) /\ h = r[1]
        /\ Len(t) = Len(r) - 1 /\ \A q \in 1..(Len(r) - 1) : t[q] = r[q + 1]
    BY HeadTailProperties
  <2> HIDE DEF h, t
  <2>3. <<h>> \in Seq(Chunks) /\ Len(<<h>>) = 1 /\ <<h>>[1] = h  BY <2>2
  <2> DEFINE o == <<h>>
             s == o \o t
             n == Len(r)
  <2>4. o \in Seq(Chunks) /\ Len(o) = 1 /\ o[1] = h  BY <2>3
  <2>5. n \in Nat /\ n # 0 /\ Len(t) = n - 1 /\ \A q \in 1..(n - 1) : t[q] = r[q + 1]
    BY <2>1, <2>2
  <2> HIDE DEF o, n
  <2>6. s \in Seq(Chunks) /\ Len(s) = 1 + (n - 1)
        /\ \A q \in 1..(1 + (n - 1)) : s[q] = IF q <= 1 THEN o[q] ELSE t[q - 1]
    <3>1. /\ o \o t \in Seq(Chunks) /\ Len(o \o t) = Len(o) + Len(t)
          /\ \A q \in 1..(Len(o) + Len(t)) :
               (o \o t)[q] = IF q <= Len(o) THEN o[q] ELSE t[q - Len(o)]
      <4>1. o \in Seq(Chunks) /\ t \in Seq(Chunks)  BY <2>2, <2>4
      <4> QED  BY ONLY <4>1, ConcatProperties
    <3> QED  BY <2>4, <2>5, <3>1
  <2>7. \A q \in 1..n : s[q] = r[q]
    <3>1. ASSUME NEW q \in 1..n PROVE s[q] = r[q]
      <4>1. CASE q = 1  BY <2>2, <2>4, <2>5, <2>6, <4>1
      <4>2. CASE q # 1
        <5>1. q - 1 \in 1..(n - 1) /\ (q - 1) + 1 = q /\ ~(q <= 1) /\ q \in 1..(1 + (n - 1))
          BY <2>5, <4>2
        <5> QED  BY <2>5, <2>6, <5>1
      <4> QED  BY <4>1, <4>2
    <3> QED  BY <3>1
  <2>8. Len(s) = Len(r)  BY <2>5, <2>6 DEF n
  <2>9. s = r  BY <2>6, <2>7, <2>8, SeqEqual DEF n
  <2> QED  BY <2>2, <2>9 DEF o
<1> HIDE DEF h, t
<1>2. d \in Seq(AnyTlv) /\ t \in Seq(AnyTlv) /\ h \in AnyTlv
  <2>1. Seq(Chunks) \subseteq Seq(AnyTlv)  BY DEF Chunks
  <2>2. h \in AnyTlv  BY <1>1 DEF Chunks
  <2> QED  BY <1>1, <2>1, <2>2
<1>3. Append(d, h) \in Seq(Chunks) /\ Append(d, h) \in Seq(AnyTlv)
  BY <1>1, <1>2, AppendProperties
<1>4. Append(d, h) \o t = d \o r
  <2> DEFINE o == <<h>>
  <2>1. o \in Seq(Chunks) /\ Append(d, h) = d \o o  BY <1>1, AppendIsConcat
  <2>2. r = o \o t  BY <1>1
  <2> HIDE DEF o
  <2>3. (d \o o) \o t = d \o (o \o t)  BY <1>1, <2>1, ConcatAssociative
  <2> QED  BY <2>1, <2>2, <2>3
<1>5. Wires(Append(d, h)) = Wires(d) \o Wire(h) /\ Wires(d) \in Seq(Nat)  BY <1>2, WiresFacts
<1>6. Wires(t) \in Seq(Nat)  BY <1>2, WiresFacts
<1>7. Wires(Append(d, h) \o t) = Wires(Append(d, h)) \o Wires(t)  BY <1>2, <1>3, WiresJoined
<1> QED  BY <1>1, <1>3, <1>4, <1>5, <1>6, <1>7 DEF h, t

LEMMA FullChunksFacts ==
  ASSUME NEW b \in Seq(Nat), NEW i \in Nat \ {0}
  PROVE  /\ FullChunks(b, i) \in Nat
         /\ \A k \in 0..(FullChunks(b, i) - 1) : IsFull(b, i, i + k * (Chunk + 2))
         /\ ~IsFull(b, i, i + FullChunks(b, i) * (Chunk + 2))
<1> DEFINE n == Len(b)
           J(k) == i + k * (Chunk + 2)
           S == {k \in 0..n : ~IsFull(b, i, J(k))}
<1>1. n \in Nat /\ Chunk \in Nat \ {0}  BY LenProperties, ChunkAssumption
<1>2. n \in S
  <2>1. n * (Chunk + 2) = n * Chunk + n + n /\ n * Chunk \in Nat
    <3> HIDE DEF n
    <3> QED  BY <1>1
  <2>2. ~(J(n) <= n)
    <3> DEFINE p == n * Chunk
    <3>1. p \in Nat /\ J(n) = i + (p + n + n)  BY <2>1
    <3> HIDE DEF p, n
    <3> QED  BY <1>1, <3>1
  <2>3. ~IsFull(b, i, J(n))  BY <2>2 DEF IsFull
  <2>4. n \in 0..n  BY <1>1
  <2> HIDE DEF J, n
  <2> QED  BY <2>3, <2>4
<1> HIDE DEF n, J
<1>3. PICK m \in S : \A y \in S : m =< y
  <2>1. S \in SUBSET Nat /\ S # {}  BY <1>1, <1>2
  <2> HIDE DEF S
  <2> QED  BY <2>1, Least
<1>4. m \in 0..n /\ (\A k \in 0..(m - 1) : IsFull(b, i, J(k))) /\ ~IsFull(b, i, J(m))
  <2>1. m \in 0..n /\ ~IsFull(b, i, J(m))  BY <1>3
  <2>2. ASSUME NEW k \in 0..(m - 1) PROVE IsFull(b, i, J(k))
    <3>1. k \in 0..n /\ ~(m =< k)  BY <1>1, <2>1
    <3> QED  BY <1>3, <3>1
  <2> QED  BY <2>1, <2>2
<1>5. \E k \in 0..Len(b) : /\ \A q \in 0..(k - 1) : IsFull(b, i, i + q * (Chunk + 2))
                           /\ ~IsFull(b, i, i + k * (Chunk + 2))
  BY <1>4 DEF J, n
<1>6. /\ FullChunks(b, i) \in 0..Len(b)
      /\ \A k \in 0..(FullChunks(b, i) - 1) : IsFull(b, i, i + k * (Chunk + 2))
      /\ ~IsFull(b, i, i + FullChunks(b, i) * (Chunk + 2))
  BY <1>5, Zenon DEF FullChunks
<1>7. FullChunks(b, i) \in Nat  BY <1>1, <1>6 DEF n
<1> QED  BY <1>6, <1>7

LEMMA JoinNext ==
  ASSUME NEW M \in Seq(AnyTlv), NEW h \in AnyTlv, NEW u \in Seq(Nat), NEW k \in Nat, NEW x,
         Len(u) = k * Chunk, k = 0 => u = <<>> /\ x = M /\ ~Joining(M, h),
         k # 0 => x = Append(M, Tlv(h.type, u))
  PROVE  Merge(x, h) = Append(M, Tlv(h.type, u \o h.value))
<1>1. h.value \in Seq(Nat) /\ h.type \in Nat /\ h = Tlv(h.type, h.value)  BY DEF AnyTlv, Tlv
<1>2. CASE k = 0
  <2>1. u \o h.value = h.value  BY <1>1, <1>2, ConcatEmptySeq
  <2> QED  BY <1>1, <1>2, <2>1, MergeApart
<1>3. CASE k # 0
  <2> DEFINE y == Tlv(h.type, u)
  <2>1. y \in AnyTlv /\ y.type = h.type /\ y.value = u  BY <1>1 DEF AnyTlv, Tlv
  <2> HIDE DEF y
  <2>2. Append(M, y) # <<>> /\ Last(Append(M, y)) = y /\ Front(Append(M, y)) = M
    BY <2>1, LastAppended
  <2>3. Len(u) % Chunk = 0
    <3>1. Chunk \in Nat \ {0} /\ 0 \in 0..(Chunk - 1) /\ k * Chunk = (Chunk * k) + 0
      BY ChunkAssumption
    <3>2. ((Chunk * k) + 0) % Chunk = 0  BY <3>1, Quotients
    <3> QED  BY <3>1, <3>2
  <2>4. Joining(Append(M, y), h)  BY <2>1, <2>2, <2>3 DEF Joining
  <2>5. Merge(Append(M, y), h) = Append(M, [h EXCEPT !.value = u \o @])
    BY <2>1, <2>2, <2>4, MergeJoining
  <2>6. [h EXCEPT !.value = u \o @] = Tlv(h.type, u \o h.value)  BY Continued DEF Tlv
  <2>7. x = Append(M, y)  BY <1>3 DEF y
  <2> QED  BY <2>5, <2>6, <2>7
<1> QED  BY <1>2, <1>3

(* The chunk at index j of b, when d was parsed and r is to come.          *)
Shown(d, r, b, j) ==
  /\ b \in Seq(Nat) /\ j \in Nat \ {0} /\ Len(b) \in Nat
  /\ r = <<>> => ~(j <= Len(b))
  /\ r # <<>> =>
       LET h == Head(r)
       IN  /\ h \in Chunks /\ h \in AnyTlv /\ Len(h.value) \in 1..Chunk
           /\ j <= Len(b) /\ b[j] = h.type /\ b[j + 1] = Len(h.value)
           /\ SubSeq(b, j + 2, j + 1 + Len(h.value)) = h.value
           /\ Len(Wires(Append(d, h))) = j + 1 + Len(h.value)
           /\ Append(d, h) \in Seq(Chunks) /\ Tail(r) \in Seq(Chunks)
           /\ Append(d, h) \o Tail(r) = d \o r

LEMMA HeadAt ==
  ASSUME NEW d \in Seq(Chunks), NEW r \in Seq(Chunks)
  PROVE  Shown(d, r, Wires(d \o r), Len(Wires(d)) + 1)
<1> DEFINE b == Wires(d \o r)
           j == Len(Wires(d)) + 1
<1>1. d \in Seq(AnyTlv)  BY DEF Chunks
<1>2. Wires(d) \in Seq(Nat)
  <2>1. [type |-> 0, value |-> <<>>] \in AnyTlv
    <3>1. <<>> \in Seq(Nat) /\ 0 \in Nat  OBVIOUS
    <3> QED  BY <3>1 DEF AnyTlv
  <2> QED  BY <1>1, <2>1, WiresFacts
<1>3. Len(Wires(d)) \in Nat  BY <1>2, LenProperties
<1> DEFINE n == Len(Wires(d))
<1>4. n \in Nat /\ j = n + 1 /\ b = Wires(d \o r)  BY <1>3
<1> HIDE DEF n, b, j
<1>5. CASE r = <<>>
  <2>1. d \o r = d  BY <1>5, ConcatEmptySeq
  <2>2. b = Wires(d)  BY <1>4, <2>1
  <2>3. b \in Seq(Nat) /\ Len(b) = n  BY <1>2, <2>2 DEF n
  <2>4. j \in Nat \ {0} /\ Len(b) \in Nat /\ ~(j <= Len(b))  BY <1>4, <2>3
  <2>5. Shown(d, r, b, j)  BY <1>5, <2>3, <2>4 DEF Shown
  <2> QED  BY <2>5 DEF b, j
<1>6. CASE r # <<>>
  <2> DEFINE h == Head(r)
             t == Tail(r)
             a == Wires(d)
             z == Wires(t)
             m == Len(h.value)
  <2>1. /\ h \in Chunks /\ t \in Seq(Chunks) /\ Append(d, h) \in Seq(Chunks)
        /\ Append(d, h) \o t = d \o r
        /\ Wires(d \o r) = (a \o Wire(h)) \o z
        /\ z \in Seq(Nat)
        /\ Wires(Append(d, h)) = a \o Wire(h)
    BY <1>6, NextChunk
  <2>2. h \in AnyTlv /\ m \in 1..Chunk  BY <2>1 DEF Chunks
  <2>3. a \in Seq(Nat)  BY <1>2
  <2> HIDE DEF h, t, a, z, m
  <2>4. b = (a \o Wire(h)) \o z /\ z \in Seq(Nat)  BY <1>4, <2>1
  <2>5. /\ b \in Seq(Nat) /\ Len(a) \in Nat /\ Len(b) \in Nat /\ Len(h.value) \in Nat
        /\ Len(a) + 1 <= Len(b) /\ b[Len(a) + 1] = h.type /\ b[Len(a) + 2] = Len(h.value)
        /\ SubSeq(b, Len(a) + 3, Len(a) + 2 + Len(h.value)) = h.value
        /\ Len(a \o Wire(h)) = Len(a) + 2 + Len(h.value)
    <3>1. HeaderAfter(a, h, b)  BY ONLY <2>2, <2>3, <2>4, Headers
    <3> QED  BY ONLY <3>1 DEF HeaderAfter
  <2>6. Len(a) = n  BY DEF a, n
  <2>7. /\ b \in Seq(Nat) /\ Len(b) \in Nat /\ m \in Nat
        /\ n + 1 <= Len(b) /\ b[n + 1] = h.type /\ b[n + 2] = m
        /\ SubSeq(b, n + 3, n + 2 + m) = h.value
        /\ Len(Wires(Append(d, h))) = n + 2 + m
    BY <2>1, <2>5, <2>6 DEF m
  <2>8. j \in Nat \ {0} /\ j = n + 1 /\ j + 1 = n + 2 /\ j + 2 = n + 3 /\ j + 1 + m = n + 2 + m
    <3>1. m \in Nat  BY <2>7
    <3> QED  BY <1>4, <3>1
  <2>9. Shown(d, r, b, j)  BY <1>6, <2>1, <2>2, <2>7, <2>8 DEF Shown, h, t, m
  <2> QED  BY <2>9 DEF b, j
<1> QED  BY <1>5, <1>6

(* Where the chunk after k full ones begins, and the bytes of n full ones. *)
Spot(i, k) == i + k * (Chunk + 2)

FullPieces(b, i, n) ==
  [q \in 1..n |-> SubSeq(b, Spot(i, q - 1) + 2, i + (((q - 1) + 1) * (Chunk + 2) - 1))]

LEMMA RoundFacts ==
  ASSUME NEW b, NEW i
  PROVE  LET j == Spot(i, FullChunks(b, i))
             rest == RestLength(b, i, j)
         IN  /\ ParsedTlv(b, i) = Tlv(b[i], FlattenSeq(FullPieces(b, i, FullChunks(b, i)))
                                             \o SubSeq(b, j + 2, j + 1 + rest))
             /\ NextIndex(b, i) = IF rest > 0 THEN j + 2 + rest ELSE j
<1> DEFINE m == FullChunks(b, i)
           j == i + m * (Chunk + 2)
           rest == RestLength(b, i, j)
<1>1. FullPieces(b, i, m) = [k \in 1..m |-> SubSeq(b, i + (k - 1) * (Chunk + 2) + 2,
                                                    i + ((k - 1) + 1) * (Chunk + 2) - 1)]
  <2>1. \A k : SubSeq(b, Spot(i, k - 1) + 2, i + (((k - 1) + 1) * (Chunk + 2) - 1))
               = SubSeq(b, i + (k - 1) * (Chunk + 2) + 2, i + ((k - 1) + 1) * (Chunk + 2) - 1)
    BY Zenon DEF Spot
  <2> HIDE DEF m
  <2> QED  BY <2>1, Zenon DEF FullPieces
<1>2. ParsedTlv(b, i) =
        Tlv(b[i], FlattenSeq([k \in 1..m |-> SubSeq(b, i + (k - 1) * (Chunk + 2) + 2,
                                                     i + ((k - 1) + 1) * (Chunk + 2) - 1)])
                  \o SubSeq(b, j + 2, j + 1 + rest))
  BY DEF ParsedTlv
<1>3. NextIndex(b, i) = IF rest > 0 THEN j + 2 + rest ELSE j  BY DEF NextIndex
<1>4. j = Spot(i, m)  BY DEF Spot
<1> HIDE DEF m, j
<1>5. ParsedTlv(b, i) = Tlv(b[i], FlattenSeq(FullPieces(b, i, m)) \o SubSeq(b, j + 2, j + 1 + rest))
  BY <1>1, <1>2
<1> QED  BY <1>3, <1>4, <1>5 DEF m

(* One round of the parser takes a value of what the chunks merge to.      *)
RoundGathers(done, rest, b, i) ==
  \E d, r \in Seq(Chunks) :
    /\ d \o r = done \o rest /\ NextIndex(b, i) = Len(Wires(d)) + 1 /\ NextIndex(b, i) > i
    /\ Append(Merged(done), ParsedTlv(b, i)) = Merged(d)
    /\ r = <<>> \/ ~Joining(Merged(d), Head(r))

LEMMA ParseRound ==
  ASSUME NEW done \in Seq(Chunks), NEW rest \in Seq(Chunks), rest # <<>>,
         ~Joining(Merged(done), Head(rest))
  PROVE  RoundGathers(done, rest, Wires(done \o rest), Len(Wires(done)) + 1)
<1> SUFFICES ASSUME NEW b, b = Wires(done \o rest), NEW i, i = Len(Wires(done)) + 1
             PROVE  RoundGathers(done, rest, b, i)
  OBVIOUS
<1> DEFINE J(k) == Spot(i, k)
           G(k) == SubSeq(b, J(k) + 2, i + ((k + 1) * (Chunk + 2) - 1))
           s(k) == FullPieces(b, i, k)
           U(k) == FlattenSeq(s(k))
           M == Merged(done)
           t == Head(rest).type
           m == FullChunks(b, i)
<1>1. /\ b \in Seq(Nat) /\ i \in Nat \ {0} /\ Len(b) \in Nat
      /\ Head(rest) \in AnyTlv /\ b[i] = t
  <2>1. b = Wires(done \o rest) /\ i = Len(Wires(done)) + 1 /\ rest # <<>>
        /\ done \in Seq(Chunks) /\ rest \in Seq(Chunks)
    OBVIOUS
  <2>2. Shown(done, rest, b, i)  BY <2>1, HeadAt
  <2> QED  BY <2>1, <2>2 DEF Shown
<1>2. t \in Nat /\ Chunk \in Nat \ {0}  BY <1>1, ChunkAssumption DEF AnyTlv
<1>3. Seq(Chunks) \subseteq Seq(AnyTlv)  BY DEF Chunks
<1>4. M \in Seq(AnyTlv)  BY <1>1, <1>3, MergedFacts
<1>5. m \in Nat /\ (\A k \in 0..(m - 1) : IsFull(b, i, J(k))) /\ ~IsFull(b, i, J(m))
  BY <1>1, FullChunksFacts DEF Spot
<1> HIDE DEF t, m, M
<1>6. J(0) = i /\ \A k \in Nat : J(k) \in Nat /\ J(k + 1) = J(k) + Chunk + 2
  <2>1. J(0) = i
    <3>1. 0 * (Chunk + 2) = 0  BY <1>2
    <3> QED  BY <1>1, <3>1 DEF Spot
  <2>2. ASSUME NEW k \in Nat PROVE J(k) \in Nat /\ J(k + 1) = J(k) + Chunk + 2
    <3> DEFINE w == Chunk + 2
    <3>1. w \in Nat  BY <1>2
    <3> HIDE DEF w
    <3>2. k * w \in Nat /\ (k + 1) * w = k * w + w  BY <3>1
    <3> DEFINE p == k * w
    <3>3. p \in Nat /\ (k + 1) * w = p + w  BY <3>2
    <3> HIDE DEF p
    <3>4. i + p \in Nat /\ i + (p + w) = (i + p) + w  BY <1>1, <3>1, <3>3
    <3>5. J(k) = i + p /\ J(k + 1) = i + (p + w)  BY <3>3 DEF p, w, Spot
    <3>6. (i + p) + w = (i + p) + Chunk + 2  BY <1>1, <1>2, <3>3 DEF w
    <3> HIDE DEF J
    <3> QED  BY <3>4, <3>5, <3>6
  <2> QED  BY <2>1, <2>2
<1>7. \A k \in Nat : G(k) = SubSeq(b, J(k) + 2, J(k + 1) - 1)
  <2>1. ASSUME NEW k \in Nat PROVE i + ((k + 1) * (Chunk + 2) - 1) = J(k + 1) - 1
    <3> DEFINE p == (k + 1) * (Chunk + 2)
    <3>1. p \in Nat  BY <1>2
    <3> HIDE DEF p
    <3>2. i + (p - 1) = (i + p) - 1  BY <1>1, <3>1
    <3> QED  BY <3>2 DEF p, Spot
  <2> QED  BY <2>1
<1> HIDE DEF J, G
<1> DEFINE Taken(k, d, r) ==
             /\ d \in Seq(Chunks) /\ r \in Seq(Chunks) /\ d \o r = done \o rest
             /\ Len(Wires(d)) + 1 = J(k)
             /\ s(k) \in Seq(Seq(Nat)) /\ U(k) \in Seq(Nat) /\ Len(U(k)) = k * Chunk
             /\ k = 0 => d = done /\ r = rest /\ U(k) = <<>>
             /\ k # 0 => Merged(d) = Append(M, Tlv(t, U(k)))
           P == {k \in 0..m : \E d, r : Taken(k, d, r)}
<1> HIDE DEF s, U
<1>8. 0 \in P
  <2>1. s(0) \in Seq(Seq(Nat)) /\ s(0) = <<>>  BY DEF s, FullPieces
  <2>2. U(0) = <<>>  BY <2>1 DEF U, FlattenSeq
  <2>3. 0 * Chunk = 0 /\ Len(<<>>) = 0 /\ <<>> \in Seq(Nat)  BY <1>2
  <2>4. Taken(0, done, rest)  BY <1>6, <2>1, <2>2, <2>3
  <2>5. 0 \in 0..m  BY <1>5
  <2> QED  BY <2>4, <2>5
(* The chunk at J(k), when it has the type of the first.                   *)
<1>9. ASSUME NEW k \in 0..m, NEW d, NEW r, Taken(k, d, r), r # <<>>
      PROVE  LET h == Head(r)
             IN  /\ h \in Chunks /\ h \in AnyTlv /\ Len(h.value) \in 1..Chunk
                 /\ J(k) <= Len(b) /\ b[J(k)] = h.type /\ b[J(k) + 1] = Len(h.value)
                 /\ SubSeq(b, J(k) + 2, J(k) + 1 + Len(h.value)) = h.value
                 /\ Len(Wires(Append(d, h))) = J(k) + 1 + Len(h.value)
                 /\ Append(d, h) \in Seq(Chunks) /\ Tail(r) \in Seq(Chunks)
                 /\ Append(d, h) \o Tail(r) = done \o rest
                 /\ h.type = t => Merged(Append(d, h)) = Append(M, Tlv(t, U(k) \o h.value))
  <2> DEFINE h == Head(r)
             j == J(k)
  <2>1. /\ d \in Seq(Chunks) /\ r \in Seq(Chunks) /\ b = Wires(d \o r)
        /\ j = Len(Wires(d)) + 1 /\ d \o r = done \o rest
    BY <1>9
  <2> HIDE DEF j
  <2>2. /\ h \in Chunks /\ h \in AnyTlv /\ Len(h.value) \in 1..Chunk
        /\ j <= Len(b) /\ b[j] = h.type /\ b[j + 1] = Len(h.value)
        /\ SubSeq(b, j + 2, j + 1 + Len(h.value)) = h.value
        /\ Len(Wires(Append(d, h))) = j + 1 + Len(h.value)
        /\ Append(d, h) \in Seq(Chunks) /\ Tail(r) \in Seq(Chunks)
        /\ Append(d, h) \o Tail(r) = d \o r
    <3>1. r # <<>>  BY <1>9
    <3>2. Shown(d, r, b, j)  BY <2>1, HeadAt
    <3> QED  BY <3>1, <3>2 DEF Shown
  <2>3. Merged(Append(d, h)) = Merge(Merged(d), h)  BY <1>3, <2>1, <2>2, MergedFacts
  <2>4. ASSUME h.type = t PROVE Merged(Append(d, h)) = Append(M, Tlv(t, U(k) \o h.value))
    <3> DEFINE u == U(k)
               x == Merged(d)
    <3>1. u \in Seq(Nat) /\ Len(u) = k * Chunk /\ k \in Nat  BY <1>5, <1>9
    <3>2. k = 0 => u = <<>> /\ x = M /\ ~Joining(M, h)  BY <1>9 DEF M
    <3>3. k # 0 => x = Append(M, Tlv(h.type, u))  BY <1>9, <2>4
    <3> HIDE DEF u, x, h
    <3>4. h \in AnyTlv  BY <2>2 DEF h
    <3>5. Merge(x, h) = Append(M, Tlv(h.type, u \o h.value))
      BY ONLY <1>4, <3>1, <3>2, <3>3, <3>4, JoinNext
    <3> QED  BY <2>3, <2>4, <3>5 DEF u, x, h
  <2> HIDE DEF h
  <2> QED  BY <2>1, <2>2, <2>4 DEF h, j
<1>10. ASSUME NEW k \in 0..m, k # m /\ k \in P PROVE k + 1 \in P
  <2>1. k \in Nat /\ k + 1 \in 0..m /\ k \in 0..(m - 1) /\ k + 1 # 0 /\ k + 1 \in Nat
    BY <1>5, <1>10
  <2>2. PICK d, r : Taken(k, d, r)  BY <1>10
  <2>3. IsFull(b, i, J(k))  BY <1>5, <2>1
  <2>4. J(k) <= Len(b) /\ b[J(k)] = t /\ b[J(k) + 1] = Chunk  BY <1>1, <2>3 DEF IsFull
  <2>5. r # <<>>
    <3>1. SUFFICES ASSUME r = <<>> PROVE FALSE  OBVIOUS
    <3> DEFINE j == J(k)
    <3>2. d \in Seq(Chunks) /\ r \in Seq(Chunks) /\ b = Wires(d \o r) /\ j = Len(Wires(d)) + 1
      BY <2>2
    <3> HIDE DEF j
    <3>3. Shown(d, r, b, j)  BY <3>2, HeadAt
    <3>4. ~(j <= Len(b))  BY <3>1, <3>3 DEF Shown
    <3> QED  BY <2>4, <3>4 DEF j
  <2> DEFINE h == Head(r)
             d2 == Append(d, h)
             r2 == Tail(r)
  <2> HIDE DEF Taken
  <2>6. /\ h \in AnyTlv /\ b[J(k)] = h.type /\ b[J(k) + 1] = Len(h.value)
        /\ SubSeq(b, J(k) + 2, J(k) + 1 + Len(h.value)) = h.value
        /\ Len(Wires(d2)) = J(k) + 1 + Len(h.value)
        /\ d2 \in Seq(Chunks) /\ r2 \in Seq(Chunks)
        /\ d2 \o r2 = done \o rest
        /\ h.type = t => Merged(d2) = Append(M, Tlv(t, U(k) \o h.value))
    BY <1>9, <2>2, <2>5
  <2> HIDE DEF h, d2, r2
  <2>7. h.type = t /\ Len(h.value) = Chunk  BY <2>4, <2>6
  <2>8. J(k) \in Nat /\ J(k + 1) = J(k) + Chunk + 2  BY <1>6, <2>1
  <2>9. J(k + 1) - 1 = J(k) + 1 + Chunk /\ J(k) + 1 + Chunk + 1 = J(k + 1)  BY <1>2, <2>8
  <2>10. Len(Wires(d2)) + 1 = J(k + 1)  BY <2>6, <2>7, <2>9
  <2>11. G(k) = h.value
    <3>1. G(k) = SubSeq(b, J(k) + 2, J(k + 1) - 1)  BY <1>7, <2>1
    <3> QED  BY <2>6, <2>7, <2>9, <3>1
  <2>12. h.value \in Seq(Nat)  BY <2>6 DEF AnyTlv
  <2>13. s(k) \in Seq(Seq(Nat)) /\ U(k) \in Seq(Nat) /\ Len(U(k)) = k * Chunk
    BY <2>2 DEF Taken
  <2>14. s(k + 1) = Append(s(k), h.value)
    <3> DEFINE S == Seq(Nat)
               f == s(k)
               g == s(k + 1)
               x == h.value
    <3>1. f \in [1..k -> S]
      <4>1. f = [q \in 1..k |-> G(q - 1)] /\ Len(f) = k  BY <2>1 DEF s, G, J, FullPieces
      <4>2. \A q \in 1..k : f[q] \in S
        <5> HIDE DEF f
        <5> QED  BY <2>13, <4>1, ElementOfSeq DEF f
      <4> HIDE DEF f, S
      <4> QED  BY <4>1, <4>2
    <3>2. g = [q \in 1..(k + 1) |-> G(q - 1)] /\ f = [q \in 1..k |-> G(q - 1)]
      BY DEF s, G, J, FullPieces
    <3>3. x \in S /\ G((k + 1) - 1) = x
      <4>1. (k + 1) - 1 = k  BY <2>1
      <4> QED  BY <2>11, <2>12, <4>1
    <3> HIDE DEF f, g, x, S
    <3>4. k + 1 \in 1..(k + 1) /\ \A q \in 1..k : q \in 1..(k + 1)  BY <2>1
    <3>5. g[k + 1] = x  BY <3>2, <3>3, <3>4
    <3>6. \A q \in 1..k : g[q] = f[q]  BY <3>2, <3>4
    <3>7. g \in [1..(k + 1) -> S]
      <4>1. \A q \in 1..(k + 1) : q = k + 1 \/ q \in 1..k  BY <2>1
      <4>2. \A q \in 1..(k + 1) : g[q] \in S  BY <3>1, <3>3, <3>5, <3>6, <4>1
      <4> QED  BY <3>2, <4>2
    <3>8. x \in S /\ k \in Nat  BY <2>1, <3>3
    <3>9. g = Append(f, x)  BY ONLY <3>1, <3>5, <3>6, <3>7, <3>8, OneMore
    <3> QED  BY <3>9 DEF f, g, x
  <2>15. s(k + 1) \in Seq(Seq(Nat))
    <3> DEFINE S == Seq(Nat)
               f == s(k)
               x == h.value
    <3>1. f \in Seq(S) /\ x \in S  BY <2>12, <2>13
    <3> HIDE DEF S, f, x
    <3>2. Append(f, x) \in Seq(S)  BY ONLY <3>1, AppendProperties
    <3> QED  BY <2>14, <3>2 DEF S, f, x
  <2>16. U(k + 1) = U(k) \o h.value
    <3> DEFINE f == s(k)
               x == h.value
    <3>1. f \in Seq(Seq(Nat)) /\ x \in Seq(Nat)  BY <2>12, <2>13
    <3> HIDE DEF f, x
    <3>2. FlattenSeq(Append(f, x)) = FlattenSeq(f) \o x  BY ONLY <3>1, FlattenAppend
    <3> QED  BY <2>14, <3>2 DEF U, f, x
  <2>17. U(k + 1) \in Seq(Nat) /\ Len(U(k + 1)) = (k + 1) * Chunk
    <3>1. U(k + 1) \in Seq(Nat) /\ Len(U(k + 1)) = Len(U(k)) + Len(h.value)
      BY <2>12, <2>13, <2>16, BytesJoined
    <3>2. k * Chunk + Chunk = (k + 1) * Chunk  BY <1>2, <2>1
    <3> QED  BY <2>7, <2>13, <3>1, <3>2
  <2>18. Merged(d2) = Append(M, Tlv(t, U(k + 1)))  BY <2>6, <2>7, <2>16
  <2>19. Taken(k + 1, d2, r2)  BY <2>1, <2>6, <2>10, <2>15, <2>17, <2>18 DEF Taken
  <2> QED  BY <2>1, <2>19
<1> HIDE DEF P, Taken
<1>11. 0..m \subseteq P  BY <1>5, <1>8, <1>10, SetInduction, Zenon
<1>12. m \in P /\ m \in 0..m  BY <1>5, <1>11
<1>13. PICK d, r : Taken(m, d, r)  BY <1>12 DEF P
<1> DEFINE j == J(m)
           rl == RestLength(b, i, j)
<1>14. /\ d \in Seq(Chunks) /\ r \in Seq(Chunks) /\ d \o r = done \o rest
       /\ Len(Wires(d)) + 1 = j /\ U(m) \in Seq(Nat) /\ Len(U(m)) = m * Chunk
       /\ m = 0 => d = done /\ r = rest /\ U(m) = <<>>
       /\ m # 0 => Merged(d) = Append(M, Tlv(t, U(m)))
  BY <1>13 DEF Taken
<1>15. /\ ParsedTlv(b, i) = Tlv(t, U(m) \o SubSeq(b, j + 2, j + 1 + rl))
       /\ NextIndex(b, i) = IF rl > 0 THEN j + 2 + rl ELSE j
  <2>1. ParsedTlv(b, i) = Tlv(b[i], U(m) \o SubSeq(b, j + 2, j + 1 + rl))
    BY RoundFacts DEF U, s, J, m
  <2>2. NextIndex(b, i) = IF rl > 0 THEN j + 2 + rl ELSE j
    BY RoundFacts DEF J, m
  <2> QED  BY <1>1, <2>1, <2>2
<1>16. j \in Nat /\ ~IsFull(b, i, j) /\ j >= i /\ (m # 0 => j > i)
  <2>1. m * (Chunk + 2) \in Nat /\ (m # 0 => m * (Chunk + 2) > 0)  BY <1>2, <1>5
  <2> DEFINE p == m * (Chunk + 2)
  <2>2. p \in Nat /\ (m # 0 => p > 0) /\ j = i + p  BY <2>1 DEF J, Spot
  <2>3. ~IsFull(b, i, j)  BY <1>5
  <2> HIDE DEF p, j
  <2> QED  BY <1>1, <2>2, <2>3
<1> HIDE DEF j, rl
(* Nothing of this type follows.                                           *)
<1>17. ASSUME rl = 0, m # 0, r = <<>> \/ Head(r).type # t
       PROVE  /\ NextIndex(b, i) = Len(Wires(d)) + 1 /\ NextIndex(b, i) > i
              /\ Append(M, ParsedTlv(b, i)) = Merged(d)
              /\ r = <<>> \/ ~Joining(Merged(d), Head(r))
  <2>1. NextIndex(b, i) = j /\ j > i  BY <1>15, <1>16, <1>17
  <2>2. SubSeq(b, j + 2, j + 1 + rl) = <<>>
    <3>1. j + 1 + rl = j + 1 /\ ~(j + 2 <= j + 1)  BY <1>16, <1>17
    <3>2. SubSeq(b, j + 2, j + 1) = <<>>  BY <1>1, <1>16
    <3> QED  BY <3>1, <3>2
  <2>3. U(m) \o <<>> = U(m)  BY <1>14, ConcatEmptySeq
  <2>4. ParsedTlv(b, i) = Tlv(t, U(m))  BY <1>15, <2>2, <2>3
  <2> DEFINE y == Tlv(t, U(m))
  <2>5. y \in AnyTlv /\ y.type = t  BY <1>2, <1>14 DEF AnyTlv, Tlv
  <2>6. Merged(d) = Append(M, y)  BY <1>14, <1>17
  <2> HIDE DEF y
  <2>7. Last(Append(M, y)) = y  BY <1>4, <2>5, LastAppended
  <2>8. r = <<>> \/ ~Joining(Merged(d), Head(r))  BY <1>17, <2>5, <2>6, <2>7 DEF Joining
  <2> QED  BY <1>14, <2>1, <2>4, <2>6, <2>8 DEF y
<1>18. CASE r = <<>>
  <2>1. d \in Seq(Chunks) /\ r \in Seq(Chunks) /\ b = Wires(d \o r) /\ j = Len(Wires(d)) + 1
    BY <1>14
  <2>2. Shown(d, r, b, j)  BY <2>1, HeadAt
  <2>3. rl = 0  BY <1>18, <2>2 DEF rl, RestLength, Shown
  <2>4. m # 0  BY <1>14, <1>18
  <2> QED  BY <1>14, <1>17, <1>18, <2>3, <2>4 DEF M, RoundGathers
<1>19. CASE r # <<>>
  <2> DEFINE h == Head(r)
             d2 == Append(d, h)
             r2 == Tail(r)
             n == Len(h.value)
  <2>1. /\ h \in Chunks /\ h \in AnyTlv /\ n \in 1..Chunk
        /\ j <= Len(b) /\ b[j] = h.type /\ b[j + 1] = n
        /\ SubSeq(b, j + 2, j + 1 + n) = h.value
        /\ Len(Wires(d2)) = j + 1 + n
        /\ d2 \in Seq(Chunks) /\ r2 \in Seq(Chunks)
        /\ d2 \o r2 = done \o rest
        /\ h.type = t => Merged(d2) = Append(M, Tlv(t, U(m) \o h.value))
    BY <1>9, <1>12, <1>13, <1>19 DEF j
  <2> HIDE DEF h, d2, r2, n
  <2>2. CASE h.type # t
    <3>1. rl = 0  BY <1>1, <2>1, <2>2 DEF rl, RestLength
    <3>2. m # 0  BY <1>14, <2>2 DEF h, t
    <3> QED  BY <1>14, <1>17, <2>2, <3>1, <3>2 DEF M, h, RoundGathers
  <2>3. CASE h.type = t
    <3>1. rl = n  BY <1>1, <2>1, <2>3 DEF rl, RestLength
    <3>2. n # Chunk  BY <1>1, <1>16, <2>1, <2>3 DEF IsFull
    <3>3. n \in Nat /\ n > 0 /\ n \in 0..(Chunk - 1) /\ n # 0  BY <1>2, <2>1, <3>2
    <3>4. NextIndex(b, i) = Len(Wires(d2)) + 1 /\ NextIndex(b, i) > i
      <4>1. NextIndex(b, i) = j + 2 + n  BY <1>15, <3>1, <3>3
      <4>2. j + 2 + n = (j + 1 + n) + 1 /\ j + 2 + n > i  BY <1>1, <1>16, <3>3
      <4> QED  BY <2>1, <4>1, <4>2
    <3> DEFINE v == U(m) \o h.value
               y == Tlv(t, v)
    <3>5. ParsedTlv(b, i) = y /\ Merged(d2) = Append(M, y)  BY <1>15, <2>1, <2>3, <3>1
    <3>6. v \in Seq(Nat) /\ Len(v) = m * Chunk + n
      <4>1. h.value \in Seq(Nat)  BY <2>1 DEF AnyTlv
      <4>2. v \in Seq(Nat) /\ Len(v) = Len(U(m)) + Len(h.value)  BY <1>14, <4>1, BytesJoined
      <4> QED  BY <1>14, <4>2 DEF n
    <3>7. Len(v) % Chunk # 0
      <4>1. ((Chunk * m) + n) % Chunk = n  BY <1>2, <1>5, <3>3, Quotients
      <4>2. m * Chunk + n = (Chunk * m) + n  BY <1>2, <1>5, <3>3
      <4> QED  BY <3>3, <3>6, <4>1, <4>2
    <3> HIDE DEF v
    <3>8. y \in AnyTlv /\ y.value = v  BY <1>2, <3>6 DEF AnyTlv, Tlv
    <3> HIDE DEF y
    <3>9. Last(Append(M, y)) = y  BY <1>4, <3>8, LastAppended
    <3>10. ~Joining(Merged(d2), Head(r2))  BY <3>5, <3>7, <3>8, <3>9 DEF Joining
    <3> QED  BY <2>1, <3>4, <3>5, <3>10 DEF M, RoundGathers
  <2> QED  BY <2>2, <2>3
<1> QED  BY <1>18, <1>19 DEF RoundGathers

------------------------------------------------------------------------------
(* The parser stands between two chunks of the message; what it has parsed *)
(* is what the chunks before them merge to, and the next chunk begins a    *)
(* value of its own.                                                       *)
Underway ==
  \E d, r \in Seq(Chunks) :
    /\ message = Wires(d \o r) /\ Merged(d \o r) = Received
    /\ position = Len(Wires(d)) + 1 /\ parsed = Merged(d)
    /\ r = <<>> \/ ~Joining(Merged(d), Head(r))

TlvInv ==
  /\ values \in Seq(TLVs)
  /\ doing \in {"build", "formatted", "parse", "parsed", "crashed"}
  /\ doing = "build" => parsed = <<>>
  /\ doing = "formatted" => message = Encoded(values) /\ room = RequiredSize(values)
  /\ doing = "parse" /\ NoEmptyValue => Underway
  /\ doing = "parsed" /\ NoEmptyValue => parsed = Received

LEMMA SolidValues ==
  ASSUME TlvInv, NoEmptyValue
  PROVE  values \in Seq(Solid) /\ values \in Seq(AnyTlv)
<1>1. values \in Seq(TLVs) /\ TLVs \subseteq AnyTlv  BY OurTlvs DEF TlvInv
<1>2. Len(values) \in Nat /\ \A n \in 1..Len(values) : values[n] \in TLVs
  BY <1>1, LenProperties, ElementOfSeq
<1>3. \A n \in 1..Len(values) : values[n] \in Solid  BY <1>1, <1>2 DEF NoEmptyValue, Solid
<1>4. values = [n \in 1..Len(values) |-> values[n]]  BY <1>1
<1>5. values \in Seq(AnyTlv)  BY <1>1
<1>6. values \in Seq(Solid)
  <2> DEFINE s == values
             n == Len(values)
  <2>1. n \in Nat /\ s = [k \in 1..n |-> s[k]] /\ \A k \in 1..n : s[k] \in Solid
    BY <1>2, <1>3, <1>4
  <2> HIDE DEF s, n
  <2>2. s \in Seq(Solid)  BY <2>1
  <2> QED  BY <2>2 DEF s
<1> QED  BY <1>5, <1>6

LEMMA NothingParsed ==
  ASSUME TlvInv, NoEmptyValue, message' = Encoded(values), position' = 1, parsed' = <<>>,
         values' = values
  PROVE  Underway'
<1>1. PICK cs \in Seq(Chunks) : Wires(cs) = Encoded(values) /\ Merged(cs) = Merged(values)
  BY SolidValues, ChunksOfList
<1>2. <<>> \in Seq(Chunks) /\ <<>> \o cs = cs  BY ConcatEmptySeq
<1>3. Wires(<<>>) = <<>> /\ Len(<<>>) + 1 = 1  BY DEF Wires, FlattenSeq
<1>4. Merged(<<>>) = <<>> /\ ~Joining(<<>>, Head(cs))
  <2>1. <<>> \in Seq(AnyTlv) /\ [type |-> 0, value |-> <<>>] \in AnyTlv  BY DEF AnyTlv
  <2> QED  BY <2>1, MergedFacts DEF Joining
<1>5. Received' = Merged(values)  BY DEF Received
<1>6. /\ message' = Wires(<<>> \o cs) /\ Merged(<<>> \o cs) = Received'
      /\ position' = Len(Wires(<<>>)) + 1 /\ parsed' = Merged(<<>>)
      /\ ~Joining(Merged(<<>>), Head(cs))
  BY <1>1, <1>2, <1>3, <1>4, <1>5
<1> QED  BY <1>2, <1>6 DEF Underway

LEMMA RoundKeeps ==
  ASSUME Underway, position <= Len(message), values' = values, message' = message,
         parsed' = Append(parsed, ParsedTlv(message, position)),
         position' = NextIndex(message, position)
  PROVE  Underway' /\ position' > position
<1>1. PICK d \in Seq(Chunks), r \in Seq(Chunks) :
        /\ message = Wires(d \o r) /\ Merged(d \o r) = Received
        /\ position = Len(Wires(d)) + 1 /\ parsed = Merged(d)
        /\ r = <<>> \/ ~Joining(Merged(d), Head(r))
  BY DEF Underway
<1>2. r # <<>>
  <2>1. Shown(d, r, message, position)  BY <1>1, HeadAt
  <2> QED  BY <2>1 DEF Shown
<1>3. RoundGathers(d, r, message, position)  BY <1>1, <1>2, ParseRound
<1>4. PICK e \in Seq(Chunks), s \in Seq(Chunks) :
        /\ e \o s = d \o r /\ NextIndex(message, position) = Len(Wires(e)) + 1
        /\ NextIndex(message, position) > position
        /\ Append(Merged(d), ParsedTlv(message, position)) = Merged(e)
        /\ s = <<>> \/ ~Joining(Merged(e), Head(s))
  BY <1>3 DEF RoundGathers
<1>5. Received' = Received  BY DEF Received
<1>6. /\ message' = Wires(e \o s) /\ Merged(e \o s) = Received'
      /\ position' = Len(Wires(e)) + 1 /\ parsed' = Merged(e)
  BY <1>1, <1>4, <1>5
<1> QED  BY <1>4, <1>6 DEF Underway

LEMMA ParsedIsReceived ==
  ASSUME Underway, ~(position <= Len(message))
  PROVE  parsed = Received
<1>1. PICK d \in Seq(Chunks), r \in Seq(Chunks) :
        /\ message = Wires(d \o r) /\ Merged(d \o r) = Received
        /\ position = Len(Wires(d)) + 1 /\ parsed = Merged(d)
  BY DEF Underway
<1>2. r = <<>>
  <2>1. Shown(d, r, message, position)  BY <1>1, HeadAt
  <2> QED  BY <2>1 DEF Shown
<1>3. d \o r = d  BY <1>2, ConcatEmptySeq
<1> QED  BY <1>1, <1>3

LEMMA TlvInvInit == TlvInit => TlvInv
BY DEF TlvInit, TlvInv

LEMMA TlvInvStep == TlvInv /\ [TlvNext]_tlvVars => TlvInv'
<1> SUFFICES ASSUME TlvInv, [TlvNext]_tlvVars PROVE TlvInv'  OBVIOUS
<1>1. CASE UNCHANGED tlvVars
  BY <1>1 DEF TlvInv, tlvVars, Underway, NoEmptyValue, Received
<1>2. ASSUME NEW t \in Type, NEW v \in Value, tlv_add_value(t, v) PROVE TlvInv'
  <2>1. Tlv(t, v) \in TLVs  BY DEF Tlv, TLVs
  <2>2. values' \in Seq(TLVs)  BY <1>2, <2>1, AppendProperties DEF tlv_add_value, TlvInv
  <2>3. doing = "build" /\ doing' = "build" /\ parsed' = parsed  BY <1>2 DEF tlv_add_value
  <2> QED  BY <2>2, <2>3 DEF TlvInv
<1>3. CASE tlv_format
  BY <1>3 DEF tlv_format, TlvInv
<1>4. CASE StartParse
  <2>1. /\ doing = "build" /\ message' = Encoded(values) /\ position' = 1 /\ doing' = "parse"
        /\ values' = values /\ parsed' = parsed
    BY <1>4 DEF StartParse
  <2>2. parsed' = <<>> /\ values' \in Seq(TLVs)  BY <2>1 DEF TlvInv
  <2>3. NoEmptyValue' => NoEmptyValue  BY <2>1 DEF NoEmptyValue
  <2>4. NoEmptyValue' => Underway'  BY <2>1, <2>2, <2>3, NothingParsed
  <2> QED  BY <2>1, <2>2, <2>4 DEF TlvInv
<1>5. CASE tlv_parse
  <2>1. doing = "parse" /\ values' = values /\ message' = message  BY <1>5 DEF tlv_parse
  <2>2. NoEmptyValue' <=> NoEmptyValue  BY <2>1 DEF NoEmptyValue
  <2>3. NoEmptyValue => Underway  BY <2>1 DEF TlvInv
  <2>4. values' \in Seq(TLVs)  BY <2>1 DEF TlvInv
  <2>5. CASE position > Len(message) /\ doing' = "parsed" /\ UNCHANGED <<position, parsed>>
    <3>1. ~(position <= Len(message)) \/ ~NoEmptyValue
      <4>1. ASSUME NoEmptyValue PROVE ~(position <= Len(message))
        <5>1. PICK d \in Seq(Chunks), r \in Seq(Chunks) :
                message = Wires(d \o r) /\ position = Len(Wires(d)) + 1
          BY <2>3, <4>1 DEF Underway
        <5>2. Shown(d, r, message, position)  BY <5>1, HeadAt
        <5>3. position \in Nat /\ Len(message) \in Nat  BY <5>2 DEF Shown
        <5> QED  BY <2>5, <5>3
      <4> QED  BY <4>1
    <3>2. NoEmptyValue => parsed = Received  BY <2>3, <3>1, ParsedIsReceived
    <3>3. Received' = Received /\ parsed' = parsed /\ doing' = "parsed"
      BY <2>1, <2>5 DEF Received
    <3> QED  BY <2>2, <2>4, <3>2, <3>3 DEF TlvInv
  <2>6. CASE /\ position <= Len(message) /\ Len(parsed) < Memory
             /\ parsed' = Append(parsed, ParsedTlv(message, position))
             /\ position' = NextIndex(message, position)
             /\ UNCHANGED doing
    <3>1. NoEmptyValue => Underway'  BY <2>1, <2>3, <2>6, RoundKeeps
    <3>2. doing' = "parse"  BY <2>1, <2>6
    <3> QED  BY <2>2, <2>4, <3>1, <3>2 DEF TlvInv
  <2>7. CASE doing' = "crashed"
    BY <2>4, <2>7 DEF TlvInv
  <2> QED  BY <1>5, <2>5, <2>6, <2>7 DEF tlv_parse
<1>6. CASE tlv_free
  <2>1. values' = <<>> /\ parsed' = <<>> /\ doing' = "build"  BY <1>6 DEF tlv_free
  <2>2. values' \in Seq(TLVs)  BY <2>1
  <2> QED  BY <2>1, <2>2 DEF TlvInv
<1> QED  BY <1>1, <1>2, <1>3, <1>4, <1>5, <1>6 DEF TlvNext

LEMMA TlvInvHolds == TlvSpec => []TlvInv
<1>1. TlvInit => TlvInv  BY TlvInvInit
<1>2. TlvInv /\ [TlvNext]_tlvVars => TlvInv'  BY TlvInvStep
<1> QED  BY <1>1, <1>2, PTL DEF TlvSpec

(* What tlv_format writes for values that are not empty fills the buffer   *)
(* its first pass asked for and goes no further: for every chunk size and  *)
(* every list of values, those of exactly a multiple of a chunk included.  *)
THEOREM FormatFillsBuffer == TlvSpec => []BufferHolds
<1>1. TlvInv => BufferHolds
  <2> SUFFICES ASSUME TlvInv, doing = "formatted", NoEmptyValue PROVE Len(message) = room
    BY DEF BufferHolds
  <2>1. message = Encoded(values) /\ room = RequiredSize(values)  BY DEF TlvInv
  <2>2. values \in Seq(Solid)  BY SolidValues
  <2> QED  BY <2>1, <2>2, EncodedLength
<1> QED  BY <1>1, TlvInvHolds, PTL

(* tlv_parse gives back the values tlv_format was given, however they were *)
(* cut into chunks; a value that fills its chunks and a next one of the    *)
(* same type are one.                                                      *)
THEOREM ParseReturnsValues == TlvSpec => []RoundTrip
<1>1. TlvInv => RoundTrip  BY DEF TlvInv, RoundTrip
<1> QED  BY <1>1, TlvInvHolds, PTL

(* A round of tlv_parse that does not end the loop moves on: the index     *)
(* stays where it is, and the loop runs for ever, for empty values only.   *)
ParseAdvances ==
  [][doing = "parse" /\ doing' = "parse" /\ NoEmptyValue => position' > position]_tlvVars

THEOREM RoundsAdvance == TlvSpec => ParseAdvances
<1>1. TlvInv /\ [TlvNext]_tlvVars
      => [doing = "parse" /\ doing' = "parse" /\ NoEmptyValue => position' > position]_tlvVars
  <2> SUFFICES ASSUME TlvInv, TlvNext, doing = "parse", doing' = "parse", NoEmptyValue
               PROVE  position' > position
    OBVIOUS
  <2>1. Underway  BY DEF TlvInv
  <2>2. tlv_parse
    <3>1. \A t, v : ~tlv_add_value(t, v)  BY DEF tlv_add_value
    <3> QED  BY <3>1 DEF TlvNext, tlv_format, StartParse, tlv_free
  <2>3. /\ position <= Len(message) /\ values' = values /\ message' = message
        /\ parsed' = Append(parsed, ParsedTlv(message, position))
        /\ position' = NextIndex(message, position)
    BY <2>2 DEF tlv_parse
  <2> QED  BY <2>1, <2>3, RoundKeeps
<1> QED  BY <1>1, TlvInvHolds, PTL DEF TlvSpec, ParseAdvances
=============================================================================
