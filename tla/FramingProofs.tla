--------------------------- MODULE FramingProofs ---------------------------
(***************************************************************************)
(* Proofs about the framing of the ESP8266 server, for every number of     *)
(* clients, every size of the buffer, of frames and of requests: what is   *)
(* on the wire can be decrypted, the buffer is never overrun, what is      *)
(* handed to the handlers is what was asked, and no connection ends for    *)
(* what happens on another one.                                            *)
(***************************************************************************)
EXTENDS Framing, ListsProofs

------------------------------------------------------------------------------
(* What is on the wire: as many frames as nonces, until a write fails.     *)
Answer == [nonce : Nat, whole : BOOLEAN]

WireInv ==
  /\ wire \in [Client -> Seq(Answer)] /\ count_reads \in [Client -> Nat]
  /\ error_write \in [Client -> BOOLEAN] /\ disconnect \in [Client -> BOOLEAN]
  /\ gone \in [Client -> BOOLEAN]
  /\ WireInOrder
  /\ \A c \in Client : ~error_write[c] =>
        /\ Len(wire[c]) = count_reads[c]
        /\ \A i \in 1..Len(wire[c]) : wire[c][i].whole

LEMMA KeptFrames ==
  \A n \in Nat : \A torn \in 0..n, error \in BOOLEAN :
    /\ Kept(error, n, torn) \in Nat
    /\ error => Kept(error, n, torn) = 0
    /\ ~error /\ torn = 0 => Kept(error, n, torn) = n
    /\ ~error /\ torn # 0 => Kept(error, n, torn) = torn
BY DEF Kept

LEMMA SendKeeps ==
  ASSUME WireInv, NEW c \in Client, NEW n \in Nat, NEW torn \in 0..n, Send(c, n, torn)
  PROVE  /\ wire' \in [Client -> Seq(Answer)] /\ count_reads' \in [Client -> Nat]
         /\ error_write' \in [Client -> BOOLEAN]
         /\ WireInOrder'
         /\ \A k \in Client : ~error_write'[k] =>
               /\ Len(wire'[k]) = count_reads'[k]
               /\ \A i \in 1..Len(wire'[k]) : wire'[k][i].whole
<1> DEFINE error == error_write[c] \/ disconnect[c]
           m == Kept(error, n, torn)
           sent == [i \in 1..m |-> [nonce |-> count_reads[c] + i - 1, whole |-> i # torn]]
           old == wire[c]
<1>0. /\ wire \in [Client -> Seq(Answer)] /\ count_reads \in [Client -> Nat]
      /\ error_write \in [Client -> BOOLEAN] /\ error \in BOOLEAN
      /\ old \in Seq(Answer) /\ Len(old) \in Nat /\ count_reads[c] \in Nat
  BY LenProperties DEF WireInv
<1>1. /\ count_reads' = [count_reads EXCEPT ![c] = @ + n]
      /\ error_write' = [error_write EXCEPT ![c] = error \/ torn > 0]
      /\ wire' = [wire EXCEPT ![c] = old \o sent]
  BY DEF Send
<1>2. m \in Nat  BY <1>0, KeptFrames
<1>3. sent \in Seq(Answer) /\ Len(sent) = m
  <2>1. \A i \in 1..m : [nonce |-> count_reads[c] + i - 1, whole |-> i # torn] \in Answer
    <3> TAKE i \in 1..m
    <3>1. count_reads[c] + i - 1 \in Nat  BY <1>0, <1>2
    <3> QED  BY <3>1 DEF Answer
  <2> HIDE DEF m
  <2> QED  BY <1>2, <2>1
<1>4. \A i \in 1..m : sent[i].nonce = count_reads[c] + i - 1 /\ sent[i].whole = (i # torn)
  OBVIOUS
<1> HIDE DEF sent, m, error, old
<1> DEFINE new == old \o sent
<1>5. /\ new \in Seq(Answer) /\ Len(new) = Len(old) + m
      /\ \A i \in 1..Len(new) : IF i =< Len(old) THEN new[i] = old[i]
                                ELSE new[i] = sent[i - Len(old)] /\ i - Len(old) \in 1..m
  <2>1. /\ new \in Seq(Answer) /\ Len(new) = Len(old) + Len(sent)
        /\ \A i \in 1..Len(old) + Len(sent) :
              new[i] = IF i <= Len(old) THEN old[i] ELSE sent[i - Len(old)]
    BY <1>0, <1>3, ConcatProperties
  <2>2. Len(new) = Len(old) + m  BY <1>3, <2>1
  <2> HIDE DEF new
  <2>3. ASSUME NEW i \in 1..Len(new), ~(i =< Len(old)) PROVE i - Len(old) \in 1..m
    BY <1>0, <1>2, <2>2, <2>3
  <2>4. \A i \in 1..Len(new) :
           new[i] = IF i <= Len(old) THEN old[i] ELSE sent[i - Len(old)]
    BY <1>3, <2>1
  <2> QED  BY <2>1, <2>2, <2>3, <2>4
<1> HIDE DEF new
<1>6. wire' = [wire EXCEPT ![c] = new]  BY <1>1 DEF new
<1>7. /\ wire' \in [Client -> Seq(Answer)] /\ wire'[c] = new
      /\ count_reads' \in [Client -> Nat] /\ count_reads'[c] = count_reads[c] + n
      /\ error_write' \in [Client -> BOOLEAN] /\ error_write'[c] = (error \/ torn > 0)
      /\ \A k \in Client \ {c} : wire'[k] = wire[k] /\ count_reads'[k] = count_reads[k]
                                 /\ error_write'[k] = error_write[k]
  <2>1. /\ wire' \in [Client -> Seq(Answer)] /\ wire'[c] = new
        /\ \A k \in Client \ {c} : wire'[k] = wire[k]
    BY <1>0, <1>5, <1>6
  <2>2. /\ count_reads' \in [Client -> Nat] /\ count_reads'[c] = count_reads[c] + n
        /\ \A k \in Client \ {c} : count_reads'[k] = count_reads[k]
    BY <1>0, <1>1
  <2>3. /\ error_write' \in [Client -> BOOLEAN] /\ error_write'[c] = (error \/ torn > 0)
        /\ \A k \in Client \ {c} : error_write'[k] = error_write[k]
    BY <1>0, <1>1
  <2> QED  BY <2>1, <2>2, <2>3
<1>8. \A i \in 1..Len(old) : old[i].nonce = i - 1 /\ (old[i].whole \/ i = Len(old))
  BY DEF WireInv, WireInOrder, old
<1>9. ~error => Len(old) = count_reads[c] /\ \A i \in 1..Len(old) : old[i].whole
  BY DEF WireInv, error, old
<1>10. ASSUME NEW i \in 1..Len(new)
       PROVE  new[i].nonce = i - 1 /\ (new[i].whole \/ i = Len(new))
  <2>1. CASE error
    <3>1. m = 0  BY <1>0, <2>1, KeptFrames DEF m
    <3>2. Len(new) = Len(old) /\ new[i] = old[i]  BY <1>0, <1>5, <3>1
    <3> QED  BY <1>8, <1>10, <3>2
  <2>2. CASE ~error /\ i =< Len(old)
    <3>1. i \in 1..Len(old)  BY <1>0, <1>10, <2>2
    <3> QED  BY <1>5, <1>8, <1>9, <2>2, <3>1
  <2>3. CASE ~error /\ ~(i =< Len(old))
    <3>1. new[i] = sent[i - Len(old)] /\ i - Len(old) \in 1..m  BY <1>5, <2>3
    <3>2. new[i].nonce = count_reads[c] + (i - Len(old)) - 1
          /\ new[i].whole = ((i - Len(old)) # torn)
      BY <1>4, <3>1
    <3>3. Len(old) = count_reads[c]  BY <1>9, <2>3
    <3>4. new[i].nonce = i - 1
      <4>1. Len(new) \in Nat  BY <1>5, LenProperties
      <4>2. i \in Int /\ Len(old) \in Int  BY <1>0, <4>1
      <4>3. Len(old) + (i - Len(old)) - 1 = i - 1  BY <4>2
      <4>4. new[i].nonce = Len(old) + (i - Len(old)) - 1  BY <3>2, <3>3
      <4> QED  BY <4>3, <4>4
    <3>5. CASE torn = 0
      <4>1. i - Len(old) # torn  BY <1>2, <3>1, <3>5
      <4> QED  BY <3>2, <3>4, <4>1
    <3>6. CASE torn # 0
      <4>1. m = torn  BY <1>0, <2>3, <3>6, KeptFrames DEF m
      <4>2. new[i].whole \/ i - Len(old) = m  BY <3>2, <4>1
      <4> QED  BY <1>0, <1>2, <1>5, <3>4, <4>2
    <3> QED  BY <3>5, <3>6
  <2> QED  BY <2>1, <2>2, <2>3
<1>11. WireInOrder'
  <2> SUFFICES ASSUME NEW k \in Client, NEW i \in 1..Len(wire'[k])
               PROVE  wire'[k][i].nonce = i - 1 /\ (wire'[k][i].whole \/ i = Len(wire'[k]))
    BY DEF WireInOrder
  <2>1. CASE k = c  BY <1>7, <1>10, <2>1
  <2>2. CASE k # c
    <3>1. wire'[k] = wire[k]  BY <1>7, <2>2
    <3> QED  BY <3>1 DEF WireInv, WireInOrder
  <2> QED  BY <2>1, <2>2
<1>12. ~error_write'[c] => Len(new) = count_reads'[c] /\ \A i \in 1..Len(new) : new[i].whole
  <2> SUFFICES ASSUME ~error_write'[c]
               PROVE  Len(new) = count_reads'[c] /\ \A i \in 1..Len(new) : new[i].whole
    OBVIOUS
  <2>1. ~error /\ torn = 0  BY <1>7
  <2>2. m = n  BY <1>0, <2>1, KeptFrames DEF m
  <2>3. Len(new) = count_reads'[c]  BY <1>0, <1>5, <1>7, <1>9, <2>1, <2>2
  <2>4. ASSUME NEW i \in 1..Len(new) PROVE new[i].whole
    <3>1. CASE i =< Len(old)
      <4>1. i \in 1..Len(old)  BY <1>0, <2>4, <3>1
      <4> QED  BY <1>5, <1>9, <2>1, <3>1, <4>1
    <3>2. CASE ~(i =< Len(old))
      <4>1. new[i] = sent[i - Len(old)] /\ i - Len(old) \in 1..m  BY <1>5, <3>2
      <4>2. i - Len(old) # torn  BY <2>1, <4>1
      <4> QED  BY <1>4, <4>1, <4>2
    <3> QED  BY <3>1, <3>2
  <2> QED  BY <2>3, <2>4
<1>13. ASSUME NEW k \in Client, ~error_write'[k]
       PROVE  Len(wire'[k]) = count_reads'[k] /\ \A i \in 1..Len(wire'[k]) : wire'[k][i].whole
  <2>1. CASE k = c  BY <1>7, <1>12, <1>13, <2>1
  <2>2. CASE k # c  BY <1>7, <1>13, <2>2 DEF WireInv
  <2> QED  BY <2>1, <2>2
<1> QED  BY <1>7, <1>11, <1>13

(* A turn of homekit_client_process() answers at most once.                *)
LEMMA ProcessSends ==
  ASSUME NEW c \in Client, Process(c), AnswerFrames \in Nat
  PROVE  \/ UNCHANGED <<count_reads, error_write, wire>>
         \/ \E n \in Nat : \E torn \in 0..n : Send(c, n, torn)
<1>1. ASSUME NEW payload, NEW data, NEW available, Parse(c, payload, data, available)
      PROVE  \/ UNCHANGED <<count_reads, error_write, wire>>
             \/ \E n \in Nat : \E torn \in 0..n : Send(c, n, torn)
  <2>1. \A n \in 1..AnswerFrames : n \in Nat  OBVIOUS
  <2> QED  BY <1>1, <2>1 DEF Parse
<1>2. ASSUME NEW data, NEW n, Decrypted(c, data, n)
      PROVE  \/ UNCHANGED <<count_reads, error_write, wire>>
             \/ \E k \in Nat : \E torn \in 0..k : Send(c, k, torn)
  <2>1. \/ Refused
        \/ \E payload, moved, available : Parse(c, payload, moved, available)
    BY <1>2, Zenon DEF Decrypted
  <2> QED  BY <1>1, <2>1 DEF Refused
<1>3. PICK n : Read(c, n)  BY DEF Process
<1> QED  BY <1>1, <1>2, <1>3, Zenon DEF Read

LEMMA ProcessDisconnects ==
  ASSUME NEW c \in Client, Process(c), disconnect \in [Client -> BOOLEAN]
  PROVE  disconnect' \in [Client -> BOOLEAN]
<1>1. ASSUME NEW payload, NEW data, NEW available, Parse(c, payload, data, available)
      PROVE  disconnect' \in [Client -> BOOLEAN]
  <2>1. PICK p : \/ UNCHANGED disconnect
                 \/ disconnect' = [disconnect EXCEPT ![c] = @ \/ ~KeepAlive(p)]
    BY <1>1 DEF Parse, EndOfCall
  <2> QED  BY <2>1
<1>2. ASSUME NEW data, NEW n, Decrypted(c, data, n)
      PROVE  disconnect' \in [Client -> BOOLEAN]
  <2>1. \/ Refused
        \/ \E payload, moved, available : Parse(c, payload, moved, available)
    BY <1>2, Zenon DEF Decrypted
  <2> QED  BY <1>1, <2>1 DEF Refused
<1>3. PICK n : Read(c, n)  BY DEF Process
<1>4. \/ \E data : Decrypted(c, data, n)
      \/ \E data : Parse(c, data, <<>>, 0)
  BY <1>3, Zenon DEF Read
<1> QED  BY <1>1, <1>2, <1>4

LEMMA WireInit == FramingInit => WireInv
<1> SUFFICES ASSUME FramingInit PROVE WireInv  OBVIOUS
<1> USE DEF FramingInit
<1>1. wire \in [Client -> Seq(Answer)]
  <2>1. <<>> \in Seq(Answer)  OBVIOUS
  <2> QED  BY <2>1
<1>2. \A c \in Client : wire[c] = <<>> /\ Len(wire[c]) = 0  OBVIOUS
<1>3. WireInOrder  BY <1>2 DEF WireInOrder
<1>4. \A c \in Client : Len(wire[c]) = count_reads[c] /\ \A i \in 1..Len(wire[c]) : wire[c][i].whole
  <2> SUFFICES ASSUME NEW c \in Client
               PROVE  /\ Len(wire[c]) = count_reads[c]
                      /\ \A i \in 1..Len(wire[c]) : wire[c][i].whole
    OBVIOUS
  <2>1. 1..Len(wire[c]) = {} /\ count_reads[c] = 0  BY <1>2
  <2> QED  BY <1>2, <2>1
<1> QED  BY <1>1, <1>3, <1>4 DEF WireInv

LEMMA WireSame ==
  WireInv /\ UNCHANGED <<wire, count_reads, error_write>> /\ disconnect' \in [Client -> BOOLEAN]
    /\ gone' \in [Client -> BOOLEAN] => WireInv'
<1> SUFFICES ASSUME WireInv, UNCHANGED <<wire, count_reads, error_write>>,
                    disconnect' \in [Client -> BOOLEAN], gone' \in [Client -> BOOLEAN]
             PROVE  WireInv'
  OBVIOUS
<1>1. wire' = wire /\ count_reads' = count_reads /\ error_write' = error_write
  OBVIOUS
<1>2. WireInOrder'  BY <1>1 DEF WireInv, WireInOrder
<1> QED  BY <1>1, <1>2 DEF WireInv

LEMMA WireNext == WireInv /\ [FramingNext]_framingVars => WireInv'
<1> SUFFICES ASSUME WireInv, [FramingNext]_framingVars PROVE WireInv'
  OBVIOUS
<1>0. disconnect \in [Client -> BOOLEAN] /\ gone \in [Client -> BOOLEAN]  BY DEF WireInv
<1>1. ASSUME NEW c \in Client, NEW n \in Nat, NEW torn \in 0..n, Send(c, n, torn),
             disconnect' \in [Client -> BOOLEAN], UNCHANGED gone
      PROVE  WireInv'
  BY <1>1, SendKeeps DEF WireInv
<1>2. ASSUME NEW c \in Client, SendRequest(c)
      PROVE  WireInv'
  <2>1. UNCHANGED <<wire, count_reads, error_write, disconnect, gone>>
    BY <1>2 DEF SendRequest
  <2> QED  BY <1>0, <2>1, WireSame
<1>3. ASSUME NEW c \in Client, Leave(c)
      PROVE  WireInv'
  <2>1. /\ UNCHANGED <<wire, count_reads, error_write, disconnect>>
        /\ gone' = [gone EXCEPT ![c] = TRUE]
    BY <1>3 DEF Leave
  <2> QED  BY <1>0, <2>1, WireSame
<1>4. ASSUME NEW c \in Client, SendEvent(c)
      PROVE  WireInv'
  <2>1. PICK torn \in 0..1 : Send(c, 1, torn)  BY <1>4 DEF SendEvent
  <2>2. UNCHANGED <<disconnect, gone>>  BY <1>4 DEF SendEvent
  <2> QED  BY <1>0, <1>1, <2>1, <2>2
<1>5. ASSUME NEW c \in Client, Process(c)
      PROVE  WireInv'
  <2>1. disconnect' \in [Client -> BOOLEAN]  BY <1>0, <1>5, ProcessDisconnects
  <2>2. UNCHANGED gone  BY <1>5 DEF Process
  <2>3. AnswerFrames \in Nat  BY FramingAssumption
  <2>4. \/ UNCHANGED <<count_reads, error_write, wire>>
        \/ \E n \in Nat : \E torn \in 0..n : Send(c, n, torn)
    BY <1>5, <2>3, ProcessSends
  <2> QED  BY <1>0, <1>1, <2>1, <2>2, <2>4, WireSame
<1>6. ASSUME NEW c \in Client, ReadNothing(c)
      PROVE  WireInv'
  <2>1. /\ UNCHANGED <<wire, count_reads, error_write, gone>>
        /\ disconnect' = [disconnect EXCEPT ![c] = gone[c]]
    BY <1>6 DEF ReadNothing
  <2> QED  BY <1>0, <2>1, WireSame
<1>7. CASE UNCHANGED framingVars
  <2>1. UNCHANGED <<wire, count_reads, error_write, disconnect, gone>>
    BY <1>7 DEF framingVars
  <2> QED  BY <1>0, <2>1, WireSame
<1> QED  BY <1>2, <1>3, <1>4, <1>5, <1>6, <1>7, Zenon DEF FramingNext, ServerStep

(* The frames of one connection reach the wire with consecutive nonces,    *)
(* and behind one that a failing write cut short there is nothing, for     *)
(* every number of clients and of frames in an answer (write() and         *)
(* client_send_encrypted_()).                                              *)
THEOREM FramesInOrder == FramingSpec => []WireInOrder
<1>1. WireInv => WireInOrder  BY DEF WireInv
<1> QED  BY WireInit, WireNext, <1>1, PTL DEF FramingSpec

------------------------------------------------------------------------------
(* The recursive definitions: sums of sizes, and frames one behind the     *)
(* other.                                                                  *)
Size == 1..MaxPlain

LEMMA Sizes ==
  /\ Size \subseteq Nat /\ \A s \in Size : s > 0
  /\ Header \in Nat /\ Tag \in Nat /\ Header > 0 /\ Tag > 0
  /\ Overhead \in Nat /\ Overhead = Header + Tag
  /\ MaxPlain \in Nat /\ MaxPlain > 0 /\ Block \in Nat /\ Block = MaxPlain + Overhead
  /\ HeadSize \in Nat /\ HeadSize > 0
  /\ Shapes \subseteq Seq(Size)
BY FramingAssumption DEF Size, Overhead, Block

LEMMA SumsFacts ==
  \A sizes \in Seq(Size) :
    /\ Sums(sizes) \in [0..Len(sizes) -> Nat]
    /\ Sums(sizes)[0] = 0
    /\ \A k \in 1..Len(sizes) :
          Sums(sizes)[k] = Sums(sizes)[k - 1] + sizes[k] /\ Sums(sizes)[k] > 0
<1> SUFFICES ASSUME NEW sizes \in Seq(Size)
             PROVE  /\ Sums(sizes) \in [0..Len(sizes) -> Nat]
                    /\ Sums(sizes)[0] = 0
                    /\ \A k \in 1..Len(sizes) :
                          /\ Sums(sizes)[k] = Sums(sizes)[k - 1] + sizes[k]
                          /\ Sums(sizes)[k] > 0
  OBVIOUS
<1> DEFINE m == Len(sizes)
           step == [k \in 1..m |-> [s \in Nat |-> s + sizes[k]]]
<1>0. m \in Nat /\ \A k \in 1..m : sizes[k] \in Nat /\ sizes[k] > 0
  <2>1. \A k \in 1..Len(sizes) : sizes[k] \in Size  BY ElementOfSeq
  <2>2. m \in Nat  BY LenProperties
  <2> QED  BY <2>1, <2>2, Sizes
<1> HIDE DEF m
<1>1. step \in [1..m -> [Nat -> Nat]]  BY <1>0
<1> HIDE DEF step
<1>2. PICK f \in [0..m -> Nat] : Iterates(f, 0, step, m)
  BY <1>0, <1>1, Iteration
<1>3. ASSUME NEW k \in 0..m, k # 0 PROVE step[k][f[k - 1]] = f[k - 1] + sizes[k]
  <2>1. k \in 1..m /\ k - 1 \in 0..m  BY <1>0, <1>3
  <2>2. f[k - 1] \in Nat  BY <2>1
  <2> QED  BY <2>1, <2>2 DEF step
<1>4. f = [k \in 0..m |-> IF k = 0 THEN 0 ELSE f[k - 1] + sizes[k]]
  BY <1>2, <1>3 DEF Iterates
<1>5. Sums(sizes) = CHOOSE g : g = [k \in 0..m |-> IF k = 0 THEN 0 ELSE g[k - 1] + sizes[k]]
  BY Zenon DEF Sums, m
<1>6. Sums(sizes) = [k \in 0..m |-> IF k = 0 THEN 0 ELSE Sums(sizes)[k - 1] + sizes[k]]
  BY <1>4, <1>5, Zenon
<1> DEFINE g == Sums(sizes)
<1>7. /\ g[0] = 0
      /\ \A k \in 1..m : g[k] = g[k - 1] + sizes[k]
  <2> HIDE DEF g
  <2>1. 0 \in 0..m /\ \A k \in 1..m : k \in 0..m /\ k # 0  BY <1>0
  <2> QED  BY <1>6, <2>1 DEF g
<1> DEFINE P == {k \in 0..m : g[k] \in Nat /\ (k > 0 => g[k] > 0)}
<1> HIDE DEF g
<1>8. 0 \in P  BY <1>0, <1>7
<1>9. ASSUME NEW k \in 0..m, k # m /\ k \in P PROVE k + 1 \in P
  <2>1. k + 1 \in 1..m /\ k + 1 \in 0..m /\ (k + 1) - 1 = k  BY <1>0, <1>9
  <2>2. g[k + 1] = g[k] + sizes[k + 1] /\ sizes[k + 1] \in Nat /\ sizes[k + 1] > 0
    BY <1>0, <1>7, <2>1
  <2>3. g[k] \in Nat  BY <1>9
  <2>4. g[k + 1] \in Nat /\ g[k + 1] > 0  BY <2>2, <2>3
  <2> QED  BY <2>1, <2>4
<1> HIDE DEF P
<1>10. 0..m \subseteq P  BY <1>0, <1>8, <1>9, SetInduction, Zenon
<1>11. \A k \in 0..m : g[k] \in Nat /\ (k > 0 => g[k] > 0)  BY <1>10 DEF P
<1>12. g = [k \in 0..m |-> g[k]]
  <2>1. DOMAIN g = 0..m  BY <1>6 DEF g
  <2> QED  BY <1>6, <2>1 DEF g
<1>13. g \in [0..m -> Nat]  BY <1>11, <1>12
<1>14. \A k \in 1..m : k \in 0..m /\ k > 0  BY <1>0
<1>15. \A k \in 1..m : g[k] > 0  BY <1>11, <1>14
<1> QED  BY <1>7, <1>13, <1>15 DEF g, m

AByte == [kind : {"plain", "cipher"}, a : Nat, b : Nat]
CipherBytes(f, m) == {x \in AByte : x.kind = "cipher" /\ x.a \in (f + 1)..(f + m)}

LEMMA CipherFacts ==
  \A x \in Nat, size \in Nat :
    /\ Len(Cipher(x, size)) = size + Overhead
    /\ \A b \in 1..(size + Overhead) : Cipher(x, size)[b] = Byte("cipher", x, b)
    /\ \A f \in Nat, m \in Nat : x \in (f + 1)..(f + m)
          => Cipher(x, size) \in Seq(CipherBytes(f, m))
<1> SUFFICES ASSUME NEW x \in Nat, NEW size \in Nat
             PROVE  /\ Len(Cipher(x, size)) = size + Overhead
                    /\ \A b \in 1..(size + Overhead) :
                          Cipher(x, size)[b] = Byte("cipher", x, b)
                    /\ \A f \in Nat, m \in Nat : x \in (f + 1)..(f + m)
                          => Cipher(x, size) \in Seq(CipherBytes(f, m))
  OBVIOUS
<1> DEFINE n == size + Overhead
<1>0. n \in Nat  BY Sizes
<1> HIDE DEF n
<1>1. Cipher(x, size) = [b \in 1..n |-> Byte("cipher", x, b)]  BY DEF Cipher, n
<1>2. Len(Cipher(x, size)) = n  BY <1>0, <1>1
<1>3. \A b \in 1..n : Cipher(x, size)[b] = Byte("cipher", x, b)  BY <1>1
<1>4. ASSUME NEW f \in Nat, NEW m \in Nat, x \in (f + 1)..(f + m)
      PROVE  Cipher(x, size) \in Seq(CipherBytes(f, m))
  <2>1. \A b \in 1..n : Byte("cipher", x, b) \in CipherBytes(f, m)
    BY <1>0, <1>4 DEF Byte, CipherBytes, AByte
  <2> QED  BY <1>0, <1>1, <2>1
<1> QED  BY <1>2, <1>3, <1>4 DEF n

(* e says where each frame ends.                                           *)
Ends(e, sizes) ==
  /\ e \in [0..Len(sizes) -> Nat] /\ e[0] = 0
  /\ \A k \in 1..Len(sizes) : e[k] = e[k - 1] + sizes[k] + Overhead
  /\ \A k \in 0..Len(sizes) : e[k] <= e[Len(sizes)]

LEMMA SealedFacts ==
  \A f \in Nat, sizes \in Seq(Size) :
    /\ Sealed(f, sizes) \in Seq(CipherBytes(f, Len(sizes)))
    /\ \E e : /\ Ends(e, sizes) /\ Len(Sealed(f, sizes)) = e[Len(sizes)]
              /\ \A k \in 1..Len(sizes) : \A b \in 1..(sizes[k] + Overhead) :
                    Sealed(f, sizes)[e[k - 1] + b] = Byte("cipher", f + k, b)
<1> SUFFICES ASSUME NEW f \in Nat, NEW sizes \in Seq(Size)
             PROVE  /\ Sealed(f, sizes) \in Seq(CipherBytes(f, Len(sizes)))
                    /\ \E e : /\ Ends(e, sizes) /\ Len(Sealed(f, sizes)) = e[Len(sizes)]
                              /\ \A k \in 1..Len(sizes) : \A b \in 1..(sizes[k] + Overhead) :
                                    Sealed(f, sizes)[e[k - 1] + b] = Byte("cipher", f + k, b)
  OBVIOUS
<1> DEFINE m == Len(sizes)
           Bs == CipherBytes(f, m)
           T == Seq(Bs)
           step == [k \in 1..m |-> [s \in T |-> s \o Cipher(f + k, sizes[k])]]
<1>0. m \in Nat /\ \A k \in 1..m : sizes[k] \in Nat /\ sizes[k] > 0
  <2>1. \A k \in 1..Len(sizes) : sizes[k] \in Size  BY ElementOfSeq
  <2>2. m \in Nat  BY LenProperties
  <2> QED  BY <2>1, <2>2, Sizes
<1> HIDE DEF m
<1>1. ASSUME NEW k \in 1..m
      PROVE  /\ Cipher(f + k, sizes[k]) \in Seq(Bs)
             /\ Len(Cipher(f + k, sizes[k])) = sizes[k] + Overhead
             /\ \A b \in 1..(sizes[k] + Overhead) :
                   Cipher(f + k, sizes[k])[b] = Byte("cipher", f + k, b)
  <2>1. f + k \in Nat /\ f + k \in (f + 1)..(f + m) /\ sizes[k] \in Nat  BY <1>0
  <2> QED  BY <1>0, <2>1, CipherFacts
<1> HIDE DEF Bs
<1>2. step \in [1..m -> [T -> T]]
  <2>1. \A k \in 1..m, s \in T : s \o Cipher(f + k, sizes[k]) \in T
    BY <1>1, ConcatProperties
  <2> HIDE DEF T
  <2> QED  BY <2>1
<1>3. <<>> \in T  OBVIOUS
<1> HIDE DEF T, step
<1>4. PICK h \in [0..m -> T] : Iterates(h, <<>>, step, m)
  BY <1>0, <1>2, <1>3, Iteration
<1>5. ASSUME NEW k \in 0..m, k # 0
      PROVE  step[k][h[k - 1]] = h[k - 1] \o Cipher(f + k, sizes[k])
  <2>1. k \in 1..m /\ k - 1 \in 0..m  BY <1>0, <1>5
  <2>2. h[k - 1] \in T  BY <2>1
  <2> QED  BY <2>1, <2>2 DEF step
<1>6. h = [k \in 0..m |-> IF k = 0 THEN <<>> ELSE h[k - 1] \o Cipher(f + k, sizes[k])]
  BY <1>4, <1>5 DEF Iterates
<1>7. PICK g : /\ g = [k \in 0..m |-> IF k = 0 THEN <<>>
                                      ELSE g[k - 1] \o Cipher(f + k, sizes[k])]
               /\ Sealed(f, sizes) = g[m]
  BY <1>6, Zenon DEF Sealed, m
<1>8. /\ g[0] = <<>>
      /\ \A k \in 1..m : g[k] = g[k - 1] \o Cipher(f + k, sizes[k])
  <2>1. 0 \in 0..m /\ \A k \in 1..m : k \in 0..m /\ k # 0  BY <1>0
  <2> QED  BY <1>7, <2>1
<1> DEFINE e == [k \in 0..m |-> Len(g[k])]
           Good(n) == /\ g[n] \in Seq(Bs) /\ Len(g[n]) \in Nat
                      /\ \A k \in 0..n : e[k] <= e[n]
                      /\ \A k \in 1..n : /\ e[k] = e[k - 1] + sizes[k] + Overhead
                                         /\ \A b \in 1..(sizes[k] + Overhead) :
                                               g[n][e[k - 1] + b] = Byte("cipher", f + k, b)
           P == {n \in 0..m : Good(n)}
<1>9. \A k \in 0..m : e[k] = Len(g[k])  OBVIOUS
<1> HIDE DEF e
<1>10. 0 \in P
  <2>1. g[0] \in Seq(Bs) /\ Len(g[0]) = 0  BY <1>8
  <2>2. 0 \in 0..m /\ \A k \in 0..0 : k = 0  BY <1>0
  <2>3. e[0] = 0  BY <1>9, <2>1, <2>2
  <2>4. \A k \in 1..0 : FALSE  OBVIOUS
  <2>5. \A k \in 0..0 : e[k] <= e[0]  BY <2>2, <2>3
  <2> QED  BY <2>1, <2>2, <2>4, <2>5
<1>11. ASSUME NEW n \in 0..m, n # m /\ n \in P PROVE n + 1 \in P
  <2> DEFINE C == Cipher(f + (n + 1), sizes[n + 1])
             old == g[n]
             new == g[n + 1]
  <2>1. n + 1 \in 1..m /\ n + 1 \in 0..m /\ (n + 1) - 1 = n  BY <1>0, <1>11
  <2>2. /\ old \in Seq(Bs) /\ Len(old) \in Nat
        /\ \A k \in 0..n : e[k] <= e[n]
        /\ \A k \in 1..n : /\ e[k] = e[k - 1] + sizes[k] + Overhead
                           /\ \A b \in 1..(sizes[k] + Overhead) :
                                 old[e[k - 1] + b] = Byte("cipher", f + k, b)
    BY <1>11
  <2>3. /\ C \in Seq(Bs) /\ Len(C) = sizes[n + 1] + Overhead
        /\ \A b \in 1..(sizes[n + 1] + Overhead) : C[b] = Byte("cipher", f + (n + 1), b)
    BY <1>1, <2>1
  <2>4. new = old \o C  BY <1>8, <2>1
  <2>5. sizes[n + 1] + Overhead \in Nat  BY <1>0, <2>1, Sizes
  <2>6. e[n] = Len(old) /\ e[n + 1] = Len(new)  BY <1>9, <2>1
  <2> HIDE DEF C, old, new, P
  <2>7. /\ new \in Seq(Bs) /\ Len(new) = Len(old) + Len(C)
        /\ \A i \in 1..Len(old) + Len(C) :
              new[i] = IF i <= Len(old) THEN old[i] ELSE C[i - Len(old)]
    BY <2>2, <2>3, <2>4, ConcatProperties
  <2>8. Len(new) \in Nat /\ e[n + 1] = e[n] + sizes[n + 1] + Overhead /\ e[n] \in Nat
        /\ e[n] <= e[n + 1]
    BY <1>0, <2>1, <2>2, <2>3, <2>5, <2>6, <2>7, Sizes
  <2>9. \A k \in 0..n : e[k] \in Nat
    <3>1. \A k \in 0..m : Len(g[k]) = e[k]  BY <1>9
    <3>2. \A k \in 0..n : k = 0 \/ (k \in 1..n)  BY <1>0
    <3>3. e[0] = 0
      <4>1. 0 \in 0..m  BY <1>0
      <4> QED  BY <1>8, <1>9, <4>1
    <3> DEFINE Q == {k \in 0..n : e[k] \in Nat}
    <3>4. 0 \in Q  BY <1>0, <3>3
    <3>5. ASSUME NEW k \in 0..n, k # n /\ k \in Q PROVE k + 1 \in Q
      <4>1. k + 1 \in 1..n /\ k + 1 \in 0..n /\ (k + 1) - 1 = k /\ k + 1 \in 1..m
        BY <1>0, <3>5
      <4>2. e[k + 1] = e[k] + sizes[k + 1] + Overhead  BY <2>2, <4>1
      <4>3. e[k] \in Nat /\ sizes[k + 1] \in Nat  BY <1>0, <3>5, <4>1
      <4> QED  BY <4>1, <4>2, <4>3, Sizes
    <3> HIDE DEF Q
    <3>7. n \in Nat  BY <1>0
    <3>6. 0..n \subseteq Q  BY <3>4, <3>5, <3>7, SetInduction, Zenon
    <3> QED  BY <3>6 DEF Q
  <2>10. \A k \in 0..(n + 1) : e[k] <= e[n + 1]
    <3> TAKE k \in 0..(n + 1)
    <3>1. CASE k = n + 1  BY <2>6, <2>8, <3>1
    <3>2. CASE k # n + 1
      <4>1. k \in 0..n  BY <1>0, <3>2
      <4>2. e[k] <= e[n] /\ e[k] \in Nat  BY <2>2, <2>9, <4>1
      <4> QED  BY <2>8, <4>2, <2>6
    <3> QED  BY <3>1, <3>2
  <2>11. ASSUME NEW k \in 1..(n + 1)
         PROVE  /\ e[k] = e[k - 1] + sizes[k] + Overhead
                /\ \A b \in 1..(sizes[k] + Overhead) :
                      new[e[k - 1] + b] = Byte("cipher", f + k, b)
    <3>1. CASE k = n + 1
      <4>1. \A b \in 1..(sizes[n + 1] + Overhead) :
               new[e[n] + b] = Byte("cipher", f + (n + 1), b)
        <5> TAKE b \in 1..(sizes[n + 1] + Overhead)
        <5>1. e[n] + b \in 1..Len(old) + Len(C) /\ ~(e[n] + b <= Len(old))
              /\ (e[n] + b) - Len(old) = b
          BY <2>2, <2>3, <2>5, <2>6
        <5> QED  BY <2>3, <2>7, <5>1
      <4> QED  BY <2>1, <2>8, <3>1, <4>1
    <3>2. CASE k # n + 1
      <4>1. k \in 1..n /\ k - 1 \in 0..n  BY <1>0, <2>11, <3>2
      <4>2. e[k] = e[k - 1] + sizes[k] + Overhead /\ e[k] <= e[n]
            /\ e[k - 1] \in Nat /\ e[k] \in Nat
        BY <2>2, <2>9, <4>1
      <4>3. sizes[k] + Overhead \in Nat
        <5>1. k \in 1..m  BY <1>0, <4>1
        <5> QED  BY <1>0, <5>1, Sizes
      <4>4. \A b \in 1..(sizes[k] + Overhead) :
               new[e[k - 1] + b] = Byte("cipher", f + k, b)
        <5> TAKE b \in 1..(sizes[k] + Overhead)
        <5>1. e[k - 1] + b <= e[n] /\ e[k - 1] + b > 0 /\ e[k - 1] + b \in Nat
          <6>1. e[n] = Len(old)  BY <2>6
          <6>2. e[k] = e[k - 1] + (sizes[k] + Overhead)
            <7>1. sizes[k] \in Nat
              <8>1. k \in 1..m  BY <1>0, <4>1
              <8> QED  BY <1>0, <8>1
            <7> QED  BY <4>2, <7>1, Sizes
          <6> QED  BY <2>2, <4>2, <4>3, <6>1, <6>2
        <5>2. e[k - 1] + b \in 1..Len(old) + Len(C) /\ e[k - 1] + b <= Len(old)
          BY <2>2, <2>3, <2>5, <2>6, <5>1
        <5>3. new[e[k - 1] + b] = old[e[k - 1] + b]  BY <2>7, <5>2
        <5> QED  BY <2>2, <4>1, <5>3
      <4> QED  BY <4>2, <4>4
    <3> QED  BY <3>1, <3>2
  <2>12. Good(n + 1)  BY <2>7, <2>8, <2>10, <2>11 DEF new
  <2> HIDE DEF Good
  <2> QED  BY <2>1, <2>12 DEF P
<1> HIDE DEF P, Good
<1>12. 0..m \subseteq P  BY <1>0, <1>10, <1>11, SetInduction, Zenon
<1>13. m \in P  BY <1>0, <1>12
<1>14. Good(m)  BY <1>13 DEF P
<1>15. \A k \in 0..m : e[k] \in Nat
  <2>1. \A k \in 0..m : Good(k)  BY <1>12 DEF P
  <2>2. \A k \in 0..m : Len(g[k]) \in Nat  BY <2>1 DEF Good
  <2> QED  BY <1>9, <2>2
<1>16. e[0] = 0 /\ Len(g[m]) = e[m]
  <2>1. 0 \in 0..m /\ m \in 0..m  BY <1>0
  <2> QED  BY <1>8, <1>9, <2>1
<1>17. e \in [0..m -> Nat]
  <2>1. e = [k \in 0..m |-> e[k]]  BY DEF e
  <2> QED  BY <1>15, <2>1
<1>18. Ends(e, sizes)
  BY <1>14, <1>16, <1>17 DEF Ends, Good, m
<1>19. \A k \in 1..m : \A b \in 1..(sizes[k] + Overhead) :
          g[m][e[k - 1] + b] = Byte("cipher", f + k, b)
  BY <1>14 DEF Good
<1>20. g[m] \in Seq(Bs)  BY <1>14 DEF Good
<1> HIDE DEF e
<1>21. Sealed(f, sizes) = g[m]  BY <1>7
<1>22. /\ Ends(e, sizes) /\ Len(Sealed(f, sizes)) = e[Len(sizes)]
       /\ \A k \in 1..Len(sizes) : \A b \in 1..(sizes[k] + Overhead) :
             Sealed(f, sizes)[e[k - 1] + b] = Byte("cipher", f + k, b)
  BY <1>16, <1>18, <1>19, <1>21 DEF m
<1>23. Sealed(f, sizes) \in Seq(CipherBytes(f, Len(sizes)))
  BY <1>20, <1>21 DEF m, Bs
<1> QED  BY <1>22, <1>23, Zenon

------------------------------------------------------------------------------
(* client_decrypt_(): the loop leaves only bytes of the same client in the *)
(* buffer, at whatever it finds there.                                     *)
Frame == [request : Nat, from : Nat, size : Nat]
KnownFrames(c) == {f \in Frame : f.request \in 1..Len(requests[c])}
KnownBytes(c) ==
  {x \in AByte : x.a \in 1..(IF x.kind = "cipher" THEN Len(frames[c]) ELSE Len(requests[c]))}

LEMMA OverlaidFacts ==
  ASSUME NEW T, NEW data \in Seq(T), NEW at \in Nat, NEW bytes \in Seq(T)
  PROVE  /\ Overlaid(data, at, bytes) \in Seq(T)
         /\ Len(Overlaid(data, at, bytes)) = Len(data)
         /\ \A i \in 1..Len(data) :
               Overlaid(data, at, bytes)[i] = IF i \in (at + 1)..(at + Len(bytes))
                                              THEN bytes[i - at] ELSE data[i]
<1> DEFINE m == Len(data)
           k == Len(bytes)
<1>0. m \in Nat /\ k \in Nat  BY LenProperties
<1>1. \A i \in 1..m : data[i] \in T  BY ElementOfSeq
<1>2. \A i \in (at + 1)..(at + k) : bytes[i - at] \in T
  <2> TAKE i \in (at + 1)..(at + k)
  <2>1. i - at \in 1..k  BY <1>0
  <2> QED  BY <2>1, ElementOfSeq
<1> HIDE DEF m, k
<1>3. Overlaid(data, at, bytes)
        = [i \in 1..m |-> IF i \in (at + 1)..(at + k) THEN bytes[i - at] ELSE data[i]]
  BY DEF Overlaid, m, k
<1> DEFINE over == [i \in 1..m |-> IF i \in (at + 1)..(at + k) THEN bytes[i - at]
                                                             ELSE data[i]]
<1>4. Overlaid(data, at, bytes) \in Seq(T)
  <2>1. \A i \in 1..m : (IF i \in (at + 1)..(at + k) THEN bytes[i - at] ELSE data[i]) \in T
    <3> TAKE i \in 1..m
    <3>1. CASE i \in (at + 1)..(at + k)
      <4>1. bytes[i - at] \in T  BY <1>2, <3>1
      <4> QED  BY <3>1, <4>1
    <3>2. CASE i \notin (at + 1)..(at + k)
      <4>1. data[i] \in T  BY <1>1
      <4> QED  BY <3>2, <4>1
    <3> QED  BY <3>1, <3>2
  <2>2. over \in [1..m -> T]  BY <2>1
  <2>3. over \in Seq(T)
    <3> HIDE DEF over
    <3> QED  BY <1>0, <2>2
  <2> QED  BY <1>3, <2>3
<1>5. Len(Overlaid(data, at, bytes)) = m  BY <1>0, <1>3
<1>6. \A i \in 1..m : Overlaid(data, at, bytes)[i]
                        = IF i \in (at + 1)..(at + k) THEN bytes[i - at] ELSE data[i]
  BY <1>3
<1> QED  BY <1>4, <1>5, <1>6 DEF m, k

LEMMA PlainFacts ==
  \A r \in Nat, from \in Nat, size \in Nat :
    /\ Plain(r, from, size) \in Seq(AByte) /\ Len(Plain(r, from, size)) = size
    /\ \A k \in 1..size : Plain(r, from, size)[k] = Byte("plain", r, from + k)
    /\ \A c : r \in 1..Len(requests[c]) => Plain(r, from, size) \in Seq(KnownBytes(c))
<1> TAKE r \in Nat, from \in Nat, size \in Nat
<1>1. Plain(r, from, size) = [k \in 1..size |-> Byte("plain", r, from + k)]
  BY DEF Plain
<1>2. \A k \in 1..size : Byte("plain", r, from + k) \in AByte
  BY DEF Byte, AByte
<1>3. Plain(r, from, size) \in Seq(AByte)  BY <1>1, <1>2
<1>4. Len(Plain(r, from, size)) = size  BY <1>1
<1>5. ASSUME NEW c, r \in 1..Len(requests[c])
      PROVE  Plain(r, from, size) \in Seq(KnownBytes(c))
  <2>1. \A k \in 1..size : Byte("plain", r, from + k) \in KnownBytes(c)
    BY <1>2, <1>5 DEF Byte, KnownBytes
  <2> QED  BY <1>1, <2>1
<1>6. \A k \in 1..size : Plain(r, from, size)[k] = Byte("plain", r, from + k)  BY <1>1
<1> QED  BY <1>3, <1>4, <1>5, <1>6

LoopState(c, L) ==
  {t \in [r : Nat, data : Seq(KnownBytes(c)), count : Nat, ended : BOOLEAN,
          failed : BOOLEAN] : Len(t.data) = L}

(* What the bytes at the offset of a turn can be when a frame is there.    *)
LEMMA FrameFound ==
  ASSUME NEW c \in Client, NEW L \in Nat, NEW n \in 0..L, NEW t \in LoopState(c, L),
         t.r < n, NEW size \in Nat, ~(size + Overhead > n - t.r),
         SubSeq(t.data, t.r + 1, t.r + size + Overhead) = Cipher(t.count + 1, size)
  PROVE  /\ \A b \in 1..(size + Overhead) : t.data[t.r + b] = Byte("cipher", t.count + 1, b)
         /\ t.count + 1 \in 1..Len(frames[c])
<1> DEFINE m == size + Overhead
           data == t.data
<1>0. /\ t.r \in Nat /\ t.count \in Nat /\ data \in Seq(KnownBytes(c)) /\ Len(data) = L
      /\ m \in Nat /\ m > 0
  BY Sizes DEF LoopState
<1>1. \A i \in (t.r + 1)..(t.r + m) : data[i] \in KnownBytes(c)
  <2> TAKE i \in (t.r + 1)..(t.r + m)
  <2>1. i \in 1..Len(data)  BY <1>0
  <2> QED  BY <1>0, <2>1, ElementOfSeq
<1>2. t.r + 1 \in Int /\ t.r + m \in Int /\ t.r + size + Overhead = t.r + m
  BY <1>0, Sizes
<1> DEFINE s == SubSeq(data, t.r + 1, t.r + m)
<1>3. /\ \A i \in 1..(t.r + m) - (t.r + 1) + 1 : s[i] = data[(t.r + 1) + i - 1]
  BY <1>1, <1>2, SubSeqProperties
<1>4. s = Cipher(t.count + 1, size)  BY <1>2
<1> HIDE DEF s
<1>5. ASSUME NEW b \in 1..m PROVE data[t.r + b] = Byte("cipher", t.count + 1, b)
  <2>0. t.r \in Nat /\ m \in Nat  BY <1>0
  <2> DEFINE x == t.r
  <2> HIDE DEF x, m, data
  <2>1. b \in 1..(t.r + m) - (t.r + 1) + 1 /\ (t.r + 1) + b - 1 = t.r + b
    <3>1. x \in Nat /\ m \in Nat /\ b \in 1..m  BY <1>5, <2>0 DEF x
    <3>2. b \in 1..(x + m) - (x + 1) + 1 /\ (x + 1) + b - 1 = x + b  BY <3>1
    <3> QED  BY <3>2 DEF x
  <2>2. s[b] = data[t.r + b]  BY <1>3, <2>1
  <2>3. s[b] = Byte("cipher", t.count + 1, b)
    <3>1. t.count + 1 \in Nat  BY <1>0
    <3> QED  BY <1>4, <1>5, <3>1, CipherFacts DEF m
  <2> QED  BY <2>2, <2>3
<1>6. t.count + 1 \in 1..Len(frames[c])
  <2>1. 1 \in 1..m /\ t.r + 1 \in (t.r + 1)..(t.r + m)  BY <1>0
  <2>2. Byte("cipher", t.count + 1, 1) \in KnownBytes(c)  BY <1>1, <1>5, <2>1
  <2> QED  BY <2>2 DEF Byte, KnownBytes
<1> QED  BY <1>5, <1>6

LEMMA TurnTyped ==
  ASSUME NEW c \in Client, frames[c] \in Seq(KnownFrames(c)),
         NEW L \in Nat, NEW n \in 0..L, NEW t \in LoopState(c, L)
  PROVE  Turn(c, n, t) \subseteq LoopState(c, L)
<1> SUFFICES ASSUME NEW u \in Turn(c, n, t) PROVE u \in LoopState(c, L)  OBVIOUS
<1>0. /\ t \in [r : Nat, data : Seq(KnownBytes(c)), count : Nat, ended : BOOLEAN,
                failed : BOOLEAN]
      /\ Len(t.data) = L
  BY DEF LoopState
<1>1. CASE t.ended \/ t.r >= n  BY <1>1 DEF Turn
<1>2. CASE ~(t.ended \/ t.r >= n)
  <2>0. t.r < n /\ t.r + 1 \in 1..Len(t.data)  BY <1>0, <1>2
  <2>1. PICK size \in ChunkSizes(c, t.data[t.r + 1]) :
          u \in IF size + Overhead > n - t.r THEN {[t EXCEPT !.ended = TRUE]}
                ELSE IF SubSeq(t.data, t.r + 1, t.r + size + Overhead)
                          = Cipher(t.count + 1, size)
                THEN LET f == frames[c][t.count + 1] IN
                     {[t EXCEPT !.r = @ + size + Overhead, !.count = @ + 1,
                        !.data = Overlaid(@, Header, Plain(f.request, f.from, size))]}
                ELSE {[t EXCEPT !.count = @ + 1, !.ended = TRUE, !.failed = TRUE]}
    BY <1>2 DEF Turn
  <2>2. size \in Nat
    <3>1. t.data[t.r + 1] \in KnownBytes(c)  BY <1>0, <2>0, ElementOfSeq
    <3> DEFINE x == t.data[t.r + 1]
    <3>2. CASE x.kind = "cipher" /\ x.b = 1
      <4>1. x.a \in 1..Len(frames[c])  BY <3>1, <3>2 DEF KnownBytes
      <4>2. frames[c][x.a] \in KnownFrames(c)  BY <4>1, ElementOfSeq
      <4>3. frames[c][x.a].size \in Nat  BY <4>2 DEF KnownFrames, Frame
      <4> QED  BY <2>1, <3>2, <4>3 DEF ChunkSizes
    <3>3. CASE ~(x.kind = "cipher" /\ x.b = 1)
      <4>1. size \in 0..(2 * MaxPlain)  BY <2>1, <3>3 DEF ChunkSizes
      <4> QED  BY <4>1, Sizes
    <3> QED  BY <3>2, <3>3
  <2>3. CASE size + Overhead > n - t.r
    <3>1. u = [t EXCEPT !.ended = TRUE]  BY <2>1, <2>3
    <3> QED  BY <1>0, <3>1 DEF LoopState
  <2>4. CASE /\ ~(size + Overhead > n - t.r)
             /\ SubSeq(t.data, t.r + 1, t.r + size + Overhead) = Cipher(t.count + 1, size)
    <3> DEFINE f == frames[c][t.count + 1]
               new == Overlaid(t.data, Header, Plain(f.request, f.from, size))
    <3>1. u = [t EXCEPT !.r = @ + size + Overhead, !.count = @ + 1, !.data = new]
      BY <2>1, <2>4
    <3>2. t.count + 1 \in 1..Len(frames[c])  BY <2>0, <2>2, <2>4, FrameFound
    <3>3. f \in KnownFrames(c)  BY <3>2, ElementOfSeq
    <3>4. /\ f.request \in Nat /\ f.from \in Nat /\ f.request \in 1..Len(requests[c])
      BY <3>3 DEF KnownFrames, Frame
    <3> HIDE DEF f
    <3>5. Plain(f.request, f.from, size) \in Seq(KnownBytes(c))
      BY <2>2, <3>4, PlainFacts
    <3>6. new \in Seq(KnownBytes(c)) /\ Len(new) = L
      <4>1. t.data \in Seq(KnownBytes(c)) /\ Header \in Nat  BY <1>0, Sizes
      <4> QED  BY <1>0, <3>5, <4>1, OverlaidFacts
    <3>7. t.r + size + Overhead \in Nat /\ t.count + 1 \in Nat  BY <1>0, <2>2, Sizes
    <3> HIDE DEF new
    <3> QED  BY <1>0, <3>1, <3>6, <3>7 DEF LoopState
  <2>5. CASE /\ ~(size + Overhead > n - t.r)
             /\ SubSeq(t.data, t.r + 1, t.r + size + Overhead) # Cipher(t.count + 1, size)
    <3>1. u = [t EXCEPT !.count = @ + 1, !.ended = TRUE, !.failed = TRUE]
      BY <2>1, <2>5
    <3>2. t.count + 1 \in Nat  BY <1>0
    <3>3. /\ u.r = t.r /\ u.data = t.data /\ u.count = t.count + 1
          /\ u.ended = TRUE /\ u.failed = TRUE
      BY <1>0, <3>1
    <3>4. u \in [r : Nat, data : Seq(KnownBytes(c)), count : Nat, ended : BOOLEAN,
                 failed : BOOLEAN]
      BY <1>0, <3>1, <3>2
    <3> QED  BY <1>0, <3>3, <3>4 DEF LoopState
  <2> QED  BY <2>3, <2>4, <2>5
<1> QED  BY <1>1, <1>2

(* The turns of the loop, one after another.                               *)
LEMMA LoopTurns ==
  ASSUME NEW c \in Client, frames[c] \in Seq(KnownFrames(c)), count_writes[c] \in Nat,
         NEW data \in Seq(KnownBytes(c)), NEW n \in 0..Len(data)
  PROVE  \E g \in [0..n -> SUBSET LoopState(c, Len(data))] :
           /\ g[0] = {[r |-> 0, data |-> data, count |-> count_writes[c],
                       ended |-> FALSE, failed |-> FALSE]}
           /\ \A k \in 1..n : g[k] = UNION {Turn(c, n, t) : t \in g[k - 1]}
           /\ Decrypts(c, data, n) = g[n]
<1> DEFINE first == [r |-> 0, data |-> data, count |-> count_writes[c],
                     ended |-> FALSE, failed |-> FALSE]
           States == LoopState(c, Len(data))
           T == SUBSET States
           step == [k \in 1..n |-> [S \in T |-> UNION {Turn(c, n, t) : t \in S}]]
<1>0. n \in Nat /\ Len(data) \in Nat
  <2>1. Len(data) \in Nat  BY LenProperties
  <2> QED  BY <2>1
<1>1. first \in States  BY DEF LoopState
<1>2. \A t \in States : Turn(c, n, t) \subseteq States  BY <1>0, TurnTyped
<1> HIDE DEF first, States
<1>3. step \in [1..n -> [T -> T]]
  <2>1. \A S \in T : UNION {Turn(c, n, t) : t \in S} \in T  BY <1>2
  <2> HIDE DEF T
  <2> QED  BY <2>1
<1>4. {first} \in T  BY <1>1
<1> HIDE DEF T, step
<1>5. PICK h \in [0..n -> T] : Iterates(h, {first}, step, n)
  BY <1>0, <1>3, <1>4, Iteration
<1>6. ASSUME NEW k \in 0..n, k # 0
      PROVE  step[k][h[k - 1]] = UNION {Turn(c, n, t) : t \in h[k - 1]}
  <2>1. k \in 1..n /\ k - 1 \in 0..n  BY <1>0, <1>6
  <2>2. h[k - 1] \in T  BY <2>1
  <2> QED  BY <2>1, <2>2 DEF step
<1>7. h = [k \in 0..n |-> IF k = 0 THEN {first} ELSE UNION {Turn(c, n, t) : t \in h[k - 1]}]
  BY <1>5, <1>6 DEF Iterates
<1>8. PICK g : /\ g = [k \in 0..n |-> IF k = 0 THEN {first}
                                      ELSE UNION {Turn(c, n, t) : t \in g[k - 1]}]
               /\ Decrypts(c, data, n) = g[n]
  BY <1>7, Zenon DEF Decrypts, first
<1>9. /\ g[0] = {first}
      /\ \A k \in 1..n : g[k] = UNION {Turn(c, n, t) : t \in g[k - 1]}
  <2>1. 0 \in 0..n /\ \A k \in 1..n : k \in 0..n /\ k # 0  BY <1>0
  <2> QED  BY <1>8, <2>1
<1> DEFINE P == {k \in 0..n : g[k] \in T}
<1>10. 0 \in P  BY <1>0, <1>4, <1>9
<1>11. ASSUME NEW k \in 0..n, k # n /\ k \in P PROVE k + 1 \in P
  <2>1. k + 1 \in 1..n /\ k + 1 \in 0..n /\ (k + 1) - 1 = k  BY <1>0, <1>11
  <2>2. g[k + 1] = UNION {Turn(c, n, t) : t \in g[k]}  BY <1>9, <2>1
  <2>3. g[k] \subseteq States  BY <1>11 DEF T
  <2>4. g[k + 1] \subseteq States  BY <1>2, <2>2, <2>3
  <2> QED  BY <2>1, <2>4 DEF T
<1> HIDE DEF P
<1>12. 0..n \subseteq P  BY <1>0, <1>10, <1>11, SetInduction, Zenon
<1>13. g \in [0..n -> T]
  <2>1. \A k \in 0..n : g[k] \in T  BY <1>12 DEF P
  <2>2. g = [k \in 0..n |-> g[k]]
    <3>1. DOMAIN g = 0..n  BY <1>8
    <3> QED  BY <1>8, <3>1
  <2> QED  BY <2>1, <2>2
<1> QED  BY <1>8, <1>9, <1>13 DEF T, States, first

(* A read is shorter than a full frame with its overhead, or is one.       *)
LEMMA RequiredFacts ==
  \A n \in 1..Block :
    /\ Accepted(n) => Required(n) \in Nat /\ Header + Required(n) <= n
    /\ Accepted(n) => Required(n) = n - Overhead
<1> TAKE n \in 1..Block
<1>0. n \in Nat /\ n > 0 /\ n <= Block /\ Block \in Nat /\ Block > 0  BY Sizes
<1>1. CASE n = Block
  <2>1. n % Block = 0 /\ n \div Block = 1  BY <1>0, <1>1
  <2>2. Required(n) = MaxPlain  BY <2>1, Sizes DEF Required
  <2> QED  BY <1>1, <2>2, Sizes
<1>2. CASE n # Block
  <2>1. n % Block = n /\ n \div Block = 0  BY <1>0, <1>2
  <2>2. Required(n) = n - Overhead  BY <1>0, <2>1, Sizes DEF Required
  <2>3. Accepted(n) => n >= Overhead  BY <1>0, <2>1, Sizes DEF Accepted, TooShort
  <2> QED  BY <1>0, <2>2, <2>3, Sizes
<1> QED  BY <1>1, <1>2

------------------------------------------------------------------------------
(* The types: requests, frames and bytes a client really sent.             *)
Request == [size : Nat, close : BOOLEAN]
Served == [request : Nat, pure : BOOLEAN]
ParserState == [state : {"start", "mid", "dead"}, owner : Client \cup {"nobody"},
                request : Nat, at : Int, pure : BOOLEAN, version : BOOLEAN,
                close : BOOLEAN, completed : Seq(Served)]

Asks(p) == p.state = "mid" => p.owner \in Client /\ p.request \in 1..Len(requests[p.owner])

KnownWork ==
  \/ work = NoWork
  \/ /\ work.client \in Client /\ ~disconnect[work.client]
     /\ work.data \in Seq(KnownBytes(work.client)) /\ Len(work.data) =< Block
     /\ work.available \in 1..Len(work.data)

TypesInv ==
  /\ requests \in [Client -> Seq(Request)] /\ served \in [Client -> Seq(Served)]
  /\ frames \in [Client -> Seq(Frame)] /\ stream \in [Client -> Seq(AByte)]
  /\ \A c \in Client : /\ frames[c] \in Seq(KnownFrames(c))
                       /\ stream[c] \in Seq(KnownBytes(c))
                       /\ count_reads[c] =< MaxEvents + Len(served[c]) * AnswerFrames
  /\ count_writes \in [Client -> Nat] /\ count_reads \in [Client -> Nat]
  /\ pieces \in [Client -> BOOLEAN] /\ gone \in [Client -> BOOLEAN]
  /\ disconnect \in [Client -> BOOLEAN]
  /\ parser \in ParserState /\ parser.completed = <<>> /\ Asks(parser)
  /\ KnownWork

LEMMA TypesGiveTypeOK == TypesInv => FramingTypeOK
<1> SUFFICES ASSUME TypesInv PROVE FramingTypeOK  OBVIOUS
<1>1. ASSUME NEW c \in Client
      PROVE  /\ count_writes[c] \in Nat
             /\ count_reads[c] \in 0..(MaxEvents + Len(served[c]) * AnswerFrames)
             /\ \A i \in 1..Len(stream[c]) :
                   stream[c][i].kind = "cipher" => stream[c][i].a \in 1..Len(frames[c])
  <2>1. count_writes[c] \in Nat /\ count_reads[c] \in Nat  BY DEF TypesInv
  <2>2. count_reads[c] =< MaxEvents + Len(served[c]) * AnswerFrames  BY DEF TypesInv
  <2>3. MaxEvents + Len(served[c]) * AnswerFrames \in Nat
    <3>1. Len(served[c]) \in Nat  BY LenProperties DEF TypesInv
    <3>2. MaxEvents \in Nat /\ AnswerFrames \in Nat  BY FramingAssumption
    <3>3. \A a \in Nat, b \in Nat : a * b \in Nat  OBVIOUS
    <3>4. Len(served[c]) * AnswerFrames \in Nat  BY <3>1, <3>2, <3>3
    <3> QED  BY <3>2, <3>4
  <2>4. ASSUME NEW i \in 1..Len(stream[c]), stream[c][i].kind = "cipher"
        PROVE  stream[c][i].a \in 1..Len(frames[c])
    <3>1. stream[c][i] \in KnownBytes(c)  BY ElementOfSeq DEF TypesInv
    <3> QED  BY <2>4, <3>1 DEF KnownBytes
  <2> HIDE DEF TypesInv
  <2>5. count_reads[c] \in 0..(MaxEvents + Len(served[c]) * AnswerFrames)
    BY <2>1, <2>2, <2>3
  <2> QED  BY <2>1, <2>4, <2>5
<1>2. work.client \in Client \cup {"nobody"}  BY DEF TypesInv, KnownWork, NoWork
<1>3. ASSUME work.client # "nobody"
      PROVE  ~disconnect[work.client] /\ work.available \in 1..Block /\ Len(work.data) <= Block
  <2>1. work # NoWork  BY <1>3 DEF NoWork
  <2>2. /\ ~disconnect[work.client] /\ Len(work.data) =< Block
        /\ work.data \in Seq(KnownBytes(work.client)) /\ work.available \in 1..Len(work.data)
    BY <2>1 DEF TypesInv, KnownWork
  <2>3. Len(work.data) \in Nat  BY <2>2, LenProperties
  <2>4. Block \in Nat  BY Sizes
  <2> QED  BY <2>2, <2>3, <2>4
<1> QED  BY <1>1, <1>2, <1>3 DEF FramingTypeOK

LEMMA TypesInit == FramingInit => TypesInv
<1> SUFFICES ASSUME FramingInit PROVE TypesInv  OBVIOUS
<1> USE DEF FramingInit
<1>1. \A T : <<>> \in Seq(T)  OBVIOUS
<1>2. /\ requests \in [Client -> Seq(Request)] /\ served \in [Client -> Seq(Served)]
      /\ frames \in [Client -> Seq(Frame)] /\ stream \in [Client -> Seq(AByte)]
  BY <1>1
<1>3. /\ count_writes \in [Client -> Nat] /\ count_reads \in [Client -> Nat]
      /\ pieces \in [Client -> BOOLEAN] /\ gone \in [Client -> BOOLEAN]
      /\ disconnect \in [Client -> BOOLEAN]
  OBVIOUS
<1>4. parser \in ParserState /\ parser.completed = <<>> /\ Asks(parser)
  BY <1>1 DEF ParserState, FreshParser, Asks
<1>5. ASSUME NEW c \in Client
      PROVE  /\ frames[c] \in Seq(KnownFrames(c)) /\ stream[c] \in Seq(KnownBytes(c))
             /\ count_reads[c] =< MaxEvents + Len(served[c]) * AnswerFrames
  <2>1. frames[c] \in Seq(KnownFrames(c)) /\ stream[c] \in Seq(KnownBytes(c))  BY <1>1
  <2>2. count_reads[c] = 0 /\ Len(served[c]) = 0  OBVIOUS
  <2>3. MaxEvents \in Nat /\ 0 * AnswerFrames = 0  BY FramingAssumption
  <2> QED  BY <2>1, <2>2, <2>3
<1>6. KnownWork  BY DEF KnownWork
<1> QED  BY <1>2, <1>3, <1>4, <1>5, <1>6 DEF TypesInv

(* A new request makes what was known before known still.                  *)
LEMMA KnownGrows ==
  ASSUME NEW c \in Client,
         Len(requests[c]) \in Nat, Len(frames[c]) \in Nat,
         Len(requests'[c]) \in Nat, Len(frames'[c]) \in Nat,
         Len(requests[c]) =< Len(requests'[c]), Len(frames[c]) =< Len(frames'[c])
  PROVE  KnownFrames(c) \subseteq KnownFrames(c)' /\ KnownBytes(c) \subseteq KnownBytes(c)'
<1>1. /\ 1..Len(requests[c]) \subseteq 1..Len(requests'[c])
      /\ 1..Len(frames[c]) \subseteq 1..Len(frames'[c])
  OBVIOUS
<1> QED  BY <1>1 DEF KnownFrames, KnownBytes

LEMMA FramesOfFacts ==
  \A r \in Nat, sizes \in Seq(Size) :
    /\ FramesOf(r, sizes) \in Seq(Frame) /\ Len(FramesOf(r, sizes)) = Len(sizes)
    /\ \A i \in 1..Len(sizes) :
          FramesOf(r, sizes)[i]
            = [request |-> r, from |-> Sums(sizes)[i - 1], size |-> sizes[i]]
<1> TAKE r \in Nat, sizes \in Seq(Size)
<1> DEFINE m == Len(sizes)
           frame(i) == [request |-> r, from |-> Sums(sizes)[i - 1], size |-> sizes[i]]
<1>0. m \in Nat /\ \A i \in 1..m : sizes[i] \in Nat
  <2>1. \A i \in 1..Len(sizes) : sizes[i] \in Size  BY ElementOfSeq
  <2>2. m \in Nat  BY LenProperties
  <2> QED  BY <2>1, <2>2, Sizes
<1>1. ASSUME NEW i \in 1..m PROVE Sums(sizes)[i - 1] \in Nat
  <2>1. i - 1 \in 0..m  BY <1>0
  <2>2. Sums(sizes) \in [0..m -> Nat]  BY SumsFacts
  <2> QED  BY <2>1, <2>2
<1>2. FramesOf(r, sizes) = [i \in 1..m |-> frame(i)]  BY DEF FramesOf
<1>3. \A i \in 1..m : frame(i) \in Frame  BY <1>0, <1>1 DEF Frame
<1> HIDE DEF m, frame
<1>4. FramesOf(r, sizes) \in Seq(Frame) /\ Len(FramesOf(r, sizes)) = m
  BY <1>0, <1>2, <1>3
<1>5. \A i \in 1..m : FramesOf(r, sizes)[i] = frame(i)  BY <1>2
<1> QED  BY <1>4, <1>5 DEF m, frame

LEMMA TypesSendRequest ==
  ASSUME TypesInv, NEW c \in Client, SendRequest(c)
  PROVE  TypesInv'
<1>1. PICK sizes \in Shapes, close \in BOOLEAN :
        /\ stream' = [stream EXCEPT ![c] = Bytes(c, sizes)]
        /\ requests' = [requests EXCEPT ![c] =
                          Append(@, [size |-> Total(sizes), close |-> close])]
        /\ frames' = [frames EXCEPT ![c] = @ \o FramesOf(Len(requests[c]) + 1, sizes)]
  BY DEF SendRequest
<1>2. /\ UNCHANGED <<gone, count_writes, count_reads, disconnect, served, parser, work, pieces>>
  BY DEF SendRequest
<1> DEFINE r == Len(requests[c]) + 1
           f == Len(frames[c])
           m == Len(sizes)
           asked == [size |-> Total(sizes), close |-> close]
           more == FramesOf(r, sizes)
           bytes == Bytes(c, sizes)
<1>3. sizes \in Seq(Size) /\ m \in Nat  BY Sizes, LenProperties
<1>4. /\ requests \in [Client -> Seq(Request)] /\ frames \in [Client -> Seq(Frame)]
      /\ stream \in [Client -> Seq(AByte)]
      /\ requests[c] \in Seq(Request) /\ frames[c] \in Seq(Frame)
      /\ frames[c] \in Seq(KnownFrames(c))
  BY DEF TypesInv
<1>5. r \in Nat /\ r > 0 /\ f \in Nat /\ Len(requests[c]) \in Nat  BY <1>4, LenProperties
<1>6. asked \in Request
  <2>1. Sums(sizes) \in [0..m -> Nat]  BY <1>3, SumsFacts
  <2>2. Total(sizes) \in Nat
    <3>1. m \in 0..m  BY <1>3
    <3>2. Total(sizes) = Sums(sizes)[m]  BY DEF Total
    <3> HIDE DEF m
    <3> QED  BY <2>1, <3>1, <3>2
  <2> QED  BY <2>2 DEF Request
<1>7. /\ more \in Seq(Frame) /\ Len(more) = m
      /\ \A i \in 1..m : more[i].request = r
  <2>1. more \in Seq(Frame) /\ Len(more) = m
    <3> HIDE DEF r
    <3>1. FramesOf(r, sizes) \in Seq(Frame) /\ Len(FramesOf(r, sizes)) = Len(sizes)
      BY <1>3, <1>5, FramesOfFacts
    <3> QED  BY <3>1
  <2>2. \A i \in 1..m :
           more[i] = [request |-> r, from |-> Sums(sizes)[i - 1], size |-> sizes[i]]
    BY <1>3, <1>5, FramesOfFacts
  <2> HIDE DEF more, m, r
  <2>3. ASSUME NEW i \in 1..m PROVE more[i].request = r
    <3>1. PICK from, size : more[i] = [request |-> r, from |-> from, size |-> size]
      BY <2>2, Zenon
    <3> QED  BY <3>1
  <2> QED  BY <2>1, <2>3
<1>8. Append(requests[c], asked) \in Seq(Request) /\ Len(Append(requests[c], asked)) = r
  BY <1>4, <1>6, AppendProperties
<1>9. /\ frames[c] \o more \in Seq(Frame) /\ Len(frames[c] \o more) = f + m
      /\ \A i \in 1..(f + m) :
            (frames[c] \o more)[i] = IF i <= f THEN frames[c][i] ELSE more[i - f]
  <2> HIDE DEF more, m
  <2>1. /\ frames[c] \o more \in Seq(Frame)
        /\ Len(frames[c] \o more) = Len(frames[c]) + Len(more)
        /\ \A i \in 1..Len(frames[c]) + Len(more) :
              (frames[c] \o more)[i] = IF i <= Len(frames[c]) THEN frames[c][i]
                                       ELSE more[i - Len(frames[c])]
    BY <1>4, <1>7, ConcatProperties
  <2>2. Len(more) = m  BY <1>7
  <2> QED  BY <2>1, <2>2
<1> HIDE DEF asked, more
<1>10. /\ requests' = [requests EXCEPT ![c] = Append(@, asked)]
       /\ frames' = [frames EXCEPT ![c] = @ \o more]
  BY <1>1 DEF asked, more
<1>11. /\ requests' \in [Client -> Seq(Request)] /\ Len(requests'[c]) = r
       /\ frames' \in [Client -> Seq(Frame)] /\ frames'[c] = frames[c] \o more
       /\ Len(frames'[c]) = f + m
       /\ \A k \in Client \ {c} : requests'[k] = requests[k] /\ frames'[k] = frames[k]
  <2>1. /\ requests' \in [Client -> Seq(Request)]
        /\ requests'[c] = Append(requests[c], asked)
        /\ \A k \in Client \ {c} : requests'[k] = requests[k]
    BY <1>4, <1>8, <1>10
  <2>2. /\ frames' \in [Client -> Seq(Frame)] /\ frames'[c] = frames[c] \o more
        /\ \A k \in Client \ {c} : frames'[k] = frames[k]
    BY <1>4, <1>9, <1>10
  <2> QED  BY <1>8, <1>9, <2>1, <2>2
<1>12. KnownFrames(c) \subseteq KnownFrames(c)' /\ KnownBytes(c) \subseteq KnownBytes(c)'
  <2> HIDE DEF f, m
  <2>0. f = Len(frames[c])  BY DEF f
  <2>1. /\ Len(requests'[c]) \in Nat /\ Len(frames'[c]) \in Nat
        /\ Len(requests[c]) =< Len(requests'[c]) /\ f =< Len(frames'[c])
    BY <1>3, <1>5, <1>11
  <2> QED  BY <1>5, <2>0, <2>1, KnownGrows
<1>13. frames'[c] \in Seq(KnownFrames(c)')
  <2>1. \A i \in 1..(f + m) : (frames[c] \o more)[i] \in KnownFrames(c)'
    <3> TAKE i \in 1..(f + m)
    <3>1. CASE i <= f
      <4>1. i \in 1..f  BY <1>3, <1>5, <3>1
      <4>2. frames[c][i] \in KnownFrames(c)  BY <1>4, <4>1, ElementOfSeq
      <4> QED  BY <1>9, <1>12, <3>1, <4>2
    <3>2. CASE ~(i <= f)
      <4>1. i - f \in 1..m  BY <1>3, <1>5, <3>2
      <4>2. more[i - f] \in Frame /\ more[i - f].request = r
        BY <1>7, <4>1, ElementOfSeq
      <4>3. r \in 1..Len(requests'[c])  BY <1>5, <1>11
      <4>4. more[i - f] \in KnownFrames(c)'  BY <4>2, <4>3 DEF KnownFrames
      <4> QED  BY <1>9, <3>2, <4>4
    <3> QED  BY <3>1, <3>2
  <2>2. frames'[c] \in Seq(Frame) /\ Len(frames'[c]) = f + m  BY <1>11
  <2>3. \A i \in 1..Len(frames'[c]) : frames'[c][i] \in KnownFrames(c)'
    BY <1>11, <2>1, <2>2
  <2> HIDE DEF f, m
  <2> QED  BY <2>2, <2>3, SeqDef
<1> HIDE DEF r, m, f
<1>14. bytes \in Seq(KnownBytes(c)') /\ bytes \in Seq(AByte)
  <2>1. CASE c \in Encrypted
    <3>1. bytes = Sealed(f, sizes)  BY <2>1 DEF Bytes, f
    <3>2. bytes \in Seq(CipherBytes(f, m))  BY <1>3, <1>5, <3>1, SealedFacts DEF m
    <3>3. CipherBytes(f, m) \subseteq KnownBytes(c)'
      <4>1. (f + 1)..(f + m) \subseteq 1..Len(frames'[c])  BY <1>3, <1>5, <1>11
      <4> QED  BY <4>1 DEF CipherBytes, KnownBytes
    <3>4. CipherBytes(f, m) \subseteq AByte  BY DEF CipherBytes
    <3> QED  BY <3>2, <3>3, <3>4, SeqMonotonic
  <2>2. CASE c \notin Encrypted
    <3>1. bytes = Plain(r, 0, Total(sizes))  BY <2>2 DEF Bytes, r
    <3>2. Total(sizes) \in Nat  BY <1>6 DEF asked, Request
    <3>3. r \in 1..Len(requests'[c])  BY <1>5, <1>11
    <3>4. \A k \in 1..Total(sizes) : Byte("plain", r, 0 + k) \in KnownBytes(c)'
      BY <1>5, <3>2, <3>3 DEF Byte, KnownBytes, AByte
    <3>5. bytes = [k \in 1..Total(sizes) |-> Byte("plain", r, 0 + k)]
      BY <3>1 DEF Plain
    <3>6. bytes \in Seq(AByte)  BY <1>5, <3>1, <3>2, PlainFacts
    <3>7. bytes \in Seq(KnownBytes(c)')  BY <3>2, <3>4, <3>5
    <3> QED  BY <3>6, <3>7
  <2> QED  BY <2>1, <2>2
<1> HIDE DEF bytes
<1>15. stream' = [stream EXCEPT ![c] = bytes]  BY <1>1 DEF bytes
<1>16. /\ stream' \in [Client -> Seq(AByte)] /\ stream'[c] = bytes
       /\ \A k \in Client \ {c} : stream'[k] = stream[k]
  BY <1>4, <1>14, <1>15
<1>17. ASSUME NEW k \in Client
       PROVE  /\ frames'[k] \in Seq(KnownFrames(k)') /\ stream'[k] \in Seq(KnownBytes(k)')
              /\ count_reads'[k] =< MaxEvents + Len(served'[k]) * AnswerFrames
  <2>1. count_reads'[k] =< MaxEvents + Len(served'[k]) * AnswerFrames
    BY <1>2 DEF TypesInv
  <2>2. CASE k = c  BY <1>13, <1>14, <1>16, <2>1, <2>2
  <2>3. CASE k # c
    <3>1. frames'[k] = frames[k] /\ requests'[k] = requests[k] /\ stream'[k] = stream[k]
      BY <1>11, <1>16, <2>3
    <3>2. KnownFrames(k)' = KnownFrames(k) /\ KnownBytes(k)' = KnownBytes(k)
      BY <3>1 DEF KnownFrames, KnownBytes
    <3>3. frames[k] \in Seq(KnownFrames(k)) /\ stream[k] \in Seq(KnownBytes(k))
      BY DEF TypesInv
    <3> QED  BY <2>1, <3>1, <3>2, <3>3
  <2> QED  BY <2>2, <2>3
<1>18. Asks(parser)'
  <2>1. parser' = parser /\ Asks(parser)  BY <1>2 DEF TypesInv
  <2>2. CASE parser.state = "mid" /\ parser.owner = c
    <3>1. 1..Len(requests[c]) \subseteq 1..Len(requests'[c])  BY <1>5, <1>11 DEF r
    <3> QED  BY <2>1, <2>2, <3>1 DEF Asks
  <2>3. CASE ~(parser.state = "mid" /\ parser.owner = c)
    BY <1>11, <2>1, <2>3 DEF Asks
  <2> QED  BY <2>2, <2>3
<1>19. KnownWork'
  <2>1. work' = work /\ disconnect' = disconnect /\ KnownWork  BY <1>2 DEF TypesInv
  <2>2. CASE work = NoWork  BY <2>1, <2>2 DEF KnownWork, NoWork
  <2>3. CASE work # NoWork
    <3>1. /\ work.client \in Client /\ ~disconnect[work.client]
          /\ work.data \in Seq(KnownBytes(work.client)) /\ Len(work.data) =< Block
          /\ work.available \in 1..Len(work.data)
      BY <2>1, <2>3 DEF KnownWork
    <3>2. PICK k \in Client : k = work.client  BY <3>1
    <3>3. work.data \in Seq(KnownBytes(k)')
      <4>1. work.data \in Seq(KnownBytes(k))  BY <3>1, <3>2
      <4>2. CASE k = c
        <5>1. Seq(KnownBytes(c)) \subseteq Seq(KnownBytes(c)')
          BY <1>12, SeqMonotonic
        <5> QED  BY <4>1, <4>2, <5>1
      <4>3. CASE k # c
        <5>1. frames'[k] = frames[k] /\ requests'[k] = requests[k]  BY <1>11, <4>3
        <5>2. KnownBytes(k)' = KnownBytes(k)  BY <5>1 DEF KnownBytes
        <5> QED  BY <4>1, <5>2
      <4> QED  BY <4>2, <4>3
    <3>4. KnownBytes(work.client)' = KnownBytes(k)'  BY <2>1, <3>2
    <3> QED  BY <2>1, <3>1, <3>3, <3>4 DEF KnownWork
  <2> QED  BY <2>2, <2>3
<1>20. /\ served' \in [Client -> Seq(Served)]
       /\ count_writes' \in [Client -> Nat] /\ count_reads' \in [Client -> Nat]
       /\ pieces' \in [Client -> BOOLEAN] /\ gone' \in [Client -> BOOLEAN]
       /\ disconnect' \in [Client -> BOOLEAN]
       /\ parser' \in ParserState /\ parser'.completed = <<>>
  BY <1>2 DEF TypesInv
<1> QED  BY <1>11, <1>16, <1>17, <1>18, <1>19, <1>20 DEF TypesInv

LEMMA StartedTyped ==
  ASSUME TypesInv, NEW c \in Client, NEW x \in KnownBytes(c), NEW q, q = Started(parser, c, x)
  PROVE  q \in ParserState /\ q.completed = <<>> /\ Asks(q)
<1>0. parser \in ParserState /\ parser.completed = <<>> /\ Asks(parser)  BY DEF TypesInv
<1>1. CASE parser.state = "start" /\ x.kind = "plain" /\ x.b = 1
  <2>1. q = [FreshParser EXCEPT !.state = "mid", !.owner = c, !.request = x.a,
                                !.version = parser.version]
    BY <1>1 DEF Started
  <2>2. x.a \in Nat /\ x.a \in 1..Len(requests[c])
    BY <1>1 DEF KnownBytes, AByte
  <2>3. /\ q = [state |-> "mid", owner |-> c, request |-> x.a, at |-> 0, pure |-> TRUE,
                version |-> parser.version, close |-> FALSE, completed |-> <<>>]
    BY <2>1 DEF FreshParser
  <2>4. parser.version \in BOOLEAN /\ <<>> \in Seq(Served)  BY <1>0 DEF ParserState
  <2>5. q \in ParserState  BY <2>2, <2>3, <2>4 DEF ParserState
  <2> QED  BY <2>2, <2>3, <2>5 DEF Asks
<1>2. CASE ~(parser.state = "start" /\ x.kind = "plain" /\ x.b = 1)
  BY <1>0, <1>2 DEF Started
<1> QED  BY <1>1, <1>2

LEMMA ExecuteTyped ==
  ASSUME TypesInv, NEW c \in Client, NEW payload \in Seq(KnownBytes(c)),
         NEW p, p = Execute(parser, c, payload)
  PROVE  /\ p \in ParserState /\ Asks(p)
         /\ p.completed = <<>> \/ \E x \in Served : p.completed = <<x>>
<1>0. parser \in ParserState /\ parser.completed = <<>> /\ Asks(parser)  BY DEF TypesInv
<1>1. CASE parser.state = "dead"  BY <1>0, <1>1 DEF Execute
<1>2. CASE parser.state # "dead" /\ payload = <<>>
  <2>1. p = [parser EXCEPT !.state = IF parser.state = "mid" THEN "dead" ELSE parser.state]
    BY <1>2 DEF Execute
  <2>2. /\ p \in ParserState /\ p.completed = <<>> /\ p.state # "mid"
    BY <1>0, <2>1 DEF ParserState
  <2> QED  BY <2>2 DEF Asks
<1>3. CASE parser.state # "dead" /\ payload # <<>>
  <2> DEFINE q == Started(parser, c, payload[1])
             asked == requests[q.owner][q.request]
             taken == Lesser(asked.size - q.at, Len(payload))
             wrong == {k \in 1..taken : \/ q.owner # c
                                       \/ payload[k] # Byte("plain", q.request, q.at + k)}
             at == q.at + taken
             next == [q EXCEPT !.at = at, !.pure = @ /\ wrong = {},
                               !.version = @ \/ at >= HeadSize,
                               !.close = asked.close /\ at >= HeadSize]
  <2>1. p = IF q.state # "mid" THEN [q EXCEPT !.state = "dead"]
            ELSE IF \E k \in wrong : q.at + k <= HeadSize THEN [q EXCEPT !.state = "dead"]
            ELSE IF at < asked.size THEN next
            ELSE [next EXCEPT
                   !.state = IF next.close \/ taken < Len(payload) THEN "dead" ELSE "start",
                   !.completed = <<[request |-> q.request, pure |-> next.pure]>>]
    BY <1>3, Zenon DEF Execute
  <2>2. Len(payload) \in Nat /\ payload[1] \in KnownBytes(c)
    <3>1. Len(payload) \in Nat  BY LenProperties
    <3>2. Len(payload) # 0  BY <1>3
    <3>3. 1 \in 1..Len(payload)  BY <3>1, <3>2
    <3> QED  BY <3>1, <3>3, ElementOfSeq
  <2>3. q \in ParserState /\ q.completed = <<>> /\ Asks(q)  BY <2>2, StartedTyped
  <2> HIDE DEF q
  <2>4. [q EXCEPT !.state = "dead"] \in ParserState /\ Asks([q EXCEPT !.state = "dead"])
        /\ [q EXCEPT !.state = "dead"].completed = <<>>
    BY <2>3 DEF ParserState, Asks
  <2>5. CASE q.state # "mid"  BY <2>1, <2>4, <2>5
  <2>6. CASE q.state = "mid"
    <3>1. q.owner \in Client /\ q.request \in 1..Len(requests[q.owner])
      BY <2>3, <2>6 DEF Asks
    <3>2. requests[q.owner] \in Seq(Request)  BY <3>1 DEF TypesInv
    <3>3. asked \in Request  BY <3>1, <3>2, ElementOfSeq
    <3>4. asked.size \in Nat /\ asked.close \in BOOLEAN /\ q.at \in Int
      BY <2>3, <3>3 DEF Request, ParserState
    <3> HIDE DEF asked
    <3>5. taken \in Int /\ at \in Int  BY <2>2, <3>4 DEF Lesser
    <3> HIDE DEF taken, wrong, at
    <3> DEFINE pure == q.pure /\ wrong = {}
               version == q.version \/ at >= HeadSize
               close == asked.close /\ at >= HeadSize
    <3>6. next = [q EXCEPT !.at = at, !.pure = pure, !.version = version, !.close = close]
      OBVIOUS
    <3>7. pure \in BOOLEAN /\ version \in BOOLEAN /\ close \in BOOLEAN  OBVIOUS
    <3> HIDE DEF pure, version, close, next
    <3>8. next \in ParserState  BY <2>3, <3>5, <3>6, <3>7 DEF ParserState
    <3>9. next.owner = q.owner /\ next.request = q.request /\ next.completed = <<>>
          /\ next.state = q.state
      BY <2>3, <3>6 DEF ParserState
    <3>10. Asks(next)  BY <3>1, <3>9 DEF Asks
    <3>11. CASE \E k \in wrong : q.at + k <= HeadSize  BY <2>1, <2>4, <2>6, <3>11
    <3>12. CASE ~(\E k \in wrong : q.at + k <= HeadSize) /\ at < asked.size
      BY <2>1, <2>6, <3>8, <3>9, <3>10, <3>12
    <3>13. CASE ~(\E k \in wrong : q.at + k <= HeadSize) /\ ~(at < asked.size)
      <4> DEFINE state == IF next.close \/ taken < Len(payload) THEN "dead" ELSE "start"
                 x == [request |-> q.request, pure |-> next.pure]
      <4>1. p = [next EXCEPT !.state = state, !.completed = <<x>>]
        BY <2>1, <2>6, <3>13
      <4>2. state \in {"start", "dead"}  OBVIOUS
      <4>3. x \in Served  BY <2>3, <3>8 DEF Served, ParserState
      <4>4. <<x>> \in Seq(Served)
        <5> HIDE DEF x
        <5> QED  BY <4>3
      <4> HIDE DEF x, state
      <4>5. p \in ParserState  BY <3>8, <4>1, <4>2, <4>4 DEF ParserState
      <4>6. p.completed = <<x>> /\ p.state = state  BY <3>8, <4>1 DEF ParserState
      <4> QED  BY <4>2, <4>3, <4>5, <4>6 DEF Asks
    <3> QED  BY <3>11, <3>12, <3>13
  <2> QED  BY <2>5, <2>6
<1> QED  BY <1>1, <1>2, <1>3

(* The part of the types that a turn of homekit_client_process() changes   *)
(* besides what it reads.                                                  *)
Answered ==
  /\ served \in [Client -> Seq(Served)] /\ count_reads \in [Client -> Nat]
  /\ \A c \in Client : count_reads[c] =< MaxEvents + Len(served[c]) * AnswerFrames
  /\ disconnect \in [Client -> BOOLEAN]
  /\ parser \in ParserState /\ parser.completed = <<>> /\ Asks(parser)
  /\ KnownWork

LEMMA FreshTyped == FreshParser \in ParserState /\ FreshParser.completed = <<>> /\ Asks(FreshParser)
<1>1. <<>> \in Seq(Served)  OBVIOUS
<1> QED  BY <1>1 DEF FreshParser, ParserState, Asks

LEMMA ParseTyped ==
  ASSUME TypesInv, NEW c \in Client, ~disconnect[c], NEW payload \in Seq(KnownBytes(c)),
         NEW data, NEW available,
         available > 0 => /\ data \in Seq(KnownBytes(c)) /\ Len(data) =< Block
                          /\ available \in 1..Len(data),
         Parse(c, payload, data, available), UNCHANGED <<requests, frames>>
  PROVE  Answered'
<1>0. /\ served \in [Client -> Seq(Served)] /\ count_reads \in [Client -> Nat]
      /\ disconnect \in [Client -> BOOLEAN]
      /\ \A k \in Client : count_reads[k] =< MaxEvents + Len(served[k]) * AnswerFrames
  BY DEF TypesInv
<1>1. PICK p \in {Execute(parser, c, payload)} :
        /\ served' = [served EXCEPT ![c] = @ \o p.completed]
        /\ IF p.completed # <<>> /\ c \in Encrypted
           THEN \E n \in 1..AnswerFrames : \E torn \in 0..n : Send(c, n, torn)
           ELSE UNCHANGED <<count_reads, error_write, wire>>
        /\ IF available > 0 /\ p.completed = <<>>
           THEN /\ work' = [client |-> c, data |-> data, available |-> available]
                /\ parser' = p
                /\ UNCHANGED disconnect
           ELSE EndOfCall(c, p)
  BY DEF Parse
<1>2. /\ p \in ParserState /\ Asks(p)
      /\ p.completed = <<>> \/ \E x \in Served : p.completed = <<x>>
  BY ExecuteTyped
<1> DEFINE old == served[c]
           new == old \o p.completed
<1>3. old \in Seq(Served) /\ Len(old) \in Nat  BY <1>0, LenProperties
<1>4. /\ new \in Seq(Served)
      /\ p.completed = <<>> => Len(new) = Len(old)
      /\ p.completed # <<>> => Len(new) = Len(old) + 1
  <2>1. CASE p.completed = <<>>
    <3>1. new = old  BY <1>3, <2>1
    <3> HIDE DEF new
    <3> QED  BY <1>3, <2>1, <3>1
  <2>2. CASE p.completed # <<>>
    <3>1. PICK x \in Served : p.completed = <<x>>  BY <1>2, <2>2
    <3>2. <<x>> \in Seq(Served) /\ Len(<<x>>) = 1  OBVIOUS
    <3>3. new \in Seq(Served) /\ Len(new) = Len(old) + Len(<<x>>)
      BY <1>3, <3>1, <3>2, ConcatProperties
    <3> HIDE DEF new
    <3> QED  BY <2>2, <3>2, <3>3
  <2> QED  BY <2>1, <2>2
<1> HIDE DEF new
<1>5. /\ served' \in [Client -> Seq(Served)] /\ served'[c] = new
      /\ \A k \in Client \ {c} : served'[k] = served[k]
  <2>1. served' = [served EXCEPT ![c] = new]  BY <1>1 DEF new
  <2> QED  BY <1>0, <1>4, <2>1
<1>6. /\ count_reads' \in [Client -> Nat]
      /\ \A k \in Client : count_reads'[k] =< MaxEvents + Len(served'[k]) * AnswerFrames
  <2>0. MaxEvents \in Nat /\ AnswerFrames \in Nat  BY FramingAssumption
  <2>1. CASE p.completed # <<>> /\ c \in Encrypted
    <3>1. PICK n \in 1..AnswerFrames : \E torn \in 0..n : Send(c, n, torn)  BY <1>1, <2>1
    <3>2. count_reads' = [count_reads EXCEPT ![c] = @ + n]  BY <3>1 DEF Send
    <3>3. /\ count_reads' \in [Client -> Nat] /\ count_reads'[c] = count_reads[c] + n
          /\ \A k \in Client \ {c} : count_reads'[k] = count_reads[k]
      BY <1>0, <3>2
    <3>4. count_reads'[c] =< MaxEvents + Len(served'[c]) * AnswerFrames
      <4>1. Len(served'[c]) = Len(old) + 1  BY <1>4, <1>5, <2>1
      <4>2. count_reads[c] \in Nat /\ count_reads[c] =< MaxEvents + Len(old) * AnswerFrames
        BY <1>0
      <4>3. \A a \in Nat, b \in Nat : (a + 1) * b = a * b + b /\ a * b \in Nat  OBVIOUS
      <4>4. /\ (Len(old) + 1) * AnswerFrames = Len(old) * AnswerFrames + AnswerFrames
            /\ Len(old) * AnswerFrames \in Nat
        BY <1>3, <2>0, <4>3
      <4> DEFINE sofar == Len(old) * AnswerFrames
      <4> HIDE DEF sofar
      <4>5. count_reads[c] =< MaxEvents + sofar /\ sofar \in Nat  BY <4>2, <4>4 DEF sofar
      <4>6. count_reads[c] + n =< MaxEvents + (sofar + AnswerFrames)  BY <2>0, <4>2, <4>5
      <4>7. Len(served'[c]) * AnswerFrames = sofar + AnswerFrames  BY <4>1, <4>4 DEF sofar
      <4> QED  BY <3>3, <4>6, <4>7
    <3>5. ASSUME NEW k \in Client
          PROVE  count_reads'[k] =< MaxEvents + Len(served'[k]) * AnswerFrames
      <4>1. CASE k = c  BY <3>4, <4>1
      <4>2. CASE k # c  BY <1>0, <1>5, <3>3, <4>2
      <4> QED  BY <4>1, <4>2
    <3> QED  BY <3>3, <3>5
  <2>2. CASE ~(p.completed # <<>> /\ c \in Encrypted)
    <3>1. count_reads' = count_reads  BY <1>1, <2>2
    <3>2. ASSUME NEW k \in Client
          PROVE  count_reads'[k] =< MaxEvents + Len(served'[k]) * AnswerFrames
      <4>1. CASE k = c
        <5>1. Len(new) = Len(old) \/ Len(new) = Len(old) + 1  BY <1>4
        <5>2. \A a \in Nat, b \in Nat : (a + 1) * b = a * b + b /\ a * b \in Nat  OBVIOUS
        <5>3. /\ (Len(old) + 1) * AnswerFrames = Len(old) * AnswerFrames + AnswerFrames
              /\ Len(old) * AnswerFrames \in Nat
          BY <1>3, <2>0, <5>2
        <5> DEFINE sofar == Len(old) * AnswerFrames
        <5>4. count_reads[c] \in Nat /\ count_reads[c] =< MaxEvents + sofar  BY <1>0
        <5>5. Len(new) * AnswerFrames = sofar \/ Len(new) * AnswerFrames = sofar + AnswerFrames
          BY <5>1, <5>3
        <5>6. sofar \in Nat  BY <5>3
        <5> HIDE DEF sofar
        <5> DEFINE after == Len(new) * AnswerFrames
        <5>7. after = sofar \/ after = sofar + AnswerFrames  BY <5>5
        <5> HIDE DEF after
        <5>8. count_reads[c] =< MaxEvents + after  BY <2>0, <5>4, <5>6, <5>7
        <5> QED  BY <1>5, <3>1, <4>1, <5>8 DEF after
      <4>2. CASE k # c  BY <1>0, <1>5, <3>1, <4>2
      <4> QED  BY <4>1, <4>2
    <3> QED  BY <1>0, <3>1, <3>2
  <2> QED  BY <2>1, <2>2
<1>7. CASE available > 0 /\ p.completed = <<>>
  <2>1. /\ work' = [client |-> c, data |-> data, available |-> available]
        /\ parser' = p /\ UNCHANGED disconnect
    BY <1>1, <1>7
  <2>2. Asks(parser)'  BY <1>2, <2>1 DEF Asks
  <2>3. KnownWork'
    <3>1. work'.client = c /\ work'.data = data /\ work'.available = available  BY <2>1
    <3>2. KnownBytes(c)' = KnownBytes(c)  BY DEF KnownBytes
    <3>3. KnownBytes(work.client)' = KnownBytes(c)  BY <3>1, <3>2
    <3> QED  BY <1>7, <2>1, <3>1, <3>3 DEF KnownWork
  <2> QED  BY <1>0, <1>2, <1>5, <1>6, <1>7, <2>1, <2>2, <2>3 DEF Answered
<1>8. CASE ~(available > 0 /\ p.completed = <<>>)
  <2>1. EndOfCall(c, p)  BY <1>1, <1>8
  <2>2. /\ disconnect' = [disconnect EXCEPT ![c] = @ \/ ~KeepAlive(p)]
        /\ parser' = FreshParser /\ work' = NoWork
    BY <2>1 DEF EndOfCall
  <2>3. disconnect' \in [Client -> BOOLEAN]  BY <1>0, <2>2
  <2>4. KnownWork'  BY <2>2 DEF KnownWork, NoWork
  <2>5. parser' \in ParserState /\ parser'.completed = <<>> /\ Asks(parser)'
    BY <2>2, FreshTyped DEF Asks, FreshParser
  <2> QED  BY <1>5, <1>6, <2>3, <2>4, <2>5 DEF Answered
<1> QED  BY <1>7, <1>8

LEMMA Part ==
  ASSUME NEW T, NEW s \in Seq(T), NEW a \in Nat, NEW b \in Nat, b =< Len(s)
  PROVE  /\ SubSeq(s, a + 1, b) \in Seq(T)
         /\ Len(SubSeq(s, a + 1, b)) = IF a =< b THEN b - a ELSE 0
         /\ \A i \in 1..(b - a) : SubSeq(s, a + 1, b)[i] = s[a + i]
<1>0. Len(s) \in Nat  BY LenProperties
<1>1. \A i \in (a + 1)..b : s[i] \in T
  <2> TAKE i \in (a + 1)..b
  <2>1. i \in 1..Len(s)  BY <1>0
  <2> QED  BY <2>1, ElementOfSeq
<1>2. a + 1 \in Int /\ b \in Int  OBVIOUS
<1> DEFINE m == a + 1
           t == SubSeq(s, m, b)
<1> HIDE DEF m
<1>3. /\ t \in Seq(T) /\ Len(t) = IF m <= b THEN b - m + 1 ELSE 0
      /\ \A i \in 1..(b - m + 1) : t[i] = s[m + i - 1]
  BY <1>1, <1>2, SubSeqProperties DEF m
<1> HIDE DEF t
<1>4. Len(t) = IF a =< b THEN b - a ELSE 0  BY <1>3 DEF m
<1>5. ASSUME NEW i \in 1..(b - a) PROVE t[i] = s[a + i]
  <2>1. i \in 1..(b - m + 1) /\ m + i - 1 = a + i  BY DEF m
  <2> QED  BY <1>3, <2>1
<1> QED  BY <1>3, <1>4, <1>5 DEF t, m

(* What a turn finds in the buffer behind the bytes left over.             *)
Offered(c, n) == SubSeq(work.data, 1, work.available) \o SubSeq(stream[c], 1, n)

LEMMA OfferedFacts ==
  ASSUME TypesInv, NEW c \in Client, work.client \in {"nobody", c}, NEW n \in 1..Readable(c)
  PROVE  /\ work.available \in Nat /\ n \in 1..Len(stream[c]) /\ n \in 1..Block
         /\ Offered(c, n) \in Seq(KnownBytes(c))
         /\ Len(Offered(c, n)) = work.available + n /\ work.available + n =< Block
         /\ \A i \in 1..n : Offered(c, n)[work.available + i] = stream[c][i]
<1>0. Block \in Nat /\ stream[c] \in Seq(KnownBytes(c)) /\ Len(stream[c]) \in Nat
  BY Sizes, LenProperties DEF TypesInv
<1>1. /\ work.available \in Nat /\ work.available =< Block
      /\ SubSeq(work.data, 1, work.available) \in Seq(KnownBytes(c))
      /\ Len(SubSeq(work.data, 1, work.available)) = work.available
  <2>1. CASE work = NoWork
    <3>1. work.available = 0 /\ work.data = <<>>  BY <2>1 DEF NoWork
    <3>2. SubSeq(work.data, 1, 0) = <<>>  BY SubSeqEmpty
    <3>3. <<>> \in Seq(KnownBytes(c)) /\ Len(<<>>) = 0  OBVIOUS
    <3> QED  BY <1>0, <3>1, <3>2, <3>3
  <2>2. CASE work # NoWork
    <3>1. /\ work.client \in Client
          /\ work.data \in Seq(KnownBytes(work.client)) /\ Len(work.data) =< Block
          /\ work.available \in 1..Len(work.data)
      BY <2>2 DEF TypesInv, KnownWork
    <3>2. work.client = c  BY <3>1, FramingAssumption
    <3>3. work.data \in Seq(KnownBytes(c)) /\ Len(work.data) \in Nat
      BY <3>1, <3>2, LenProperties
    <3> DEFINE a == work.available
               s == work.data
    <3>4. a \in Nat /\ a =< Len(s) /\ a =< Block  BY <1>0, <3>1, <3>3
    <3> HIDE DEF a, s
    <3>5. SubSeq(s, 0 + 1, a) \in Seq(KnownBytes(c)) /\ Len(SubSeq(s, 0 + 1, a)) = a
      <4>1. s \in Seq(KnownBytes(c)) /\ 0 \in Nat  BY <3>3 DEF s
      <4>2. SubSeq(s, 0 + 1, a) \in Seq(KnownBytes(c))
            /\ Len(SubSeq(s, 0 + 1, a)) = IF 0 =< a THEN a - 0 ELSE 0
        BY <3>4, <4>1, Part
      <4> QED  BY <3>4, <4>2
    <3> QED  BY <3>4, <3>5 DEF a, s
  <2> QED  BY <2>1, <2>2
<1>2. n \in Nat /\ n > 0 /\ n =< Block - work.available /\ n =< Len(stream[c])
  <2>1. Block - work.available \in Int  BY <1>0, <1>1
  <2> QED  BY <1>0, <2>1 DEF Readable, Lesser
<1>3. SubSeq(stream[c], 1, n) \in Seq(KnownBytes(c)) /\ Len(SubSeq(stream[c], 1, n)) = n
      /\ \A i \in 1..n : SubSeq(stream[c], 1, n)[i] = stream[c][i]
  <2> DEFINE s == stream[c]
  <2>1. s \in Seq(KnownBytes(c)) /\ n =< Len(s) /\ n \in Nat /\ 0 \in Nat  BY <1>0, <1>2
  <2> HIDE DEF s
  <2>2. /\ SubSeq(s, 0 + 1, n) \in Seq(KnownBytes(c))
        /\ Len(SubSeq(s, 0 + 1, n)) = IF 0 =< n THEN n - 0 ELSE 0
        /\ \A i \in 1..(n - 0) : SubSeq(s, 0 + 1, n)[i] = s[0 + i]
    BY <2>1, Part
  <2>3. 0 + 1 = 1 /\ n - 0 = n /\ \A i \in 1..n : 0 + i = i  BY <1>2
  <2> QED  BY <1>2, <2>2, <2>3 DEF s
<1> DEFINE kept == SubSeq(work.data, 1, work.available)
           got == SubSeq(stream[c], 1, n)
<1>4. kept \in Seq(KnownBytes(c)) /\ got \in Seq(KnownBytes(c))
      /\ Len(kept) = work.available /\ Len(got) = n
  BY <1>1, <1>3
<1> HIDE DEF kept, got
<1>5. /\ kept \o got \in Seq(KnownBytes(c)) /\ Len(kept \o got) = Len(kept) + Len(got)
      /\ \A i \in 1..Len(kept) + Len(got) :
            (kept \o got)[i] = IF i <= Len(kept) THEN kept[i] ELSE got[i - Len(kept)]
  BY <1>4, ConcatProperties
<1>6. Offered(c, n) = kept \o got  BY DEF Offered, kept, got
<1>7. ASSUME NEW i \in 1..n
      PROVE  (kept \o got)[work.available + i] = stream[c][i]
  <2> DEFINE a == work.available
  <2>1. a \in Nat /\ Len(kept) = a /\ Len(got) = n  BY <1>1, <1>4
  <2> HIDE DEF a
  <2>2. a + i \in 1..a + n /\ ~(a + i <= a) /\ (a + i) - a = i  BY <1>2, <2>1
  <2>3. (kept \o got)[a + i] = got[i]  BY <1>5, <2>1, <2>2
  <2> QED  BY <1>3, <2>3 DEF a, got
<1>8. Len(kept \o got) = work.available + n /\ work.available + n =< Block
  <2>1. Len(kept \o got) = work.available + n  BY <1>4, <1>5
  <2> QED  BY <1>0, <1>1, <1>2, <2>1
<1>9. n \in 1..Len(stream[c]) /\ n \in 1..Block  BY <1>0, <1>1, <1>2
<1> QED  BY <1>1, <1>5, <1>6, <1>7, <1>8, <1>9

LEMMA RefusedTyped ==
  ASSUME TypesInv, Refused, UNCHANGED <<requests, frames>>
  PROVE  Answered'
<1>1. UNCHANGED <<served, count_reads, disconnect, parser>> /\ work' = NoWork
  BY DEF Refused, Returned
<1>2. KnownWork'  BY <1>1 DEF KnownWork, NoWork
<1>3. Asks(parser)'  BY <1>1 DEF TypesInv, Asks
<1>4. /\ served' \in [Client -> Seq(Served)] /\ count_reads' \in [Client -> Nat]
      /\ \A c \in Client : count_reads'[c] =< MaxEvents + Len(served'[c]) * AnswerFrames
      /\ disconnect' \in [Client -> BOOLEAN]
      /\ parser' \in ParserState /\ parser'.completed = <<>>
  BY <1>1 DEF TypesInv
<1> QED  BY <1>2, <1>3, <1>4 DEF Answered

(* What is left of a read once a frame of it was decrypted.                *)
LEMMA DecryptedTyped ==
  ASSUME TypesInv, NEW c \in Client, ~disconnect[c], NEW data \in Seq(KnownBytes(c)),
         Len(data) =< Block, NEW n \in 1..Len(data), Decrypted(c, data, n),
         UNCHANGED <<requests, frames>>
  PROVE  Answered' /\ count_writes' \in [Client -> Nat]
<1>0. Len(data) \in Nat /\ n \in 1..Block /\ n \in Nat /\ n \in 0..Len(data)
      /\ Block \in Nat
  <2>1. Len(data) \in Nat /\ Block \in Nat  BY LenProperties, Sizes
  <2> QED  BY <2>1
<1>1. count_writes \in [Client -> Nat] /\ frames[c] \in Seq(KnownFrames(c))
      /\ count_writes[c] \in Nat
  BY DEF TypesInv
<1>2. CASE ~Accepted(n)
  <2>1. Refused /\ UNCHANGED count_writes  BY <1>2 DEF Decrypted
  <2> QED  BY <1>1, <2>1, RefusedTyped
<1>3. CASE Accepted(n)
  <2>1. PICK d \in Decrypts(c, data, n) :
          /\ count_writes' = [count_writes EXCEPT ![c] = d.count]
          /\ IF d.failed THEN Refused
             ELSE \E moved \in {IF d.r > 0
                               THEN Overlaid(d.data, 0, SubSeq(d.data, d.r + 1, n))
                               ELSE d.data} :
                  \E payload \in {SubSeq(moved, Header + 1, Header + Required(n))} :
                      Parse(c, payload, moved, n - d.r)
    BY <1>3 DEF Decrypted
  <2>2. d \in LoopState(c, Len(data))
    <3>1. PICK g \in [0..n -> SUBSET LoopState(c, Len(data))] : Decrypts(c, data, n) = g[n]
      BY <1>0, <1>1, LoopTurns
    <3>2. n \in 0..n  BY <1>0
    <3> QED  BY <2>1, <3>1, <3>2
  <2>3. /\ d.r \in Nat /\ d.count \in Nat /\ d.data \in Seq(KnownBytes(c))
        /\ Len(d.data) = Len(data)
    BY <2>2 DEF LoopState
  <2>4. count_writes' \in [Client -> Nat]  BY <1>1, <2>1, <2>3
  <2>5. CASE d.failed
    <3>1. Refused  BY <2>1, <2>5
    <3> QED  BY <2>4, <3>1, RefusedTyped
  <2>6. CASE ~d.failed
    <3> DEFINE rest == SubSeq(d.data, d.r + 1, n)
               moved == IF d.r > 0 THEN Overlaid(d.data, 0, rest) ELSE d.data
               payload == SubSeq(moved, Header + 1, Header + Required(n))
    <3>1. Parse(c, payload, moved, n - d.r)  BY <2>1, <2>6
    <3>2. rest \in Seq(KnownBytes(c))  BY <1>0, <2>3, Part
    <3> HIDE DEF rest
    <3>3. moved \in Seq(KnownBytes(c)) /\ Len(moved) = Len(data)
      <4>1. /\ Overlaid(d.data, 0, rest) \in Seq(KnownBytes(c))
            /\ Len(Overlaid(d.data, 0, rest)) = Len(d.data)
        <5>1. 0 \in Nat  OBVIOUS
        <5> QED  BY <2>3, <3>2, <5>1, OverlaidFacts
      <4> QED  BY <2>3, <4>1
    <3> HIDE DEF moved
    <3>4. payload \in Seq(KnownBytes(c))
      <4>1. Required(n) \in Nat /\ Header + Required(n) <= n
        BY <1>0, <1>3, RequiredFacts
      <4> DEFINE b == Header + Required(n)
      <4>2. b \in Nat /\ b =< Len(moved) /\ Header \in Nat
        BY <1>0, <3>3, <4>1, Sizes
      <4> HIDE DEF b
      <4>3. SubSeq(moved, Header + 1, b) \in Seq(KnownBytes(c))
        BY <3>3, <4>2, Part
      <4> QED  BY <4>3 DEF b
    <3> HIDE DEF payload
    <3> DEFINE available == n - d.r
    <3>5. available > 0 => available \in 1..Len(moved)
      <4> DEFINE r == d.r
      <4>1. r \in Nat  BY <2>3
      <4> HIDE DEF r
      <4>2. n - r > 0 => n - r \in 1..Len(data)  BY <1>0, <4>1
      <4> QED  BY <3>3, <4>2 DEF r
    <3>6. Parse(c, payload, moved, available)  BY <3>1
    <3> HIDE DEF available
    <3>7. available > 0 => /\ moved \in Seq(KnownBytes(c)) /\ Len(moved) =< Block
                           /\ available \in 1..Len(moved)
      BY <3>3, <3>5
    <3>8. Answered'  BY <3>4, <3>6, <3>7, ParseTyped
    <3> QED  BY <2>4, <3>8
  <2> QED  BY <2>5, <2>6
<1> QED  BY <1>2, <1>3

LEMMA TypesProcess ==
  ASSUME TypesInv, NEW c \in Client, Process(c)
  PROVE  TypesInv'
<1>1. PICK n \in 1..Readable(c) : Read(c, n)  BY DEF Process
<1>2. work.client \in {"nobody", c} /\ ~disconnect[c] /\ UNCHANGED <<requests, frames, gone>>
  BY DEF Process
<1>3. /\ n \in 1..Len(stream[c]) /\ n \in 1..Block
      /\ Offered(c, n) \in Seq(KnownBytes(c))
      /\ Len(Offered(c, n)) = work.available + n /\ work.available + n =< Block
      /\ work.available \in Nat
  BY <1>2, OfferedFacts
<1>4. /\ stream' = [stream EXCEPT ![c] = SubSeq(@, n + 1, Len(@))]
      /\ pieces' = [pieces EXCEPT ![c] = @ \/ n < Len(stream[c])]
      /\ IF c \in Encrypted
         THEN Decrypted(c, Offered(c, n), n)
         ELSE Parse(c, Offered(c, n), <<>>, 0) /\ UNCHANGED count_writes
  BY <1>1 DEF Read, Offered
<1>5. /\ stream \in [Client -> Seq(AByte)] /\ pieces \in [Client -> BOOLEAN]
      /\ stream[c] \in Seq(KnownBytes(c)) /\ stream[c] \in Seq(AByte)
      /\ Len(stream[c]) \in Nat
      /\ count_writes \in [Client -> Nat]
  BY LenProperties DEF TypesInv
<1>6. Answered' /\ count_writes' \in [Client -> Nat]
  <2>1. CASE c \in Encrypted
    <3>1. Decrypted(c, Offered(c, n), n)  BY <1>4, <2>1
    <3>2. n \in 1..Len(Offered(c, n))
      <4> DEFINE a == work.available
                 s == stream[c]
      <4>1. a \in Nat /\ n \in Nat /\ n > 0 /\ Len(Offered(c, n)) = a + n  BY <1>3, <1>5
      <4> HIDE DEF a
      <4>2. n \in 1..(a + n)  BY <4>1
      <4> QED  BY <4>1, <4>2
    <3>3. Len(Offered(c, n)) =< Block  BY <1>3
    <3> QED  BY <1>2, <1>3, <3>1, <3>2, <3>3, DecryptedTyped
  <2>2. CASE c \notin Encrypted
    <3>1. Parse(c, Offered(c, n), <<>>, 0) /\ UNCHANGED count_writes  BY <1>4, <2>2
    <3>2. ~(0 > 0)  OBVIOUS
    <3>3. Answered'  BY <1>2, <1>3, <3>1, <3>2, ParseTyped
    <3> QED  BY <1>5, <3>1, <3>3
  <2> QED  BY <2>1, <2>2
<1>7. SubSeq(stream[c], n + 1, Len(stream[c])) \in Seq(KnownBytes(c))
  <2> DEFINE s == stream[c]
             m == Len(s)
  <2>1. s \in Seq(KnownBytes(c)) /\ m \in Nat /\ m =< Len(s) /\ n \in Nat  BY <1>3, <1>5
  <2> HIDE DEF m, s
  <2>2. SubSeq(s, n + 1, m) \in Seq(KnownBytes(c))  BY <2>1, Part
  <2> QED  BY <2>2 DEF m, s
<1> DEFINE left == SubSeq(stream[c], n + 1, Len(stream[c]))
<1>8. left \in Seq(AByte)
  <2>1. KnownBytes(c) \subseteq AByte  BY DEF KnownBytes
  <2> QED  BY <1>7, <2>1, SeqMonotonic
<1>9. stream' = [stream EXCEPT ![c] = left]  BY <1>4
<1>10. left \in Seq(KnownBytes(c))  BY <1>7
<1> HIDE DEF left
<1>11. /\ stream' \in [Client -> Seq(AByte)] /\ stream'[c] = left
       /\ \A k \in Client \ {c} : stream'[k] = stream[k]
       /\ pieces' \in [Client -> BOOLEAN]
  <2>1. pieces' \in [Client -> BOOLEAN]  BY <1>4, <1>5
  <2>2. /\ stream' \in [Client -> Seq(AByte)] /\ stream'[c] = left
        /\ \A k \in Client \ {c} : stream'[k] = stream[k]
    BY <1>5, <1>8, <1>9
  <2> QED  BY <2>1, <2>2
<1>12. ASSUME NEW k \in Client
       PROVE  frames'[k] \in Seq(KnownFrames(k)') /\ stream'[k] \in Seq(KnownBytes(k)')
  <2>1. KnownFrames(k)' = KnownFrames(k) /\ KnownBytes(k)' = KnownBytes(k)
    BY <1>2 DEF KnownFrames, KnownBytes
  <2>2. frames[k] \in Seq(KnownFrames(k)) /\ stream[k] \in Seq(KnownBytes(k))
    BY DEF TypesInv
  <2>3. CASE k = c  BY <1>2, <1>10, <1>11, <2>1, <2>2, <2>3
  <2>4. CASE k # c  BY <1>2, <1>11, <2>1, <2>2, <2>4
  <2> QED  BY <2>3, <2>4
<1>13. /\ requests' \in [Client -> Seq(Request)] /\ frames' \in [Client -> Seq(Frame)]
       /\ gone' \in [Client -> BOOLEAN]
  BY <1>2 DEF TypesInv
<1> QED  BY <1>6, <1>11, <1>12, <1>13 DEF TypesInv, Answered

LEMMA TypesNext == TypesInv /\ [FramingNext]_framingVars => TypesInv'
<1> SUFFICES ASSUME TypesInv, [FramingNext]_framingVars PROVE TypesInv'
  OBVIOUS
<1>1. ASSUME UNCHANGED <<requests, frames, stream, count_writes, served, parser, pieces>>,
             gone' \in [Client -> BOOLEAN], disconnect' \in [Client -> BOOLEAN], KnownWork',
             count_reads' \in [Client -> Nat],
             \A c \in Client : count_reads'[c] =< MaxEvents + Len(served[c]) * AnswerFrames
      PROVE  TypesInv'
  <2>1. \A k \in Client : KnownFrames(k)' = KnownFrames(k) /\ KnownBytes(k)' = KnownBytes(k)
    BY <1>1 DEF KnownFrames, KnownBytes
  <2>2. ASSUME NEW k \in Client
        PROVE  /\ frames'[k] \in Seq(KnownFrames(k)') /\ stream'[k] \in Seq(KnownBytes(k)')
               /\ count_reads'[k] =< MaxEvents + Len(served'[k]) * AnswerFrames
    BY <1>1, <2>1 DEF TypesInv
  <2>3. Asks(parser)'  BY <1>1 DEF TypesInv, Asks
  <2>4. /\ requests' \in [Client -> Seq(Request)] /\ served' \in [Client -> Seq(Served)]
        /\ frames' \in [Client -> Seq(Frame)] /\ stream' \in [Client -> Seq(AByte)]
        /\ count_writes' \in [Client -> Nat] /\ pieces' \in [Client -> BOOLEAN]
        /\ parser' \in ParserState /\ parser'.completed = <<>>
    BY <1>1 DEF TypesInv
  <2> QED  BY <1>1, <2>2, <2>3, <2>4 DEF TypesInv
<1>2. /\ gone \in [Client -> BOOLEAN] /\ disconnect \in [Client -> BOOLEAN]
      /\ count_reads \in [Client -> Nat] /\ KnownWork
      /\ \A c \in Client : count_reads[c] =< MaxEvents + Len(served[c]) * AnswerFrames
  BY DEF TypesInv
<1>3. UNCHANGED <<requests, frames, work, disconnect>> => KnownWork'
  BY <1>2, Zenon DEF KnownWork, KnownBytes
<1>4. ASSUME NEW c \in Client, Leave(c) PROVE TypesInv'
  <2>1. /\ gone' = [gone EXCEPT ![c] = TRUE]
        /\ UNCHANGED <<requests, frames, stream, count_writes, count_reads, disconnect,
                       served, parser, work, pieces>>
    BY <1>4 DEF Leave
  <2>2. gone' \in [Client -> BOOLEAN]  BY <1>2, <2>1
  <2> QED  BY <1>1, <1>2, <1>3, <2>1, <2>2
<1>5. ASSUME NEW c \in Client, SendEvent(c) PROVE TypesInv'
  <2>1. PICK torn \in 0..1 : Send(c, 1, torn)  BY <1>5 DEF SendEvent
  <2>2. /\ count_reads' = [count_reads EXCEPT ![c] = @ + 1]
        /\ UNCHANGED <<requests, frames, stream, gone, count_writes, disconnect, served,
                       parser, work, pieces>>
        /\ count_reads[c] < MaxEvents
    BY <1>5, <2>1 DEF SendEvent, Send
  <2>3. ASSUME NEW k \in Client
        PROVE  count_reads'[k] =< MaxEvents + Len(served[k]) * AnswerFrames
    <3>1. CASE k = c
      <4>1. Len(served[c]) \in Nat  BY LenProperties DEF TypesInv
      <4>2. MaxEvents \in Nat /\ AnswerFrames \in Nat  BY FramingAssumption
      <4>3. \A a \in Nat, b \in Nat : a * b \in Nat  OBVIOUS
      <4> DEFINE product == Len(served[c]) * AnswerFrames
      <4>4. product \in Nat  BY <4>1, <4>2, <4>3
      <4> HIDE DEF product
      <4>5. count_reads'[c] = count_reads[c] + 1 /\ count_reads[c] \in Nat  BY <1>2, <2>2
      <4>6. count_reads'[c] =< MaxEvents + product  BY <2>2, <4>2, <4>4, <4>5
      <4> QED  BY <3>1, <4>6 DEF product
    <3>2. CASE k # c  BY <1>2, <2>2, <3>2
    <3> QED  BY <3>1, <3>2
  <2>4. count_reads' \in [Client -> Nat]  BY <1>2, <2>2
  <2> QED  BY <1>1, <1>2, <1>3, <2>2, <2>3, <2>4
<1>6. ASSUME NEW c \in Client, ReadNothing(c) PROVE TypesInv'
  <2>1. /\ disconnect' = [disconnect EXCEPT ![c] = gone[c]] /\ work' = NoWork
        /\ UNCHANGED <<requests, frames, stream, gone, count_writes, count_reads, served,
                       parser, pieces>>
    BY <1>6 DEF ReadNothing, Returned
  <2>2. KnownWork'  BY <2>1 DEF KnownWork, NoWork
  <2>3. disconnect' \in [Client -> BOOLEAN]  BY <1>2, <2>1
  <2> QED  BY <1>1, <1>2, <2>1, <2>2, <2>3
<1>7. CASE UNCHANGED framingVars
  <2>1. UNCHANGED <<requests, frames, stream, gone, count_writes, count_reads, disconnect,
                    served, parser, work, pieces>>
    BY <1>7 DEF framingVars
  <2> QED  BY <1>1, <1>2, <1>3, <2>1
<1>8. ASSUME NEW c \in Client, SendRequest(c) PROVE TypesInv'  BY <1>8, TypesSendRequest
<1>9. ASSUME NEW c \in Client, Process(c) PROVE TypesInv'  BY <1>9, TypesProcess
<1> QED  BY <1>4, <1>5, <1>6, <1>7, <1>8, <1>9, Zenon DEF FramingNext, ServerStep

(* Whatever arrives, the buffer keeps within one full frame, belongs to    *)
(* the client of the running call, and the nonces count what was really    *)
(* sent (homekit_client_process(), client_decrypt_()).                     *)
THEOREM FramingTypeCorrect == FramingSpec => []FramingTypeOK
BY TypesInit, TypesNext, TypesGiveTypeOK, PTL DEF FramingSpec

------------------------------------------------------------------------------
(* What is handed to the handlers: as long as no read of an encrypted      *)
(* connection returned a part of a request, a call starts with a parser    *)
(* made anew and an empty buffer, and what a client has still to be asked  *)
(* for is the rest of its last request, or all of it.                      *)
OnItsWay(c) ==
  LET r == Len(requests[c])
      size == requests[c][r].size
  IN  IF c \in Encrypted
      THEN \E sizes \in Shapes :
              /\ size = Total(sizes)
              /\ stream[c] = Sealed(count_writes[c], sizes)
              /\ Len(frames[c]) = count_writes[c] + Len(sizes)
              /\ \A k \in 1..Len(sizes) :
                    frames[c][count_writes[c] + k] = FramesOf(r, sizes)[k]
      ELSE \E k \in 0..size : /\ stream[c] = Plain(r, k, size - k)
                              /\ ~pieces[c] => k = 0

InOrder(c) ==
  /\ \A i \in 1..Len(served[c]) : served[c][i] = [request |-> i, pure |-> TRUE]
  /\ stream[c] # <<>> => Len(requests[c]) = Len(served[c]) + 1 /\ OnItsWay(c)
  /\ c \in Encrypted /\ Len(requests[c]) = Len(served[c])
       => count_writes[c] = Len(frames[c])

AskedInv == Whole => /\ parser = FreshParser /\ work = NoWork
                     /\ \A c \in Client : InOrder(c)

(* A parser made anew takes a request from its first byte, or nothing.     *)
LEMMA NoRequestStarts ==
  ASSUME NEW c \in Client, NEW payload, NEW p, p = Execute(FreshParser, c, payload),
         payload # <<>> => ~(payload[1].kind = "plain" /\ payload[1].b = 1)
  PROVE  p.completed = <<>>
<1>1. FreshParser.state = "start" /\ FreshParser.completed = <<>>  BY DEF FreshParser
<1>2. CASE payload = <<>>
  <2>1. p = [FreshParser EXCEPT !.state = IF FreshParser.state = "mid" THEN "dead"
                                          ELSE FreshParser.state]
    BY <1>1, <1>2 DEF Execute
  <2> QED  BY <2>1 DEF FreshParser
<1>3. CASE payload # <<>>
  <2>1. Started(FreshParser, c, payload[1]) = FreshParser  BY <1>3 DEF Started
  <2>2. p = [FreshParser EXCEPT !.state = "dead"]
    BY <1>1, <1>3, <2>1, Zenon DEF Execute
  <2> QED  BY <2>2 DEF FreshParser
<1> QED  BY <1>2, <1>3

LEMMA RequestStarts ==
  ASSUME NEW c \in Client, NEW r \in Nat, NEW n \in Nat, n > 0, NEW size \in Nat, n =< size,
         requests[c][r].size = size, requests[c][r].close \in BOOLEAN,
         NEW p, p = Execute(FreshParser, c, Plain(r, 0, n))
  PROVE  /\ n < size => p.completed = <<>>
         /\ n = size => /\ p.completed = <<[request |-> r, pure |-> TRUE]>>
                        /\ p.version = (size >= HeadSize)
                        /\ p.close = (requests[c][r].close /\ size >= HeadSize)
<1> DEFINE payload == Plain(r, 0, n)
           q == Started(FreshParser, c, payload[1])
           asked == requests[q.owner][q.request]
           begun == [state |-> "mid", owner |-> c, request |-> r, at |-> 0, pure |-> TRUE,
                     version |-> FALSE, close |-> FALSE, completed |-> <<>>]
<1>1. /\ Len(payload) = n /\ payload \in Seq(AByte)
      /\ \A k \in 1..n : payload[k] = Byte("plain", r, 0 + k)
  <2>1. 0 \in Nat  OBVIOUS
  <2> QED  BY <2>1, PlainFacts
<1>2. payload # <<>> /\ payload[1] = Byte("plain", r, 1)
  <2>1. 1 \in 1..n /\ 0 + 1 = 1  OBVIOUS
  <2>2. Len(<<>>) = 0  OBVIOUS
  <2> HIDE DEF payload
  <2> QED  BY <1>1, <2>1, <2>2
<1> HIDE DEF payload
<1>3. q = begun
  <2>1. payload[1].kind = "plain" /\ payload[1].b = 1 /\ payload[1].a = r
    BY <1>2 DEF Byte
  <2>2. q = [FreshParser EXCEPT !.state = "mid", !.owner = c, !.request = payload[1].a,
                                !.version = FreshParser.version]
    BY <2>1 DEF Started, FreshParser
  <2> QED  BY <2>1, <2>2 DEF FreshParser
<1> HIDE DEF q
<1> DEFINE taken == Lesser(asked.size - q.at, Len(payload))
           wrong == {k \in 1..taken : \/ q.owner # c
                                     \/ payload[k] # Byte("plain", q.request, q.at + k)}
           at == q.at + taken
           next == [q EXCEPT !.at = at, !.pure = @ /\ wrong = {},
                             !.version = @ \/ at >= HeadSize,
                             !.close = asked.close /\ at >= HeadSize]
<1>4. /\ q.state = "mid" /\ q.owner = c /\ q.request = r /\ q.at = 0 /\ q.pure = TRUE
      /\ q.version = FALSE /\ q.completed = <<>>
  BY <1>3
<1> HIDE DEF q
<1>a. asked = requests[c][r]  BY <1>4
<1>5. p = IF \E k \in wrong : q.at + k <= HeadSize THEN [q EXCEPT !.state = "dead"]
          ELSE IF at < asked.size THEN next
          ELSE [next EXCEPT
                 !.state = IF next.close \/ taken < Len(payload) THEN "dead" ELSE "start",
                 !.completed = <<[request |-> q.request, pure |-> next.pure]>>]
  <2>1. FreshParser.state # "dead"  BY DEF FreshParser
  <2>2. p = IF q.state # "mid" THEN [q EXCEPT !.state = "dead"]
            ELSE IF \E k \in wrong : q.at + k <= HeadSize THEN [q EXCEPT !.state = "dead"]
            ELSE IF at < asked.size THEN next
            ELSE [next EXCEPT
                   !.state = IF next.close \/ taken < Len(payload) THEN "dead" ELSE "start",
                   !.completed = <<[request |-> q.request, pure |-> next.pure]>>]
    BY <1>2, <2>1, Zenon DEF Execute, q, payload
  <2> QED  BY <1>4, <2>2, Zenon
<1>6. taken = n /\ at = n
  <2>1. asked.size - q.at = size  BY <1>4, <1>a
  <2>2. taken = n  BY <1>1, <2>1 DEF Lesser
  <2> HIDE DEF taken
  <2> QED  BY <1>4, <2>2
<1>7. wrong = {}
  <2>1. \A k \in 1..taken : q.owner = c /\ payload[k] = Byte("plain", q.request, q.at + k)
    BY <1>1, <1>4, <1>6
  <2> HIDE DEF taken
  <2> QED  BY <2>1
<1> HIDE DEF taken, wrong, at, next
<1>8. next = [q EXCEPT !.at = n, !.pure = TRUE, !.version = (n >= HeadSize),
                       !.close = (asked.close /\ n >= HeadSize)]
  <2> DEFINE pure == q.pure /\ wrong = {}
  <2>0. pure /\ pure \in BOOLEAN  BY <1>4, <1>7
  <2>1. pure = TRUE
    <3> HIDE DEF pure
    <3> QED  BY <2>0
  <2> DEFINE whole == n >= HeadSize
             version == q.version \/ whole
  <2>2. ~q.version  BY <1>4
  <2>3. version \in BOOLEAN  BY Zenon
  <2>4. whole \in BOOLEAN
    <3>1. n \in Nat /\ HeadSize \in Nat  BY Sizes
    <3> QED  BY <3>1
  <2>5. version <=> whole  BY <2>2, Zenon
  <2>6. version = whole
    <3> HIDE DEF version, whole
    <3> QED  BY <2>3, <2>4, <2>5
  <2> QED  BY <1>6, <2>1, <2>6, Zenon DEF next, pure
<1>9. /\ next.pure = TRUE /\ next.version = (n >= HeadSize)
      /\ next.close = (asked.close /\ n >= HeadSize) /\ next.completed = <<>>
  BY <1>3, <1>8
<1>10. p = IF n < size THEN next
           ELSE [next EXCEPT
                  !.state = IF next.close \/ taken < Len(payload) THEN "dead" ELSE "start",
                  !.completed = <<[request |-> r, pure |-> TRUE]>>]
  BY <1>4, <1>a, <1>5, <1>6, <1>7, <1>9
<1>11. CASE n < size  BY <1>9, <1>10, <1>11
<1>12. CASE n = size
  <2> DEFINE state == IF next.close \/ taken < Len(payload) THEN "dead" ELSE "start"
  <2> HIDE DEF state
  <2>1. p = [next EXCEPT !.state = state, !.completed = <<[request |-> r, pure |-> TRUE]>>]
    BY <1>10, <1>12 DEF state
  <2>2. DOMAIN next = {"state", "owner", "request", "at", "pure", "version", "close",
                       "completed"}
    BY <1>3, <1>8
  <2>3. p.completed = <<[request |-> r, pure |-> TRUE]>> /\ p.version = next.version
        /\ p.close = next.close
    BY <2>1, <2>2
  <2> QED  BY <1>9, <1>12, <1>a, <2>3
<1> QED  BY <1>11, <1>12

(* A request whose frames arrived together: the loop decrypts all of them, *)
(* each one over the plain text of the one before.                         *)
Decrypting(c, r, sizes, e, data, j, t) ==
  /\ t \in LoopState(c, Len(data)) /\ t.r = e[j] /\ t.count = count_writes[c] + j
  /\ ~t.ended /\ ~t.failed
  /\ \A i \in (e[j] + 1)..Len(data) : t.data[i] = data[i]
  /\ j > 0 => \A b \in 1..sizes[j] :
                 t.data[Header + b] = Byte("plain", r, Sums(sizes)[j - 1] + b)

Sent(c, r, sizes) ==
  /\ Len(frames[c]) = count_writes[c] + Len(sizes)
  /\ \A k \in 1..Len(sizes) : frames[c][count_writes[c] + k] = FramesOf(r, sizes)[k]

LEMMA OneTurn ==
  ASSUME NEW c \in Client, frames[c] \in Seq(KnownFrames(c)), count_writes[c] \in Nat,
         NEW r \in Nat, NEW sizes \in Seq(Size), Sent(c, r, sizes),
         NEW data \in Seq(KnownBytes(c)), NEW e, Ends(e, sizes), Len(data) = e[Len(sizes)],
         \A k \in 1..Len(sizes) : \A b \in 1..(sizes[k] + Overhead) :
            data[e[k - 1] + b] = Byte("cipher", count_writes[c] + k, b),
         NEW j \in 0..Len(sizes), j # Len(sizes), NEW t, Decrypting(c, r, sizes, e, data, j, t),
         NEW u \in Turn(c, Len(data), t)
  PROVE  Decrypting(c, r, sizes, e, data, j + 1, u)
<1> DEFINE m == Len(sizes)
           n == Len(data)
           f == count_writes[c]
           size == sizes[j + 1]
           frame == frames[c][t.count + 1]
           bytes == Plain(frame.request, frame.from, size)
           new == Overlaid(t.data, Header, bytes)
<1>0. m \in Nat /\ n \in Nat /\ f \in Nat /\ Overhead \in Nat /\ Header \in Nat
      /\ Header > 0 /\ Tag \in Nat /\ Tag > 0 /\ Overhead = Header + Tag
  BY Sizes, LenProperties
<1>1. j + 1 \in 1..m /\ j \in 0..m /\ j + 1 \in 0..m /\ (j + 1) - 1 = j /\ j \in Nat
  <2> HIDE DEF m
  <2>1. j \in 0..m /\ j # m  BY DEF m
  <2> QED  BY <1>0, <2>1
<1>2. size \in Nat /\ size > 0
  <2>1. size \in Size  BY <1>1, ElementOfSeq
  <2> QED  BY <2>1, Sizes
<1>3. /\ e[j] \in Nat /\ e[j + 1] \in Nat /\ e[j + 1] = e[j] + size + Overhead
      /\ e[j + 1] =< n
  <2>1. e \in [0..m -> Nat]  BY DEF Ends
  <2>2. e[j + 1] = e[(j + 1) - 1] + size + Overhead  BY <1>1 DEF Ends
  <2>3. e[j + 1] <= e[m]  BY <1>1 DEF Ends
  <2> QED  BY <1>1, <2>1, <2>2, <2>3
<1>4. /\ t \in LoopState(c, n) /\ t.r = e[j] /\ t.count = f + j /\ ~t.ended
      /\ ~t.failed
      /\ \A i \in (e[j] + 1)..n : t.data[i] = data[i]
  BY DEF Decrypting
<1>5. /\ t.data \in Seq(KnownBytes(c)) /\ Len(t.data) = n /\ t.r \in Nat /\ t.count \in Nat
      /\ t \in [r : Nat, data : Seq(KnownBytes(c)), count : Nat, ended : BOOLEAN,
                failed : BOOLEAN]
  BY <1>4 DEF LoopState
<1>6. \A b \in 1..(size + Overhead) : t.data[t.r + b] = Byte("cipher", t.count + 1, b)
  <2> TAKE b \in 1..(size + Overhead)
  <2> DEFINE x == e[j]
  <2>0. x \in Nat /\ x + size + Overhead =< n  BY <1>3
  <2> HIDE DEF x, n, size
  <2>1. x + b \in (x + 1)..n  BY <1>0, <1>2, <2>0
  <2>2. t.data[t.r + b] = data[x + b]  BY <1>4, <2>1 DEF x
  <2>3. data[e[(j + 1) - 1] + b] = Byte("cipher", f + (j + 1), b)
    BY <1>1 DEF size
  <2>4. f + (j + 1) = t.count + 1
    <3>1. t.count = f + j  BY <1>4
    <3> HIDE DEF f
    <3> QED  BY <1>0, <1>1, <3>1
  <2> QED  BY <1>1, <2>2, <2>3, <2>4 DEF x
<1>7. frame = [request |-> r, from |-> Sums(sizes)[j], size |-> size]
  <2>1. t.count + 1 = f + (j + 1)  BY <1>0, <1>1, <1>4
  <2>2. frame = FramesOf(r, sizes)[j + 1]  BY <1>1, <2>1 DEF Sent
  <2>3. FramesOf(r, sizes)[j + 1]
          = [request |-> r, from |-> Sums(sizes)[(j + 1) - 1], size |-> sizes[j + 1]]
    BY <1>1, FramesOfFacts
  <2> QED  BY <1>1, <2>2, <2>3
<1>8. Sums(sizes)[j] \in Nat
  <2>1. Sums(sizes) \in [0..m -> Nat]  BY SumsFacts
  <2> QED  BY <1>1, <2>1
<1>9. r \in 1..Len(requests[c])
  <2>1. t.count + 1 \in 1..Len(frames[c])
    <3>1. Len(frames[c]) = f + m  BY DEF Sent
    <3> HIDE DEF m, f
    <3> QED  BY <1>0, <1>1, <1>4, <3>1
  <2>2. frame \in KnownFrames(c)  BY <2>1, ElementOfSeq
  <2> HIDE DEF frame
  <2>3. frame.request = r  BY <1>7
  <2> QED  BY <2>2, <2>3 DEF KnownFrames
<1> HIDE DEF frame
<1>10. bytes = Plain(r, Sums(sizes)[j], size)  BY <1>7
<1>11. /\ bytes \in Seq(KnownBytes(c)) /\ Len(bytes) = size
       /\ \A b \in 1..size : bytes[b] = Byte("plain", r, Sums(sizes)[j] + b)
  <2> DEFINE from == Sums(sizes)[j]
  <2>1. r \in Nat /\ from \in Nat /\ size \in Nat /\ r \in 1..Len(requests[c])
        /\ bytes = Plain(r, from, size)
    BY <1>2, <1>8, <1>9, <1>10
  <2> HIDE DEF bytes, size, from
  <2>2. /\ Plain(r, from, size) \in Seq(KnownBytes(c)) /\ Len(Plain(r, from, size)) = size
        /\ \A b \in 1..size : Plain(r, from, size)[b] = Byte("plain", r, from + b)
    BY <2>1, PlainFacts
  <2> QED  BY <2>1, <2>2 DEF from
<1> HIDE DEF bytes
<1>12. /\ new \in Seq(KnownBytes(c)) /\ Len(new) = n
       /\ \A i \in 1..n : new[i] = IF i \in (Header + 1)..(Header + size) THEN bytes[i - Header]
                                   ELSE t.data[i]
  <2> HIDE DEF size, n
  <2> DEFINE s == t.data
  <2>1. s \in Seq(KnownBytes(c)) /\ Len(s) = n /\ Header \in Nat  BY <1>0, <1>5
  <2> HIDE DEF s
  <2>2. /\ Overlaid(s, Header, bytes) \in Seq(KnownBytes(c))
        /\ Len(Overlaid(s, Header, bytes)) = Len(s)
        /\ \A i \in 1..Len(s) :
              Overlaid(s, Header, bytes)[i]
                = IF i \in (Header + 1)..(Header + Len(bytes)) THEN bytes[i - Header] ELSE s[i]
    BY <1>11, <2>1, OverlaidFacts, SMTT(30)
  <2> QED  BY <1>11, <2>1, <2>2 DEF s
<1> HIDE DEF new
<1>13. u = [t EXCEPT !.r = e[j + 1], !.count = f + (j + 1), !.data = new]
  <2> HIDE DEF n, f
  <2>1. ~(t.ended \/ t.r >= n)  BY <1>0, <1>2, <1>3, <1>4
  <2>2. PICK z \in ChunkSizes(c, t.data[t.r + 1]) :
          u \in IF z + Overhead > n - t.r THEN {[t EXCEPT !.ended = TRUE]}
                ELSE IF SubSeq(t.data, t.r + 1, t.r + z + Overhead) = Cipher(t.count + 1, z)
                THEN LET fr == frames[c][t.count + 1] IN
                     {[t EXCEPT !.r = @ + z + Overhead, !.count = @ + 1,
                        !.data = Overlaid(@, Header, Plain(fr.request, fr.from, z))]}
                ELSE {[t EXCEPT !.count = @ + 1, !.ended = TRUE, !.failed = TRUE]}
    BY <2>1 DEF Turn, n
  <2>3. z = size
    <3>1. 1 \in 1..(size + Overhead)
      <4> HIDE DEF size
      <4> QED  BY <1>0, <1>2
    <3>2. t.data[t.r + 1] = Byte("cipher", t.count + 1, 1)  BY <1>6, <3>1
    <3> DEFINE x == t.data[t.r + 1]
    <3>3. x.kind = "cipher" /\ x.b = 1 /\ x.a = t.count + 1  BY <3>2 DEF Byte
    <3>4. ChunkSizes(c, x) = {frame.size}  BY <3>3 DEF ChunkSizes, frame
    <3>5. frame.size = size  BY <1>7
    <3> QED  BY <2>2, <3>4, <3>5
  <2> HIDE DEF size
  <2>4. ~(z + Overhead > n - t.r)  BY <1>0, <1>2, <1>3, <1>4, <2>3
  <2>5. SubSeq(t.data, t.r + 1, t.r + size + Overhead) = Cipher(t.count + 1, size)
    <3> DEFINE a == t.r
               b == a + size + Overhead
               s == t.data
               part == SubSeq(s, a + 1, b)
               C == Cipher(t.count + 1, size)
    <3>1. a \in Nat /\ b \in Nat /\ b =< n /\ Len(s) = n /\ s \in Seq(KnownBytes(c))
          /\ a =< b /\ b - a = size + Overhead
      BY <1>0, <1>2, <1>3, <1>4, <1>5, SMTT(30)
    <3>2. \A k \in 1..(size + Overhead) : s[a + k] = Byte("cipher", t.count + 1, k)
      BY <1>6
    <3> HIDE DEF a, b, s
    <3>3. /\ part \in Seq(KnownBytes(c)) /\ Len(part) = IF a =< b THEN b - a ELSE 0
          /\ \A k \in 1..(b - a) : part[k] = s[a + k]
      BY <3>1, Part
    <3>4. t.count + 1 \in Nat  BY <1>5
    <3>5. /\ Len(C) = size + Overhead
          /\ \A k \in 1..(size + Overhead) : C[k] = Byte("cipher", t.count + 1, k)
      BY <1>2, <3>4, CipherFacts
    <3>6. C = [k \in 1..(size + Overhead) |-> Byte("cipher", t.count + 1, k)]
      BY DEF Cipher
    <3> HIDE DEF part, C
    <3>7. Len(part) = size + Overhead
          /\ \A k \in 1..(size + Overhead) : part[k] = Byte("cipher", t.count + 1, k)
      BY <3>1, <3>2, <3>3
    <3>8. part = [k \in 1..Len(part) |-> part[k]]  BY <3>3, LenProperties
    <3>9. part = C  BY <3>6, <3>7, <3>8
    <3> QED  BY <3>9 DEF part, C, a, b, s
  <2>6. u = [t EXCEPT !.r = @ + size + Overhead, !.count = @ + 1,
                      !.data = Overlaid(@, Header, Plain(frame.request, frame.from, size))]
    BY <2>2, <2>3, <2>4, <2>5 DEF frame
  <2>7. t.r + size + Overhead = e[j + 1] /\ t.count + 1 = f + (j + 1)
    BY <1>0, <1>1, <1>3, <1>4
  <2> QED  BY <1>5, <2>6, <2>7 DEF new, bytes
<1>14. /\ u.r = e[j + 1] /\ u.count = f + (j + 1) /\ u.data = new
       /\ u.ended = t.ended /\ u.failed = t.failed
  BY <1>5, <1>13
<1>15. u \in LoopState(c, n)
  <2>1. n \in 0..Len(data)  BY <1>0
  <2>2. Turn(c, n, t) \subseteq LoopState(c, n)  BY <1>0, <1>4, <2>1, TurnTyped
  <2> QED  BY <2>2
<1> HIDE DEF size, n, f, m
<1>16. ASSUME NEW i \in (e[j + 1] + 1)..n PROVE new[i] = data[i]
  <2>1. i \in 1..n /\ i \in (e[j] + 1)..n /\ i \notin (Header + 1)..(Header + size)
    BY <1>0, <1>2, <1>3, SMTT(30)
  <2> QED  BY <1>4, <1>12, <2>1
<1>17. ASSUME NEW b \in 1..size
       PROVE  new[Header + b] = Byte("plain", r, Sums(sizes)[j] + b)
  <2>1. Header + b \in 1..n /\ Header + b \in (Header + 1)..(Header + size)
        /\ (Header + b) - Header = b
    BY <1>0, <1>2, <1>3
  <2> QED  BY <1>11, <1>12, <2>1
<1>18. /\ ~u.ended /\ ~u.failed  BY <1>4, <1>14
<1> QED  BY <1>1, <1>14, <1>15, <1>16, <1>17, <1>18 DEF Decrypting, size, n, f, m

LEMMA LoopWhole ==
  ASSUME NEW c \in Client, frames[c] \in Seq(KnownFrames(c)), count_writes[c] \in Nat,
         NEW r \in Nat, NEW sizes \in Seq(Size), Sent(c, r, sizes),
         NEW data \in Seq(KnownBytes(c)), data = Sealed(count_writes[c], sizes),
         NEW d \in Decrypts(c, data, Len(data))
  PROVE  /\ d \in LoopState(c, Len(data)) /\ d.r = Len(data) /\ ~d.failed
         /\ d.count = Len(frames[c])
         /\ Len(sizes) > 0 =>
               \A b \in 1..sizes[Len(sizes)] :
                  d.data[Header + b] = Byte("plain", r, Sums(sizes)[Len(sizes) - 1] + b)
<1> DEFINE m == Len(sizes)
           n == Len(data)
           f == count_writes[c]
<1>0. m \in Nat /\ n \in Nat /\ f \in Nat  BY LenProperties
<1>1. PICK e : /\ Ends(e, sizes) /\ n = e[m]
               /\ \A k \in 1..m : \A b \in 1..(sizes[k] + Overhead) :
                     data[e[k - 1] + b] = Byte("cipher", f + k, b)
  <2>1. PICK e : /\ Ends(e, sizes) /\ Len(Sealed(f, sizes)) = e[Len(sizes)]
                 /\ \A k \in 1..Len(sizes) : \A b \in 1..(sizes[k] + Overhead) :
                       Sealed(f, sizes)[e[k - 1] + b] = Byte("cipher", f + k, b)
    BY SealedFacts, Zenon
  <2>2. data = Sealed(f, sizes)  OBVIOUS
  <2> HIDE DEF f
  <2> QED  BY <2>1, <2>2
<1>2. /\ e \in [0..m -> Nat] /\ e[0] = 0
      /\ \A k \in 1..m : e[k] = e[k - 1] + sizes[k] + Overhead
      /\ \A k \in 0..m : e[k] <= e[m]
  BY <1>1 DEF Ends
<1>3. \A k \in 1..m : sizes[k] \in Nat /\ sizes[k] > 0
  <2>1. \A k \in 1..m : sizes[k] \in Size  BY ElementOfSeq
  <2> QED  BY <2>1, Sizes
<1>4. ASSUME NEW j \in 0..m, j # m PROVE e[j] + 1 =< e[j + 1] /\ e[j + 1] =< n /\ j + 1 \in 0..m
  <2> HIDE DEF m, n
  <2>1. j + 1 \in 1..m /\ (j + 1) - 1 = j /\ j + 1 \in 0..m  BY <1>0, <1>4
  <2>2. e[j + 1] = e[j] + sizes[j + 1] + Overhead /\ e[j + 1] <= n  BY <1>1, <1>2, <2>1
  <2>3. e[j] \in Nat /\ sizes[j + 1] \in Nat /\ sizes[j + 1] > 0 /\ Overhead \in Nat
    BY <1>2, <1>3, <2>1, Sizes
  <2> QED  BY <2>1, <2>2, <2>3
<1> DEFINE first == [r |-> 0, data |-> data, count |-> f, ended |-> FALSE, failed |-> FALSE]
<1>5. PICK g \in [0..n -> SUBSET LoopState(c, n)] :
        /\ g[0] = {first}
        /\ \A k \in 1..n : g[k] = UNION {Turn(c, n, t) : t \in g[k - 1]}
        /\ Decrypts(c, data, n) = g[n]
  <2>1. n \in 0..Len(data)  BY <1>0
  <2> QED  BY <2>1, LoopTurns, ZenonT(40)
<1> DEFINE At(j, t) == Decrypting(c, r, sizes, e, data, j, t)
           P == {k \in 0..n : \A t \in g[k] : \E j \in 0..m : At(j, t) /\ (j = m \/ e[j] >= k)}
<1>6. 0 \in P
  <2>1. At(0, first)
    <3>1. first \in LoopState(c, n)  BY DEF LoopState
    <3>2. f + 0 = f /\ ~(0 > 0)  BY <1>0
    <3> HIDE DEF n, f
    <3>3. first.r = e[0] /\ first.count = f /\ ~first.ended /\ ~first.failed
          /\ \A i \in (e[0] + 1)..Len(data) : first.data[i] = data[i]
      BY <1>2
    <3> HIDE DEF first
    <3> QED  BY <3>1, <3>2, <3>3 DEF Decrypting, n, f
  <2>2. 0 \in 0..m /\ 0 \in 0..n /\ e[0] >= 0  BY <1>0, <1>2
  <2> HIDE DEF At, first
  <2> QED  BY <1>5, <2>1, <2>2
<1>7. ASSUME NEW k \in 0..n, k # n /\ k \in P PROVE k + 1 \in P
  <2>1. k + 1 \in 1..n /\ k + 1 \in 0..n /\ (k + 1) - 1 = k /\ k \in Nat  BY <1>0, <1>7
  <2>2. ASSUME NEW u \in g[k + 1]
        PROVE  \E j \in 0..m : At(j, u) /\ (j = m \/ e[j] >= k + 1)
    <3>1. g[k + 1] = UNION {Turn(c, n, t) : t \in g[k]}  BY <1>5, <2>1
    <3>2. PICK t \in g[k] : u \in Turn(c, n, t)  BY <3>1
    <3>3. PICK j \in 0..m : At(j, t) /\ (j = m \/ e[j] >= k)  BY <1>7
    <3>4. CASE j = m
      <4>1. t.r = n  BY <1>1, <3>3, <3>4 DEF Decrypting
      <4>2. u = t
        <5> HIDE DEF n
        <5>1. t.r >= n  BY <1>0, <4>1
        <5>2. Turn(c, n, t) = {t}  BY <5>1, Zenon DEF Turn
        <5> QED  BY <3>2, <5>2
      <4> HIDE DEF At
      <4> QED  BY <3>3, <3>4, <4>2
    <3>5. CASE j # m
      <4>1. At(j + 1, u)
        BY <1>1, <3>2, <3>3, <3>5, OneTurn
      <4>2. e[j + 1] >= k + 1 /\ j + 1 \in 0..m
        <5>1. e[j] + 1 =< e[j + 1] /\ j + 1 \in 0..m  BY <1>4, <3>5
        <5>2. e[j] \in Nat /\ e[j + 1] \in Nat  BY <1>2, <5>1
        <5> QED  BY <2>1, <3>3, <3>5, <5>1, <5>2
      <4> HIDE DEF At
      <4> QED  BY <4>1, <4>2
    <3> QED  BY <3>4, <3>5
  <2> HIDE DEF At
  <2> QED  BY <2>1, <2>2
<1> HIDE DEF P
<1>8. 0..n \subseteq P  BY <1>0, <1>6, <1>7, SetInduction, Zenon
<1>9. n \in P  BY <1>0, <1>8
<1>10. PICK j \in 0..m : At(j, d) /\ (j = m \/ e[j] >= n)
  <2>1. d \in g[n]  BY <1>5
  <2> HIDE DEF At
  <2> QED  BY <1>9, <2>1 DEF P
<1>11. j = m
  <2> HIDE DEF At
  <2>1. ASSUME j # m PROVE FALSE
    <3>1. e[j] + 1 =< e[j + 1] /\ e[j + 1] =< n /\ j + 1 \in 0..m  BY <1>4, <2>1
    <3>2. e[j] \in Nat /\ e[j + 1] \in Nat  BY <1>2, <3>1
    <3>3. e[j] >= n  BY <1>10, <2>1
    <3> QED  BY <1>0, <3>1, <3>2, <3>3
  <2> QED  BY <2>1
<1>12. /\ d \in LoopState(c, n) /\ d.r = e[m] /\ d.count = f + m /\ ~d.failed
       /\ m > 0 => \A b \in 1..sizes[m] :
                      d.data[Header + b] = Byte("plain", r, Sums(sizes)[m - 1] + b)
  BY <1>10, <1>11 DEF Decrypting
<1>13. d.count = Len(frames[c])  BY <1>12 DEF Sent
<1> QED  BY <1>1, <1>12, <1>13

(* What becomes of a call that ends with parser p, and of a parser that    *)
(* took the last request of a client whole.                                *)
Ended(c, p) ==
  /\ served' = [served EXCEPT ![c] = @ \o p.completed]
  /\ disconnect' = [disconnect EXCEPT ![c] = @ \/ ~KeepAlive(p)]
  /\ parser' = FreshParser /\ work' = NoWork

TookAll(c, p) ==
  LET r == Len(requests[c])
      asked == requests[c][r]
  IN  /\ p.completed = <<[request |-> r, pure |-> TRUE]>>
      /\ p.version = (asked.size >= HeadSize)
      /\ p.close = (asked.close /\ asked.size >= HeadSize)

LEMMA OfferedWhole ==
  ASSUME TypesInv, NEW c \in Client, work = NoWork, NEW n \in 1..Readable(c)
  PROVE  /\ Offered(c, n) \in Seq(KnownBytes(c)) /\ Len(Offered(c, n)) = n
         /\ \A i \in 1..n : Offered(c, n)[i] = stream[c][i]
         /\ n \in 1..Len(stream[c]) /\ n \in 1..Block
<1>1. work.client \in {"nobody", c} /\ work.available = 0  BY DEF NoWork
<1>2. /\ n \in 1..Len(stream[c]) /\ n \in 1..Block
      /\ Offered(c, n) \in Seq(KnownBytes(c))
      /\ Len(Offered(c, n)) = work.available + n
      /\ \A i \in 1..n : Offered(c, n)[work.available + i] = stream[c][i]
  BY <1>1, OfferedFacts
<1>3. 0 + n = n /\ \A i \in 1..n : 0 + i = i
  <2>1. n \in Nat  BY <1>2
  <2> QED  BY <2>1
<1> QED  BY <1>1, <1>2, <1>3

LEMMA LastRequest ==
  ASSUME TypesInv, NEW c \in Client, Len(requests[c]) = Len(served[c]) + 1
  PROVE  /\ Len(requests[c]) \in Nat /\ Len(requests[c]) \in 1..Len(requests[c])
         /\ requests[c][Len(requests[c])].size \in Nat
         /\ requests[c][Len(requests[c])].close \in BOOLEAN
<1>1. requests[c] \in Seq(Request) /\ served[c] \in Seq(Served)  BY DEF TypesInv
<1>2. Len(requests[c]) \in Nat /\ Len(served[c]) \in Nat  BY <1>1, LenProperties
<1> DEFINE r == Len(requests[c])
<1>3. r \in 1..r
  <2> DEFINE s == Len(served[c])
  <2>1. r = s + 1 /\ s \in Nat /\ r \in Nat  BY <1>2
  <2> HIDE DEF r, s
  <2> QED  BY <2>1
<1>4. requests[c][r] \in Request  BY <1>1, <1>3, ElementOfSeq
<1> HIDE DEF r
<1>5. requests[c][r].size \in Nat /\ requests[c][r].close \in BOOLEAN  BY <1>4 DEF Request
<1> QED  BY <1>2, <1>3, <1>5 DEF r

(* A turn for a client without encryption takes the request, or the        *)
(* request has come in pieces.                                             *)
LEMMA PlainTurn ==
  ASSUME TypesInv, AskedInv, Whole, NEW c \in Client, c \notin Encrypted, Process(c)
  PROVE  /\ UNCHANGED count_writes
         /\ Len(requests[c]) = Len(served[c]) + 1
         /\ \E p : /\ Ended(c, p)
                   /\ \/ TookAll(c, p) /\ stream'[c] = <<>>
                      \/ /\ p.completed = <<>> /\ pieces'[c]
                         /\ \E k \in 0..requests[c][Len(requests[c])].size :
                               stream'[c] = Plain(Len(requests[c]), k,
                                                  requests[c][Len(requests[c])].size - k)
<1> DEFINE r == Len(requests[c])
           size == requests[c][r].size
<1>1. work = NoWork /\ parser = FreshParser /\ InOrder(c)  BY DEF AskedInv
<1>2. PICK n \in 1..Readable(c) : Read(c, n)  BY DEF Process
<1> DEFINE data == Offered(c, n)
<1>3. /\ data \in Seq(KnownBytes(c)) /\ Len(data) = n
      /\ \A i \in 1..n : data[i] = stream[c][i]
      /\ n \in 1..Len(stream[c])
  BY <1>1, <1>2, OfferedWhole
<1>4. /\ stream' = [stream EXCEPT ![c] = SubSeq(@, n + 1, Len(@))]
      /\ pieces' = [pieces EXCEPT ![c] = @ \/ n < Len(stream[c])]
      /\ Parse(c, data, <<>>, 0) /\ UNCHANGED count_writes
  BY <1>2 DEF Read, Offered
<1>5. stream[c] # <<>> /\ stream[c] \in Seq(KnownBytes(c)) /\ Len(stream[c]) \in Nat
  <2>1. stream[c] \in Seq(KnownBytes(c)) /\ Len(stream[c]) \in Nat
    BY LenProperties DEF TypesInv
  <2>2. Len(stream[c]) # 0  BY <1>3, <2>1
  <2>3. Len(<<>>) = 0  OBVIOUS
  <2> QED  BY <2>1, <2>2, <2>3
<1>6. Len(requests[c]) = Len(served[c]) + 1 /\ OnItsWay(c)  BY <1>1, <1>5 DEF InOrder
<1>7. r \in Nat /\ size \in Nat /\ requests[c][r].close \in BOOLEAN
  BY <1>6, LastRequest
<1>8. PICK k \in 0..size : stream[c] = Plain(r, k, size - k) /\ (~pieces[c] => k = 0)
  BY <1>6 DEF OnItsWay
<1> HIDE DEF data, r, size
<1>9. /\ k \in Nat /\ size - k \in Nat /\ Len(stream[c]) = size - k
      /\ \A i \in 1..(size - k) : stream[c][i] = Byte("plain", r, k + i)
  <2>1. k \in Nat /\ size - k \in Nat  BY <1>7
  <2> DEFINE m == size - k
  <2>2. m \in Nat /\ stream[c] = Plain(r, k, m)  BY <1>8, <2>1
  <2> HIDE DEF m
  <2>3. /\ Len(Plain(r, k, m)) = m
        /\ \A i \in 1..m : Plain(r, k, m)[i] = Byte("plain", r, k + i)
    BY <1>7, <2>1, <2>2, PlainFacts
  <2>4. Len(stream[c]) = m /\ \A i \in 1..m : stream[c][i] = Byte("plain", r, k + i)
    BY <2>2, <2>3
  <2> QED  BY <2>1, <2>4 DEF m
<1>10. n \in Nat /\ n > 0 /\ n =< size - k  BY <1>3, <1>9
<1>11. data = Plain(r, k, n)
  <2>1. \A i \in 1..n : data[i] = Byte("plain", r, k + i)
    <3> TAKE i \in 1..n
    <3>1. i \in 1..(size - k)  BY <1>9, <1>10
    <3> QED  BY <1>3, <1>9, <3>1
  <2>2. data = [i \in 1..n |-> data[i]]  BY <1>3, LenProperties
  <2> QED  BY <2>1, <2>2 DEF Plain
<1>12. stream'[c] = Plain(r, k + n, size - (k + n))
  <2> DEFINE s == stream[c]
             left == SubSeq(s, n + 1, size - k)
  <2>1. s \in Seq(KnownBytes(c)) /\ Len(s) = size - k  BY <1>5, <1>9
  <2>2. \A i \in 1..(size - k) : s[i] = Byte("plain", r, k + i)  BY <1>9
  <2>3. stream'[c] = left
    <3>1. stream \in [Client -> Seq(AByte)]  BY DEF TypesInv
    <3> QED  BY <1>4, <1>9, <3>1
  <2> HIDE DEF s
  <2>4. /\ left \in Seq(KnownBytes(c))
        /\ Len(left) = IF n =< size - k THEN (size - k) - n ELSE 0
        /\ \A i \in 1..((size - k) - n) : left[i] = s[n + i]
    <3> DEFINE b == size - k
    <3>1. n \in Nat /\ b \in Nat /\ b =< Len(s)  BY <1>9, <1>10, <2>1
    <3> HIDE DEF b
    <3>2. /\ SubSeq(s, n + 1, b) \in Seq(KnownBytes(c))
          /\ Len(SubSeq(s, n + 1, b)) = IF n =< b THEN b - n ELSE 0
          /\ \A i \in 1..(b - n) : SubSeq(s, n + 1, b)[i] = s[n + i]
      BY <2>1, <3>1, Part
    <3> QED  BY <3>2 DEF b
  <2> HIDE DEF left
  <2> DEFINE m == size - (k + n)
  <2>5. m = (size - k) - n /\ m \in Nat  BY <1>7, <1>9, <1>10
  <2>6. Len(left) = m  BY <1>10, <2>4, <2>5
  <2>7. \A i \in 1..m : left[i] = Byte("plain", r, (k + n) + i)
    <3> TAKE i \in 1..m
    <3>1. i \in 1..((size - k) - n)  BY <2>5
    <3>2. n + i \in 1..(size - k) /\ k + (n + i) = (k + n) + i  BY <1>9, <1>10, <3>1
    <3>3. left[i] = s[n + i]  BY <2>4, <3>1
    <3>4. s[n + i] = Byte("plain", r, k + (n + i))  BY <2>2, <3>2
    <3> QED  BY <3>2, <3>3, <3>4
  <2>8. left = [i \in 1..m |-> left[i]]  BY <2>4, <2>6, LenProperties
  <2> HIDE DEF m
  <2>9. left = Plain(r, k + n, m)  BY <2>7, <2>8 DEF Plain
  <2> QED  BY <2>3, <2>9 DEF m
<1>13. PICK p \in {Execute(parser, c, data)} :
         /\ served' = [served EXCEPT ![c] = @ \o p.completed]
         /\ EndOfCall(c, p)
  BY <1>4 DEF Parse
<1>14. Ended(c, p)  BY <1>13 DEF Ended, EndOfCall
<1>15. p = Execute(FreshParser, c, Plain(r, k, n))  BY <1>1, <1>11, <1>13
<1>16. pieces'[c] = (pieces[c] \/ n < size - k)
  <2>1. pieces \in [Client -> BOOLEAN]  BY DEF TypesInv
  <2> QED  BY <1>4, <1>9, <2>1
<1>17. k + n \in 0..size  BY <1>7, <1>9, <1>10
<1>18. CASE k > 0
  <2>1. pieces[c]  BY <1>8, <1>18
  <2>2. Plain(r, k, n)[1] = Byte("plain", r, k + 1)
    <3>1. 1 \in 1..n  BY <1>10
    <3> QED  BY <1>7, <1>9, <1>10, <3>1, PlainFacts
  <2>3. Plain(r, k, n)[1].b = k + 1 /\ k + 1 # 1  BY <1>9, <1>18, <2>2 DEF Byte
  <2>4. p.completed = <<>>  BY <1>15, <2>3, NoRequestStarts
  <2> QED  BY <1>4, <1>6, <1>12, <1>14, <1>16, <1>17, <2>1, <2>4 DEF r, size
<1>19. CASE k = 0
  <2>1. n =< size /\ k + n = n /\ size - k = size  BY <1>7, <1>10, <1>19
  <2>2. p = Execute(FreshParser, c, Plain(r, 0, n))  BY <1>15, <1>19
  <2>3. /\ n < size => p.completed = <<>>
        /\ n = size => /\ p.completed = <<[request |-> r, pure |-> TRUE]>>
                       /\ p.version = (size >= HeadSize)
                       /\ p.close = (requests[c][r].close /\ size >= HeadSize)
    BY <1>7, <1>10, <2>1, <2>2, RequestStarts DEF size
  <2>4. CASE n < size
    <3>1. pieces'[c]  BY <1>16, <2>1, <2>4
    <3> QED  BY <1>4, <1>6, <1>12, <1>14, <1>17, <2>3, <2>4, <3>1 DEF r, size
  <2>5. CASE n = size
    <3>1. TookAll(c, p)  BY <2>3, <2>5 DEF TookAll, r, size
    <3>2. stream'[c] = <<>>
      <4>1. size - (k + n) = 0  BY <1>7, <2>1, <2>5
      <4>2. stream'[c] = [i \in 1..0 |-> Byte("plain", r, (k + n) + i)]
        BY <1>12, <4>1 DEF Plain
      <4>3. stream'[c] \in Seq(AByte) /\ Len(stream'[c]) = 0  BY <4>2
      <4> QED  BY <4>3, EmptySeq
    <3> QED  BY <1>4, <1>6, <1>14, <3>1, <3>2
  <2>6. n < size \/ n = size  BY <1>7, <1>10, <2>1
  <2> QED  BY <2>4, <2>5, <2>6
<1>20. k > 0 \/ k = 0  BY <1>9
<1> QED  BY <1>18, <1>19, <1>20

(* A turn for an encrypted client whose request is there as a whole: it is *)
(* handed over, or refused, or was in more than one frame.                 *)
LEMMA SealedTurn ==
  ASSUME TypesInv, AskedInv, Whole, NEW c \in Client, c \in Encrypted, Process(c), Whole'
  PROVE  /\ Len(requests[c]) = Len(served[c]) + 1 /\ stream'[c] = <<>>
         /\ \/ /\ UNCHANGED <<served, disconnect>> /\ parser' = FreshParser /\ work' = NoWork
            \/ \E p : /\ Ended(c, p) /\ count_writes'[c] = Len(frames[c])
                      /\ \/ TookAll(c, p)
                         \/ p.completed = <<>> /\ InFrames(c, Len(requests[c]))
<1> DEFINE r == Len(requests[c])
           f == count_writes[c]
           s == stream[c]
           n == Len(s)
<1>1. work = NoWork /\ parser = FreshParser /\ InOrder(c)  BY DEF AskedInv
<1>2. PICK got \in 1..Readable(c) : Read(c, got)  BY DEF Process
<1>3. UNCHANGED <<requests, frames>>  BY DEF Process
<1>4. got \in 1..n /\ got \in 1..Block  BY <1>1, <1>2, OfferedWhole
<1>5. /\ s \in Seq(KnownBytes(c)) /\ n \in Nat /\ stream \in [Client -> Seq(AByte)]
      /\ pieces \in [Client -> BOOLEAN]
      /\ frames[c] \in Seq(KnownFrames(c)) /\ f \in Nat
      /\ count_writes \in [Client -> Nat] /\ Block \in Nat
  BY LenProperties, Sizes DEF TypesInv
<1>6. got = n
  <2>1. pieces' = [pieces EXCEPT ![c] = @ \/ got < n]  BY <1>2 DEF Read
  <2>2. ~pieces'[c]  BY DEF Whole
  <2>3. ~(got < n)  BY <1>5, <2>1, <2>2
  <2> HIDE DEF n
  <2> QED  BY <1>4, <1>5, <2>3
<1>7. n \in 1..n /\ n \in 1..Block  BY <1>4, <1>6
<1>8. stream'[c] = <<>>
  <2>1. stream' = [stream EXCEPT ![c] = SubSeq(@, n + 1, n)]  BY <1>2, <1>6 DEF Read
  <2>2. SubSeq(s, n + 1, n) = <<>>
    <3> HIDE DEF n, s
    <3>1. n + 1 \in Int /\ n \in Int /\ n < n + 1  BY <1>5
    <3> QED  BY <3>1, SubSeqEmpty
  <2> QED  BY <1>5, <2>1, <2>2
<1>9. Offered(c, n) = s
  <2>1. /\ Offered(c, n) \in Seq(KnownBytes(c)) /\ Len(Offered(c, n)) = n
        /\ \A i \in 1..n : Offered(c, n)[i] = s[i]
    BY <1>1, <1>2, <1>6, OfferedWhole
  <2> QED  BY <1>5, <2>1, SeqEqual
<1>10. Decrypted(c, s, n)
  <2>1. Decrypted(c, Offered(c, n), n)  BY <1>2, <1>6 DEF Read, Offered
  <2> HIDE DEF s, n
  <2> QED  BY <1>9, <2>1
<1>11. s # <<>>
  <2>1. n # 0  BY <1>5, <1>7
  <2>2. Len(<<>>) = 0  OBVIOUS
  <2> QED  BY <2>1, <2>2
<1>12. r = Len(served[c]) + 1 /\ OnItsWay(c)  BY <1>1, <1>11 DEF InOrder
<1>13. r \in Nat /\ r \in 1..Len(requests[c]) /\ requests[c][r].close \in BOOLEAN
  BY <1>12, LastRequest
<1>14. PICK sizes \in Shapes : /\ requests[c][r].size = Total(sizes)
                               /\ s = Sealed(f, sizes) /\ Sent(c, r, sizes)
  BY <1>12 DEF OnItsWay, Sent
<1> DEFINE m == Len(sizes)
<1>15. sizes \in Seq(Size) /\ m \in Nat  BY Sizes, LenProperties
<1>16. PICK e : Ends(e, sizes) /\ n = e[m]
  <2>1. PICK e : Ends(e, sizes) /\ Len(Sealed(f, sizes)) = e[Len(sizes)]
    BY <1>5, <1>15, SealedFacts, Zenon
  <2>2. s = Sealed(f, sizes)  BY <1>14
  <2> HIDE DEF s, f
  <2> QED  BY <2>1, <2>2
<1>17. m > 0
  <2>1. e[0] = 0  BY <1>16 DEF Ends
  <2>2. n # 0  BY <1>5, <1>7
  <2> HIDE DEF m, n
  <2> QED  BY <1>15, <1>16, <2>1, <2>2
<1>18. CASE ~Accepted(n)
  <2>1. Refused  BY <1>10, <1>18 DEF Decrypted
  <2>2. UNCHANGED <<served, disconnect>> /\ parser' = FreshParser /\ work' = NoWork
    BY <1>1, <2>1 DEF Refused, Returned
  <2> QED  BY <1>8, <1>12, <2>2
<1>19. CASE Accepted(n)
  <2>1. PICK d \in Decrypts(c, s, n) :
          /\ count_writes' = [count_writes EXCEPT ![c] = d.count]
          /\ IF d.failed THEN Refused
             ELSE \E moved \in {IF d.r > 0
                               THEN Overlaid(d.data, 0, SubSeq(d.data, d.r + 1, n))
                               ELSE d.data} :
                  \E payload \in {SubSeq(moved, Header + 1, Header + Required(n))} :
                      Parse(c, payload, moved, n - d.r)
    BY <1>10, <1>19 DEF Decrypted
  <2>2. /\ d \in LoopState(c, n) /\ d.r = n /\ ~d.failed /\ d.count = Len(frames[c])
        /\ \A b \in 1..sizes[m] :
              d.data[Header + b] = Byte("plain", r, Sums(sizes)[m - 1] + b)
    <3>1. d \in Decrypts(c, s, Len(s))  BY <2>1
    <3> HIDE DEF s, r
    <3> QED  BY <1>5, <1>13, <1>14, <1>15, <1>17, <3>1, LoopWhole DEF s
  <2>3. d.data \in Seq(KnownBytes(c)) /\ Len(d.data) = n  BY <2>2 DEF LoopState
  <2> DEFINE rest == SubSeq(d.data, n + 1, n)
             moved == Overlaid(d.data, 0, rest)
             size == Required(n)
             payload == SubSeq(moved, Header + 1, Header + size)
  <2>4. Parse(c, payload, moved, n - n)
    <3>1. d.r > 0  BY <1>5, <1>7, <2>2
    <3> QED  BY <2>1, <2>2, <3>1
  <2>5. rest = <<>>
    <3> HIDE DEF n
    <3>1. n + 1 \in Int /\ n \in Int /\ n < n + 1  BY <1>5
    <3> QED  BY <3>1, SubSeqEmpty
  <2>6. /\ moved \in Seq(KnownBytes(c)) /\ Len(moved) = n
        /\ \A i \in 1..n : moved[i] = d.data[i]
    <3> DEFINE x == d.data
    <3> DEFINE at == 0
    <3>0. rest \in Seq(KnownBytes(c)) /\ Len(rest) = 0 /\ at \in Nat /\ at = 0
      <4>1. <<>> \in Seq(KnownBytes(c)) /\ Len(<<>>) = 0  OBVIOUS
      <4> HIDE DEF rest
      <4> QED  BY <2>5, <4>1
    <3>1. x \in Seq(KnownBytes(c)) /\ Len(x) = n /\ moved = Overlaid(x, at, rest)
      BY <2>3
    <3> HIDE DEF x, moved, n, rest, at
    <3>2. /\ Overlaid(x, at, rest) \in Seq(KnownBytes(c))
          /\ Len(Overlaid(x, at, rest)) = Len(x)
          /\ \A i \in 1..Len(x) :
                Overlaid(x, at, rest)[i] = IF i \in (at + 1)..(at + Len(rest)) THEN rest[i - at]
                                          ELSE x[i]
      <4>1. rest \in Seq(KnownBytes(c)) /\ at \in Nat  BY <3>0
      <4>2. x \in Seq(KnownBytes(c))  BY <3>1
      <4> QED  BY <4>1, <4>2, OverlaidFacts
    <3>3. (at + 1)..(at + Len(rest)) = {}  BY <3>0
    <3> QED  BY <3>1, <3>2, <3>3 DEF x
  <2>7. size \in Nat /\ Header + size <= n /\ size = n - Overhead
    BY <1>7, <1>19, RequiredFacts
  <2> HIDE DEF rest, moved, size, n
  <2>8. /\ payload \in Seq(KnownBytes(c)) /\ Len(payload) = size
        /\ \A k \in 1..size : payload[k] = d.data[Header + k]
    <3> DEFINE b == Header + size
    <3>1. b \in Nat /\ b =< Len(moved) /\ Header \in Nat /\ Header =< b /\ b - Header = size
      BY <2>6, <2>7, Sizes
    <3> HIDE DEF b
    <3>2. /\ SubSeq(moved, Header + 1, b) \in Seq(KnownBytes(c))
          /\ Len(SubSeq(moved, Header + 1, b)) = IF Header =< b THEN b - Header ELSE 0
          /\ \A k \in 1..(b - Header) : SubSeq(moved, Header + 1, b)[k] = moved[Header + k]
      BY <2>6, <3>1, Part
    <3>3. payload = SubSeq(moved, Header + 1, b)  BY DEF b
    <3> HIDE DEF payload
    <3>4. ASSUME NEW k \in 1..size PROVE payload[k] = d.data[Header + k]
      <4>1. Header + k \in 1..n  BY <1>5, <2>7, Sizes
      <4>2. payload[k] = moved[Header + k]  BY <3>1, <3>2, <3>3
      <4> QED  BY <2>6, <4>1, <4>2
    <3> QED  BY <3>1, <3>2, <3>3, <3>4
  <2> HIDE DEF payload
  <2>9. PICK p \in {Execute(parser, c, payload)} :
          /\ served' = [served EXCEPT ![c] = @ \o p.completed]
          /\ IF n - n > 0 /\ p.completed = <<>> THEN TRUE ELSE EndOfCall(c, p)
    BY <2>4 DEF Parse
  <2>10. Ended(c, p) /\ p = Execute(FreshParser, c, payload)
    <3>1. ~(n - n > 0)  BY <1>5
    <3> QED  BY <1>1, <2>9, <3>1 DEF Ended, EndOfCall
  <2>11. count_writes'[c] = Len(frames[c])  BY <1>5, <2>1, <2>2
  <2>12. sizes[m] \in Nat /\ sizes[m] > 0 /\ Sums(sizes) \in [0..m -> Nat]
         /\ Sums(sizes)[0] = 0
    <3>1. m \in 1..m
      <4> HIDE DEF m
      <4> QED  BY <1>15, <1>17
    <3>2. sizes[m] \in Size  BY <1>15, <3>1, ElementOfSeq
    <3> QED  BY <1>15, <3>2, Sizes, SumsFacts
  <2>13. CASE m = 1
    <3>1. e[0] = 0 /\ e[1] = e[1 - 1] + sizes[1] + Overhead
      <4>1. 1 \in 1..m  BY <2>13
      <4> QED  BY <1>16, <4>1 DEF Ends
    <3>2. sizes[1] = size
      <4>1. n = sizes[1] + Overhead /\ Overhead \in Nat
        <5>1. 1 - 1 = 0 /\ Overhead \in Nat  BY Sizes
        <5>2. e[1] = n  BY <1>16, <2>13
        <5> HIDE DEF m
        <5> QED  BY <2>12, <2>13, <3>1, <5>1, <5>2
      <4> HIDE DEF m
      <4> QED  BY <2>7, <2>12, <2>13, <4>1
    <3>3. Total(sizes) = size
      <4>1. Sums(sizes)[1] = Sums(sizes)[1 - 1] + sizes[1]
        <5>1. 1 \in 1..m  BY <2>13
        <5> QED  BY <1>15, <5>1, SumsFacts
      <4>2. Total(sizes) = Sums(sizes)[1]  BY <2>13 DEF Total
      <4> HIDE DEF m
      <4> QED  BY <2>7, <2>12, <3>2, <4>1, <4>2
    <3>4. payload = Plain(r, 0, size)
      <4>1. \A k \in 1..size : payload[k] = Byte("plain", r, 0 + k)
        <5> TAKE k \in 1..size
        <5>1. Sums(sizes)[m - 1] = 0
          <6>1. m - 1 = 0  BY <2>13
          <6> QED  BY <2>12, <6>1
        <5>2. k \in 1..sizes[m]  BY <2>13, <3>2
        <5>3. d.data[Header + k] = Byte("plain", r, Sums(sizes)[m - 1] + k)
          BY <2>2, <5>2
        <5> QED  BY <2>8, <5>1, <5>3
      <4>2. payload = [k \in 1..size |-> payload[k]]  BY <2>8, LenProperties
      <4> QED  BY <4>1, <4>2 DEF Plain
    <3>5. /\ p.completed = <<[request |-> r, pure |-> TRUE]>>
          /\ p.version = (size >= HeadSize)
          /\ p.close = (requests[c][r].close /\ size >= HeadSize)
      <4>1. size > 0  BY <2>12, <2>13, <3>2
      <4>2. requests[c][r].size = size /\ size =< size  BY <1>14, <2>7, <3>3
      <4>3. p = Execute(FreshParser, c, Plain(r, 0, size))  BY <2>10, <3>4
      <4> HIDE DEF r
      <4> QED  BY <1>13, <2>7, <4>1, <4>2, <4>3, RequestStarts
    <3>6. TookAll(c, p)  BY <1>14, <3>3, <3>5 DEF TookAll
    <3> QED  BY <1>8, <1>12, <2>10, <2>11, <3>6
  <2>14. CASE m # 1
    <3>1. m > 1 /\ m - 1 \in 1..m /\ m - 1 \in 0..m
      <4> HIDE DEF m
      <4> QED  BY <1>15, <1>17, <2>14
    <3>2. Sums(sizes)[m - 1] \in Nat /\ Sums(sizes)[m - 1] > 0
      BY <1>15, <2>12, <3>1, SumsFacts
    <3>3. payload # <<>> => ~(payload[1].kind = "plain" /\ payload[1].b = 1)
      <4> SUFFICES ASSUME payload # <<>> PROVE payload[1].b # 1  OBVIOUS
      <4>1. size > 0
        <5>1. Len(payload) # 0  BY <2>8
        <5> QED  BY <2>7, <2>8, <5>1
      <4>2. 1 \in 1..size /\ 1 \in 1..sizes[m]  BY <2>7, <2>12, <4>1
      <4>3. payload[1] = Byte("plain", r, Sums(sizes)[m - 1] + 1)  BY <2>2, <2>8, <4>2
      <4>4. payload[1].b = Sums(sizes)[m - 1] + 1  BY <4>3 DEF Byte
      <4> QED  BY <3>2, <4>4
    <3>4. p.completed = <<>>  BY <2>10, <3>3, NoRequestStarts
    <3>5. /\ f + 1 \in 1..Len(frames[c]) /\ f + 2 \in 1..Len(frames[c]) /\ f + 1 < f + 2
          /\ frames[c][f + 1].request = r /\ frames[c][f + 2].request = r
      <4>1. 1 \in 1..m /\ 2 \in 1..m
        <5> HIDE DEF m
        <5> QED  BY <1>15, <3>1
      <4>2. /\ Len(frames[c]) = f + m
            /\ \A k \in 1..m : frames[c][f + k] = FramesOf(r, sizes)[k]
        BY <1>14 DEF Sent
      <4>3. \A k \in 1..m : FramesOf(r, sizes)[k].request = r  BY DEF FramesOf
      <4>4. /\ f + 1 \in 1..(f + m) /\ f + 2 \in 1..(f + m) /\ f + 1 < f + 2
        <5> HIDE DEF m, f
        <5> QED  BY <1>5, <1>15, <3>1
      <4>5. frames[c][f + 1].request = r /\ frames[c][f + 2].request = r
        <5> HIDE DEF m, f, r
        <5> QED  BY <4>1, <4>2, <4>3
      <4> QED  BY <4>2, <4>4, <4>5
    <3>6. InFrames(c, r)  BY <3>5 DEF InFrames
    <3> QED  BY <1>8, <1>12, <2>10, <2>11, <3>4, <3>6
  <2> QED  BY <2>13, <2>14
<1> QED  BY <1>18, <1>19

(* A turn for one client leaves the others alone.                          *)
LEMMA ProcessOthers ==
  ASSUME TypesInv, NEW c \in Client, Process(c), NEW k \in Client, k # c
  PROVE  /\ stream'[k] = stream[k] /\ pieces'[k] = pieces[k] /\ served'[k] = served[k]
         /\ count_writes'[k] = count_writes[k] /\ disconnect'[k] = disconnect[k]
<1>1. PICK n : Read(c, n)  BY DEF Process
<1>2. /\ stream \in [Client -> Seq(AByte)] /\ pieces \in [Client -> BOOLEAN]
      /\ served \in [Client -> Seq(Served)] /\ count_writes \in [Client -> Nat]
      /\ disconnect \in [Client -> BOOLEAN]
  BY DEF TypesInv
<1>3. stream'[k] = stream[k] /\ pieces'[k] = pieces[k]
  BY <1>1, <1>2 DEF Read
<1>4. ASSUME NEW payload, NEW data, NEW available, Parse(c, payload, data, available)
      PROVE  served'[k] = served[k] /\ disconnect'[k] = disconnect[k]
  <2>1. PICK p : /\ served' = [served EXCEPT ![c] = @ \o p.completed]
                 /\ \/ UNCHANGED disconnect
                    \/ disconnect' = [disconnect EXCEPT ![c] = @ \/ ~KeepAlive(p)]
    BY <1>4 DEF Parse, EndOfCall
  <2> QED  BY <1>2, <2>1
<1>5. ASSUME NEW data, NEW m, Decrypted(c, data, m)
      PROVE  /\ served'[k] = served[k] /\ disconnect'[k] = disconnect[k]
             /\ count_writes'[k] = count_writes[k]
  <2>1. /\ \/ UNCHANGED count_writes
           \/ \E count : count_writes' = [count_writes EXCEPT ![c] = count]
        /\ \/ Refused
           \/ \E payload, moved, available : Parse(c, payload, moved, available)
    BY <1>5, Zenon DEF Decrypted
  <2>2. count_writes'[k] = count_writes[k]  BY <1>2, <2>1
  <2>3. Refused => served' = served /\ disconnect' = disconnect  BY DEF Refused
  <2> QED  BY <1>4, <2>1, <2>2, <2>3
<1>6. \/ \E data : Decrypted(c, data, n)
      \/ UNCHANGED count_writes /\ \E data : Parse(c, data, <<>>, 0)
  BY <1>1, Zenon DEF Read
<1> QED  BY <1>3, <1>4, <1>5, <1>6

LEMMA InOrderSame ==
  ASSUME NEW k \in Client, InOrder(k), requests'[k] = requests[k], frames'[k] = frames[k],
         stream'[k] = stream[k], served'[k] = served[k], count_writes'[k] = count_writes[k],
         pieces'[k] = pieces[k]
  PROVE  InOrder(k)'
<1>1. OnItsWay(k)' <=> OnItsWay(k)  BY DEF OnItsWay
<1> QED  BY <1>1 DEF InOrder

LEMMA AskedInit == FramingInit => AskedInv
<1> SUFFICES ASSUME FramingInit PROVE AskedInv  OBVIOUS
<1> USE DEF FramingInit
<1>1. parser = FreshParser /\ work = NoWork  OBVIOUS
<1>2. ASSUME NEW c \in Client PROVE InOrder(c)
  <2>1. /\ stream[c] = <<>> /\ served[c] = <<>> /\ frames[c] = <<>> /\ count_writes[c] = 0
    OBVIOUS
  <2>2. Len(<<>>) = 0 /\ 1..0 = {}  OBVIOUS
  <2>3. count_writes[c] = Len(frames[c]) /\ 1..Len(served[c]) = {}  BY <2>1, <2>2
  <2> HIDE DEF FramingInit
  <2> QED  BY <2>1, <2>3 DEF InOrder
<1> QED  BY <1>1, <1>2 DEF AskedInv

LEMMA AskedProcess ==
  ASSUME TypesInv, AskedInv, NEW c \in Client, Process(c)
  PROVE  AskedInv'
<1> SUFFICES ASSUME Whole'
             PROVE  parser' = FreshParser /\ work' = NoWork /\ \A k \in Client : InOrder(k)'
  BY DEF AskedInv
<1>1. Whole
  <2>1. \A k \in Client : pieces[k] => pieces'[k]
    <3>1. PICK n : pieces' = [pieces EXCEPT ![c] = @ \/ n < Len(stream[c])]
      BY DEF Process, Read
    <3>2. pieces \in [Client -> BOOLEAN]  BY DEF TypesInv
    <3> QED  BY <3>1, <3>2
  <2>2. Encrypted \subseteq Client  BY FramingAssumption
  <2> QED  BY <2>1, <2>2 DEF Whole
<1>2. UNCHANGED <<requests, frames>>  BY DEF Process
<1>3. ASSUME NEW k \in Client, k # c PROVE InOrder(k)'
  <2>1. InOrder(k)  BY <1>1 DEF AskedInv
  <2> QED  BY <1>2, <1>3, <2>1, ProcessOthers, InOrderSame
<1> DEFINE r == Len(requests[c])
           size == requests[c][r].size
<1>4. /\ served \in [Client -> Seq(Served)] /\ served[c] \in Seq(Served)
      /\ Len(served[c]) \in Nat
      /\ \A i \in 1..Len(served[c]) : served[c][i] = [request |-> i, pure |-> TRUE]
  <2>1. InOrder(c)  BY <1>1 DEF AskedInv
  <2> QED  BY <2>1, LenProperties DEF InOrder, TypesInv
<1>5. ASSUME NEW p, Ended(c, p), p.completed = <<>>
      PROVE  served'[c] = served[c]
  <2>1. served'[c] = served[c] \o <<>>  BY <1>4, <1>5 DEF Ended
  <2> QED  BY <1>4, <2>1
<1>6. ASSUME NEW p, Ended(c, p), TookAll(c, p), r = Len(served[c]) + 1
      PROVE  /\ Len(served'[c]) = r
             /\ \A i \in 1..Len(served'[c]) : served'[c][i] = [request |-> i, pure |-> TRUE]
  <2> DEFINE x == [request |-> r, pure |-> TRUE]
             old == served[c]
  <2>1. served'[c] = old \o <<x>>  BY <1>4, <1>6 DEF Ended, TookAll
  <2>2. r \in Nat  BY <1>4, <1>6
  <2>3. x \in Served  BY <2>2 DEF Served
  <2>4. <<x>> \in Seq(Served) /\ Len(<<x>>) = 1 /\ <<x>>[1] = x
    <3> HIDE DEF x
    <3> QED  BY <2>3
  <2>5. old \in Seq(Served)  BY <1>4
  <2> DEFINE more == <<x>>
  <2>6. more \in Seq(Served) /\ Len(more) = 1 /\ more[1] = x  BY <2>4
  <2> HIDE DEF old, x, more
  <2>7. /\ Len(old \o more) = Len(old) + Len(more)
        /\ \A i \in 1..Len(old) + Len(more) :
              (old \o more)[i] = IF i <= Len(old) THEN old[i] ELSE more[i - Len(old)]
    BY <2>5, <2>6, ConcatProperties
  <2>8. Len(old) \in Nat /\ r = Len(old) + 1  BY <1>4, <1>6 DEF old
  <2> HIDE DEF r
  <2>9. Len(old \o more) = r  BY <2>6, <2>7, <2>8
  <2>10. ASSUME NEW i \in 1..r PROVE (old \o more)[i] = [request |-> i, pure |-> TRUE]
    <3>1. CASE i = r
      <4>1. ~(i <= Len(old)) /\ i - Len(old) = 1 /\ i \in 1..Len(old) + Len(more)
        BY <2>6, <2>8, <3>1
      <4>2. (old \o more)[i] = x  BY <2>6, <2>7, <4>1
      <4> QED  BY <3>1, <4>2 DEF x
    <3>2. CASE i # r
      <4>1. i \in 1..Len(old) /\ i <= Len(old) /\ i \in 1..Len(old) + Len(more)
        BY <2>6, <2>8, <3>2
      <4>2. (old \o more)[i] = old[i]  BY <2>7, <4>1
      <4> QED  BY <1>4, <4>1, <4>2 DEF old
    <3> QED  BY <3>1, <3>2
  <2>11. served'[c] = old \o more  BY <2>1 DEF more
  <2> QED  BY <2>9, <2>10, <2>11
<1>7. ASSUME NEW p, Ended(c, p), TookAll(c, p), r = Len(served[c]) + 1, stream'[c] = <<>>,
             c \in Encrypted => count_writes'[c] = Len(frames[c])
      PROVE  InOrder(c)'
  <2>1. /\ Len(served'[c]) = r
        /\ \A i \in 1..Len(served'[c]) : served'[c][i] = [request |-> i, pure |-> TRUE]
    BY <1>6, <1>7
  <2>2. c \in Encrypted => count_writes'[c] = Len(frames'[c])  BY <1>2, <1>7
  <2> QED  BY <1>7, <2>1, <2>2 DEF InOrder
<1>8. ASSUME served'[c] = served[c], r = Len(served[c]) + 1, stream'[c] # <<>> => OnItsWay(c)'
      PROVE  InOrder(c)'
  <2>1. Len(requests'[c]) = Len(served'[c]) + 1  BY <1>2, <1>8
  <2>2. Len(requests'[c]) # Len(served'[c])
    <3>1. Len(served'[c]) \in Nat  BY <1>4, <1>8
    <3> QED  BY <2>1, <3>1
  <2>3. \A i \in 1..Len(served'[c]) : served'[c][i] = [request |-> i, pure |-> TRUE]
    BY <1>4, <1>8
  <2> QED  BY <1>8, <2>1, <2>2, <2>3 DEF InOrder
<1>9. CASE c \notin Encrypted
  <2>1. PICK p : /\ Ended(c, p)
                 /\ \/ TookAll(c, p) /\ stream'[c] = <<>>
                    \/ /\ p.completed = <<>> /\ pieces'[c]
                       /\ \E k \in 0..size : stream'[c] = Plain(r, k, size - k)
    BY <1>1, <1>9, PlainTurn
  <2>2. r = Len(served[c]) + 1  BY <1>1, <1>9, PlainTurn
  <2>3. CASE TookAll(c, p) /\ stream'[c] = <<>>
    <3>1. InOrder(c)'  BY <1>7, <1>9, <2>1, <2>2, <2>3
    <3> QED  BY <1>3, <2>1, <3>1 DEF Ended
  <2>4. CASE p.completed = <<>> /\ pieces'[c]
             /\ \E k \in 0..size : stream'[c] = Plain(r, k, size - k)
    <3>1. OnItsWay(c)'  BY <1>2, <1>9, <2>4 DEF OnItsWay
    <3>2. served'[c] = served[c]  BY <1>5, <2>1, <2>4
    <3>3. InOrder(c)'  BY <1>8, <2>2, <3>1, <3>2
    <3> QED  BY <1>3, <2>1, <3>3 DEF Ended
  <2> QED  BY <2>1, <2>3, <2>4
<1>10. CASE c \in Encrypted
  <2>1. /\ r = Len(served[c]) + 1 /\ stream'[c] = <<>>
        /\ \/ /\ UNCHANGED <<served, disconnect>> /\ parser' = FreshParser /\ work' = NoWork
           \/ \E p : /\ Ended(c, p) /\ count_writes'[c] = Len(frames[c])
                     /\ TookAll(c, p) \/ p.completed = <<>>
    BY <1>1, <1>10, SealedTurn
  <2>2. CASE UNCHANGED <<served, disconnect>> /\ parser' = FreshParser /\ work' = NoWork
    <3>1. InOrder(c)'  BY <1>8, <2>1, <2>2
    <3> QED  BY <1>3, <2>2, <3>1
  <2>3. ASSUME NEW p, Ended(c, p), count_writes'[c] = Len(frames[c]),
               TookAll(c, p) \/ p.completed = <<>>
        PROVE  parser' = FreshParser /\ work' = NoWork /\ \A k \in Client : InOrder(k)'
    <3>1. CASE TookAll(c, p)
      <4>1. InOrder(c)'  BY <1>7, <2>1, <2>3, <3>1
      <4> QED  BY <1>3, <2>3, <4>1 DEF Ended
    <3>2. CASE p.completed = <<>>
      <4>1. InOrder(c)'  BY <1>5, <1>8, <2>1, <2>3, <3>2
      <4> QED  BY <1>3, <2>3, <4>1 DEF Ended
    <3> QED  BY <2>3, <3>1, <3>2
  <2> QED  BY <2>1, <2>2, <2>3
<1> QED  BY <1>9, <1>10

LEMMA AskedSendRequest ==
  ASSUME TypesInv, AskedInv, NEW c \in Client, SendRequest(c)
  PROVE  AskedInv'
<1> SUFFICES ASSUME Whole'
             PROVE  parser' = FreshParser /\ work' = NoWork /\ \A k \in Client : InOrder(k)'
  BY DEF AskedInv
<1>1. PICK sizes \in Shapes, close \in BOOLEAN :
        /\ stream' = [stream EXCEPT ![c] = Bytes(c, sizes)]
        /\ requests' = [requests EXCEPT ![c] =
                          Append(@, [size |-> Total(sizes), close |-> close])]
        /\ frames' = [frames EXCEPT ![c] = @ \o FramesOf(Len(requests[c]) + 1, sizes)]
  BY DEF SendRequest
<1>2. /\ UNCHANGED <<count_writes, served, parser, work, pieces>>
      /\ Len(requests[c]) = Len(served[c])
  BY DEF SendRequest
<1>3. Whole  BY <1>2 DEF Whole
<1>4. parser' = FreshParser /\ work' = NoWork  BY <1>2, <1>3 DEF AskedInv
<1>5. /\ requests \in [Client -> Seq(Request)] /\ frames \in [Client -> Seq(Frame)]
      /\ stream \in [Client -> Seq(AByte)]
      /\ requests[c] \in Seq(Request) /\ frames[c] \in Seq(Frame)
      /\ InOrder(c)
  BY <1>3 DEF TypesInv, AskedInv
<1>6. ASSUME NEW k \in Client, k # c PROVE InOrder(k)'
  <2>1. InOrder(k)  BY <1>3 DEF AskedInv
  <2>2. /\ stream'[k] = stream[k] /\ requests'[k] = requests[k] /\ frames'[k] = frames[k]
    BY <1>1, <1>5, <1>6
  <2> QED  BY <1>2, <2>1, <2>2, InOrderSame
<1> DEFINE r == Len(requests[c]) + 1
           f == count_writes[c]
           asked == [size |-> Total(sizes), close |-> close]
           more == FramesOf(r, sizes)
           bytes == Bytes(c, sizes)
<1>7. sizes \in Seq(Size) /\ Len(sizes) \in Nat  BY Sizes, LenProperties
<1>8. Len(requests[c]) \in Nat /\ Len(frames[c]) \in Nat /\ r \in Nat
  BY <1>5, LenProperties
<1>9. Total(sizes) \in Nat
  <2>1. Sums(sizes) \in [0..Len(sizes) -> Nat]  BY <1>7, SumsFacts
  <2>2. Len(sizes) \in 0..Len(sizes)  BY <1>7
  <2> QED  BY <2>1, <2>2 DEF Total
<1>10. /\ requests'[c] = Append(requests[c], asked) /\ Len(requests'[c]) = r
       /\ requests'[c][r] = asked
  <2>1. asked \in Request  BY <1>9 DEF Request
  <2> HIDE DEF asked
  <2>2. requests' = [requests EXCEPT ![c] = Append(@, asked)]  BY <1>1 DEF asked
  <2>3. /\ Len(Append(requests[c], asked)) = Len(requests[c]) + 1
        /\ Append(requests[c], asked)[Len(requests[c]) + 1] = asked
    BY <1>5, <2>1, AppendProperties
  <2> QED  BY <1>5, <2>2, <2>3
<1>11. /\ frames'[c] = frames[c] \o more /\ Len(frames'[c]) = Len(frames[c]) + Len(sizes)
       /\ \A k \in 1..Len(sizes) : frames'[c][Len(frames[c]) + k] = more[k]
  <2>1. more \in Seq(Frame) /\ Len(more) = Len(sizes)
    <3> HIDE DEF r
    <3>1. FramesOf(r, sizes) \in Seq(Frame) /\ Len(FramesOf(r, sizes)) = Len(sizes)
      BY <1>7, <1>8, FramesOfFacts
    <3> QED  BY <3>1
  <2>2. frames' = [frames EXCEPT ![c] = @ \o more]  BY <1>1
  <2> DEFINE old == frames[c]
  <2>3. old \in Seq(Frame) /\ Len(old) \in Nat  BY <1>5, <1>8
  <2> HIDE DEF more
  <2>4. frames'[c] = old \o more  BY <1>5, <2>2
  <2> HIDE DEF old
  <2>5. /\ Len(old \o more) = Len(old) + Len(more)
        /\ \A i \in 1..Len(old) + Len(more) :
              (old \o more)[i] = IF i <= Len(old) THEN old[i] ELSE more[i - Len(old)]
    BY <2>1, <2>3, ConcatProperties
  <2>6. ASSUME NEW k \in 1..Len(sizes) PROVE (old \o more)[Len(old) + k] = more[k]
    <3>1. /\ Len(old) + k \in 1..Len(old) + Len(more) /\ ~(Len(old) + k <= Len(old))
          /\ (Len(old) + k) - Len(old) = k
      BY <1>7, <2>1, <2>3
    <3> QED  BY <2>5, <3>1
  <2>7. Len(old \o more) = Len(old) + Len(sizes)  BY <2>1, <2>5
  <2> QED  BY <2>4, <2>6, <2>7 DEF old
<1>12. stream'[c] = bytes  BY <1>1, <1>5
<1>13. OnItsWay(c)'
  <2>1. requests'[c][Len(requests'[c])].size = Total(sizes)  BY <1>10
  <2>2. CASE c \in Encrypted
    <3>1. f = Len(frames[c])  BY <1>2, <1>5, <2>2 DEF InOrder
    <3>2. stream'[c] = Sealed(count_writes'[c], sizes)
      BY <1>2, <1>12, <2>2, <3>1 DEF Bytes
    <3>3. /\ Len(frames'[c]) = count_writes'[c] + Len(sizes)
          /\ \A k \in 1..Len(sizes) :
                frames'[c][count_writes'[c] + k] = FramesOf(Len(requests'[c]), sizes)[k]
      BY <1>2, <1>10, <1>11, <3>1
    <3> QED  BY <2>1, <2>2, <3>2, <3>3 DEF OnItsWay
  <2>3. CASE c \notin Encrypted
    <3> DEFINE total == Total(sizes)
    <3>1. stream'[c] = Plain(Len(requests'[c]), 0, total)
      BY <1>10, <1>12, <2>3 DEF Bytes
    <3>2. total \in Nat  BY <1>9
    <3> HIDE DEF total
    <3>3. 0 \in 0..total /\ total - 0 = total  BY <3>2
    <3>4. stream'[c] = Plain(Len(requests'[c]), 0, total - 0)  BY <3>1, <3>3
    <3>5. requests'[c][Len(requests'[c])].size = total  BY <2>1 DEF total
    <3> QED  BY <2>3, <3>3, <3>4, <3>5 DEF OnItsWay
  <2> QED  BY <2>2, <2>3
<1>14. InOrder(c)'
  <2>1. Len(requests'[c]) = Len(served'[c]) + 1  BY <1>2, <1>10
  <2>2. Len(requests'[c]) # Len(served'[c])
    <3>1. Len(served[c]) \in Nat  BY <1>2, <1>8
    <3> QED  BY <1>2, <2>1, <3>1
  <2>3. \A i \in 1..Len(served'[c]) : served'[c][i] = [request |-> i, pure |-> TRUE]
    BY <1>2, <1>5 DEF InOrder
  <2> QED  BY <1>13, <2>1, <2>2, <2>3 DEF InOrder
<1> QED  BY <1>4, <1>6, <1>14

LEMMA AskedNext == TypesInv /\ AskedInv /\ [FramingNext]_framingVars => AskedInv'
<1> SUFFICES ASSUME TypesInv, AskedInv, [FramingNext]_framingVars PROVE AskedInv'
  OBVIOUS
<1>1. ASSUME UNCHANGED <<requests, frames, stream, served, count_writes, parser, pieces>>,
             work' = work \/ work' = NoWork
      PROVE  AskedInv'
  <2> SUFFICES ASSUME Whole'
               PROVE  parser' = FreshParser /\ work' = NoWork /\ \A k \in Client : InOrder(k)'
    BY DEF AskedInv
  <2>1. Whole  BY <1>1 DEF Whole
  <2>2. parser' = FreshParser /\ work' = NoWork  BY <1>1, <2>1 DEF AskedInv
  <2>3. ASSUME NEW k \in Client PROVE InOrder(k)'
    <3>1. InOrder(k)  BY <2>1 DEF AskedInv
    <3> QED  BY <1>1, <3>1, InOrderSame
  <2> QED  BY <2>2, <2>3
<1>2. ASSUME NEW c \in Client, SendRequest(c) PROVE AskedInv'  BY <1>2, AskedSendRequest
<1>3. ASSUME NEW c \in Client, Leave(c) PROVE AskedInv'  BY <1>1, <1>3 DEF Leave
<1>4. ASSUME NEW c \in Client, SendEvent(c) PROVE AskedInv'  BY <1>1, <1>4 DEF SendEvent
<1>5. ASSUME NEW c \in Client, Process(c) PROVE AskedInv'  BY <1>5, AskedProcess
<1>6. ASSUME NEW c \in Client, ReadNothing(c) PROVE AskedInv'
  BY <1>1, <1>6 DEF ReadNothing, Returned
<1>7. CASE UNCHANGED framingVars  BY <1>1, <1>7 DEF framingVars
<1> QED  BY <1>2, <1>3, <1>4, <1>5, <1>6, <1>7, Zenon DEF FramingNext, ServerStep

(* What is handed to the handlers is what the client asked, every byte of  *)
(* it, in order and once, with nothing of another client's request, for    *)
(* every number of clients, every size of the buffer and every way to cut  *)
(* requests into frames, as long as no read of an encrypted connection     *)
(* returned a part of a request (homekit_client_process(),                 *)
(* client_decrypt_() and the parser all clients share).                    *)
THEOREM HandlersGetRequests == FramingSpec => []ServedAsAsked
<1>1. AskedInv => ServedAsAsked
  BY DEF AskedInv, InOrder, ServedAsAsked
<1> QED  BY TypesInit, TypesNext, AskedInit, AskedNext, <1>1, PTL DEF FramingSpec

------------------------------------------------------------------------------
(* Why a connection ends.  A request is at least its head.                 *)
HasHead == \A sizes \in Shapes : Total(sizes) >= HeadSize

Headed == \A c \in Client : \A i \in 1..Len(requests[c]) : requests[c][i].size >= HeadSize

ClosedInv == Headed /\ ClosedForOwnReasons

(* What a client has to thank its own requests for.                        *)
Brought(c) ==
  \E i \in 1..Len(requests[c]) : requests[c][i].close \/ InFrames(c, i)

LEMMA BroughtSame ==
  ASSUME NEW c \in Client, requests'[c] = requests[c], frames'[c] = frames[c]
  PROVE  Brought(c)' <=> Brought(c)
BY DEF Brought, InFrames

LEMMA ClosedInit == FramingInit => ClosedInv
<1> SUFFICES ASSUME FramingInit PROVE ClosedInv  OBVIOUS
<1>1. ASSUME NEW c \in Client PROVE ~disconnect[c] /\ 1..Len(requests[c]) = {}
  <2>1. requests[c] = <<>> /\ ~disconnect[c]  BY DEF FramingInit
  <2>2. Len(<<>>) = 0 /\ 1..0 = {}  OBVIOUS
  <2> QED  BY <2>1, <2>2
<1> QED  BY <1>1 DEF ClosedInv, Headed, ClosedForOwnReasons

LEMMA ClosedProcess ==
  ASSUME HasHead, TypesInv, AskedInv, ClosedInv, NEW c \in Client, Process(c)
  PROVE  ClosedInv'
<1>1. UNCHANGED <<requests, frames, gone>> /\ ~disconnect[c]  BY DEF Process
<1>2. Headed'  BY <1>1 DEF ClosedInv, Headed
<1> SUFFICES ASSUME Whole', NEW k \in Client, disconnect'[k], ~pieces'[k]
             PROVE  gone[k] \/ Brought(k)
  <2>1. \A k \in Client : Brought(k)' <=> Brought(k)  BY <1>1, BroughtSame
  <2> QED  BY <1>1, <1>2, <2>1 DEF ClosedInv, ClosedForOwnReasons, Brought
<1>3. Whole /\ (pieces[k] => pieces'[k])
  <2>1. \A j \in Client : pieces[j] => pieces'[j]
    <3>1. PICK n : pieces' = [pieces EXCEPT ![c] = @ \/ n < Len(stream[c])]
      BY DEF Process, Read
    <3>2. pieces \in [Client -> BOOLEAN]  BY DEF TypesInv
    <3> QED  BY <3>1, <3>2
  <2>2. Encrypted \subseteq Client  BY FramingAssumption
  <2> QED  BY <2>1, <2>2 DEF Whole
<1>4. CASE k # c
  <2>1. disconnect[k] /\ ~pieces[k]  BY <1>3, <1>4, ProcessOthers
  <2> QED  BY <1>3, <2>1 DEF ClosedInv, ClosedForOwnReasons, Brought
<1>5. CASE k = c
  <2> DEFINE r == Len(requests[c])
  <2>1. ASSUME NEW p, Ended(c, p), TookAll(c, p), r = Len(served[c]) + 1
        PROVE  Brought(c)
    <3>1. disconnect'[c] = (disconnect[c] \/ ~KeepAlive(p))
      BY <2>1 DEF Ended, TypesInv
    <3>2. ~KeepAlive(p)  BY <1>1, <1>5, <3>1
    <3>3. r \in 1..Len(requests[c]) /\ requests[c][r].size \in Nat
          /\ requests[c][r].close \in BOOLEAN
      BY <2>1, LastRequest
    <3>4. requests[c][r].size >= HeadSize  BY <3>3 DEF ClosedInv, Headed
    <3>5. p.version  BY <2>1, <3>4 DEF TookAll
    <3>6. p.close  BY <3>2, <3>5 DEF KeepAlive
    <3>7. requests[c][r].close  BY <2>1, <3>6 DEF TookAll
    <3> QED  BY <3>3, <3>7 DEF Brought
  <2>2. CASE c \notin Encrypted
    <3>1. PICK p : Ended(c, p) /\ (TookAll(c, p) \/ pieces'[c])
      BY <1>3, <2>2, PlainTurn
    <3>2. r = Len(served[c]) + 1  BY <1>3, <2>2, PlainTurn
    <3> QED  BY <1>5, <2>1, <3>1, <3>2
  <2>3. CASE c \in Encrypted
    <3>1. /\ r = Len(served[c]) + 1
          /\ \/ UNCHANGED disconnect
             \/ \E p : Ended(c, p) /\ TookAll(c, p)
             \/ InFrames(c, r)
      BY <1>3, <2>3, SealedTurn
    <3>2. r \in 1..Len(requests[c])  BY <3>1, LastRequest
    <3>3. ~UNCHANGED disconnect  BY <1>1, <1>5
    <3>4. CASE InFrames(c, r)  BY <1>5, <3>2, <3>4 DEF Brought
    <3> QED  BY <1>5, <2>1, <3>1, <3>3, <3>4
  <2> QED  BY <2>2, <2>3
<1> QED  BY <1>4, <1>5

LEMMA ClosedNext ==
  ASSUME HasHead
  PROVE  TypesInv /\ AskedInv /\ ClosedInv /\ [FramingNext]_framingVars => ClosedInv'
<1> SUFFICES ASSUME TypesInv, AskedInv, ClosedInv, [FramingNext]_framingVars PROVE ClosedInv'
  OBVIOUS
<1>0. /\ disconnect \in [Client -> BOOLEAN] /\ gone \in [Client -> BOOLEAN]
      /\ requests \in [Client -> Seq(Request)]
  BY DEF TypesInv
<1>1. ASSUME UNCHANGED <<requests, frames, pieces>>, \A k \in Client : gone[k] => gone'[k],
             \A k \in Client : disconnect'[k] => disconnect[k] \/ gone'[k]
      PROVE  ClosedInv'
  <2>1. Headed'  BY <1>1 DEF ClosedInv, Headed
  <2>2. ClosedForOwnReasons'
    <3> SUFFICES ASSUME Whole', NEW k \in Client, disconnect'[k], ~pieces'[k]
                 PROVE  gone'[k] \/ Brought(k)'
      BY DEF ClosedForOwnReasons, Brought
    <3>1. Whole  BY <1>1 DEF Whole
    <3>2. CASE gone'[k]  BY <3>2
    <3>3. CASE ~gone'[k]
      <4>1. disconnect[k] /\ ~pieces[k] /\ ~gone[k]  BY <1>1, <3>3
      <4>2. Brought(k)  BY <3>1, <4>1 DEF ClosedInv, ClosedForOwnReasons, Brought
      <4> QED  BY <1>1, <4>2, BroughtSame
    <3> QED  BY <3>2, <3>3
  <2> QED  BY <2>1, <2>2 DEF ClosedInv
<1>2. ASSUME NEW c \in Client, SendRequest(c) PROVE ClosedInv'
  <2>1. PICK sizes \in Shapes, close \in BOOLEAN :
          requests' = [requests EXCEPT ![c] =
                         Append(@, [size |-> Total(sizes), close |-> close])]
    BY <1>2 DEF SendRequest
  <2>2. UNCHANGED <<gone, disconnect, pieces>> /\ ~disconnect[c]  BY <1>2 DEF SendRequest
  <2> DEFINE asked == [size |-> Total(sizes), close |-> close]
  <2>3. asked \in Request /\ asked.size >= HeadSize
    <3>1. Len(sizes) \in Nat /\ sizes \in Seq(Size)  BY Sizes, LenProperties
    <3>2. Sums(sizes) \in [0..Len(sizes) -> Nat] /\ Len(sizes) \in 0..Len(sizes)
      BY <3>1, SumsFacts
    <3>3. Total(sizes) \in Nat  BY <3>2 DEF Total
    <3>4. Total(sizes) >= HeadSize  BY DEF HasHead
    <3> QED  BY <3>3, <3>4 DEF Request
  <2> HIDE DEF asked
  <2>4. requests' = [requests EXCEPT ![c] = Append(@, asked)]  BY <2>1 DEF asked
  <2>5. \A k \in Client \ {c} : requests'[k] = requests[k]  BY <1>0, <2>4
  <2>6. Headed'
    <3> SUFFICES ASSUME NEW k \in Client, NEW i \in 1..Len(requests'[k])
                 PROVE  requests'[k][i].size >= HeadSize
      BY DEF Headed
    <3>1. CASE k # c
      <4>1. requests'[k] = requests[k]  BY <2>5, <3>1
      <4> QED  BY <4>1 DEF ClosedInv, Headed
    <3>2. CASE k = c
      <4> DEFINE old == requests[c]
      <4>1. old \in Seq(Request) /\ Len(old) \in Nat  BY <1>0, LenProperties
      <4>2. requests'[c] = Append(old, asked)  BY <1>0, <2>4
      <4>3. \A j \in 1..Len(old) : old[j].size >= HeadSize  BY DEF ClosedInv, Headed
      <4> HIDE DEF old
      <4>4. /\ Len(Append(old, asked)) = Len(old) + 1
            /\ \A j \in 1..Len(old) : Append(old, asked)[j] = old[j]
            /\ Append(old, asked)[Len(old) + 1] = asked
        BY <2>3, <4>1, AppendProperties
      <4>5. i \in 1..Len(old) \/ i = Len(old) + 1  BY <3>2, <4>1, <4>2, <4>4
      <4>6. CASE i \in 1..Len(old)  BY <3>2, <4>2, <4>3, <4>4, <4>6
      <4>7. CASE i = Len(old) + 1  BY <2>3, <3>2, <4>2, <4>4, <4>7
      <4> QED  BY <4>5, <4>6, <4>7
    <3> QED  BY <3>1, <3>2
  <2>7. ClosedForOwnReasons'
    <3> SUFFICES ASSUME Whole', NEW k \in Client, disconnect'[k], ~pieces'[k]
                 PROVE  gone'[k] \/ Brought(k)'
      BY DEF ClosedForOwnReasons, Brought
    <3>1. k # c /\ Whole  BY <2>2 DEF Whole
    <3>2. requests'[k] = requests[k] /\ frames'[k] = frames[k]
      BY <1>0, <1>2, <2>5, <3>1 DEF SendRequest
    <3>3. gone[k] \/ Brought(k)
      BY <2>2, <3>1 DEF ClosedInv, ClosedForOwnReasons, Brought
    <3> QED  BY <2>2, <3>2, <3>3, BroughtSame
  <2> QED  BY <2>6, <2>7 DEF ClosedInv
<1>3. ASSUME NEW c \in Client, Leave(c) PROVE ClosedInv'
  <2>1. /\ gone' = [gone EXCEPT ![c] = TRUE]
        /\ UNCHANGED <<requests, frames, pieces, disconnect>>
    BY <1>3 DEF Leave
  <2>2. \A k \in Client : gone[k] => gone'[k]  BY <1>0, <2>1
  <2> QED  BY <1>1, <2>1, <2>2
<1>4. ASSUME NEW c \in Client, SendEvent(c) PROVE ClosedInv'  BY <1>1, <1>4 DEF SendEvent
<1>5. ASSUME NEW c \in Client, Process(c) PROVE ClosedInv'  BY <1>5, ClosedProcess
<1>6. ASSUME NEW c \in Client, ReadNothing(c) PROVE ClosedInv'
  <2>1. /\ disconnect' = [disconnect EXCEPT ![c] = gone[c]]
        /\ UNCHANGED <<requests, frames, pieces, gone>>
    BY <1>6 DEF ReadNothing
  <2>2. \A k \in Client : disconnect'[k] => disconnect[k] \/ gone'[k]  BY <1>0, <2>1
  <2> QED  BY <1>1, <2>1, <2>2
<1>7. CASE UNCHANGED framingVars  BY <1>1, <1>7 DEF framingVars
<1> QED  BY <1>2, <1>3, <1>4, <1>5, <1>6, <1>7, Zenon DEF FramingNext, ServerStep

(* As long as no read of an encrypted connection returned a part of a      *)
(* request, a connection whose own requests arrive in one piece ends only  *)
(* because its client left, asked for it, or sent an encrypted request in  *)
(* several frames, which are taken for one when they are read together,    *)
(* whatever the other connections do, when no request is shorter than its  *)
(* head (client_decrypt_(), the end of homekit_client_process()).          *)
THEOREM OwnReasons ==
  ASSUME HasHead
  PROVE  FramingSpec => []ClosedForOwnReasons
<1>1. ClosedInv => ClosedForOwnReasons  BY DEF ClosedInv
<1>2. TypesInv /\ AskedInv /\ ClosedInv /\ [FramingNext]_framingVars => ClosedInv'
  BY ClosedNext
<1> QED  BY TypesInit, TypesNext, AskedInit, AskedNext, ClosedInit, <1>1, <1>2, PTL DEF FramingSpec
=============================================================================
