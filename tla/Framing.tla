------------------------------ MODULE Framing ------------------------------
(***************************************************************************)
(* How bytes become requests and answers become bytes on the ESP8266:      *)
(* homekit_client_process() with its one buffer and one HTTP parser for    *)
(* all clients, client_decrypt_(), client_send_encrypted_() and write() of *)
(* arduino_homekit_server.cpp.                                             *)
(*                                                                         *)
(* The sizes are scaled and their relations kept: a frame carries at most  *)
(* MaxPlain (1024) bytes between a length of Header (2) and a tag of Tag   *)
(* (16), the buffer holds one full frame, and the decryption is offered    *)
(* Margin (2) bytes less than MaxPlain, at data + 2 of the same buffer.    *)
(* A byte is known by where it comes from: "cipher" byte b of frame a, or  *)
(* "plain" byte b of request a.  Ciphertext never reads as the start of a  *)
(* request; inside a body the parser takes any byte.                       *)
(***************************************************************************)
EXTENDS Integers, Sequences

CONSTANTS Client,       \* the connections
          Encrypted,    \* those whose pair verify is done
          Cut,          \* those whose bytes may arrive in pieces
          Shapes,       \* the frames a request may come in: sequences of sizes
          HeadSize,     \* length of a request line with its headers
          MaxPlain, Header, Tag, Margin,
          MaxRequests,  \* bound: requests per client
          MaxEvents,    \* bound: no event is sent after so many frames
          AnswerFrames  \* most frames of one answer

ASSUME FramingAssumption ==
    /\ "nobody" \notin Client /\ Encrypted \subseteq Client /\ Cut \subseteq Client
    /\ Shapes \subseteq Seq(1..MaxPlain)
    /\ \A n \in {HeadSize, MaxPlain, Header, Tag} : n \in Nat \ {0}
    /\ MaxRequests \in [Client -> Nat]
    /\ \A n \in {Margin, MaxEvents, AnswerFrames} : n \in Nat

VARIABLES requests,     \* per client: what it has sent
          frames,       \* per client: the frames it has sent, by nonce
          stream,       \* per client: the bytes still to be read
          gone,         \* per client: it closed the connection
          count_writes, \* per client: frames decrypted, the nonce of the next
          count_reads,  \* per client: frames encrypted
          error_write, disconnect,
          wire,         \* per client: the frames on the wire, whole or torn
          served,       \* per client: the requests handed to the handlers
          parser,       \* server->parser
          work,         \* the running homekit_client_process(), if any
          pieces        \* per client: a read has returned a part of a request

framingVars == <<requests, frames, stream, gone, count_writes, count_reads, error_write,
                 disconnect, wire, served, parser, work, pieces>>

Overhead == Header + Tag
Block == MaxPlain + Overhead
Lesser(m, n) == IF m < n THEN m ELSE n

-----------------------------------------------------------------------------
(* What a client puts on its connection.                                   *)

(* The sizes added up, after each of them and in all.                      *)
Sums(sizes) ==
    LET sum[n \in 0..Len(sizes)] == IF n = 0 THEN 0 ELSE sum[n - 1] + sizes[n]
    IN  sum
Total(sizes) == Sums(sizes)[Len(sizes)]

Byte(kind, a, b) == [kind |-> kind, a |-> a, b |-> b]

(* The frames that carry request r when it comes in parts of these sizes.  *)
FramesOf(r, sizes) == [i \in 1..Len(sizes) |->
    [request |-> r, from |-> Sums(sizes)[i - 1], size |-> sizes[i]]]

Plain(r, from, size) == [k \in 1..size |-> Byte("plain", r, from + k)]
Cipher(f, size) == [k \in 1..(size + Overhead) |-> Byte("cipher", f, k)]

(* Frames of these sizes, one behind the other, after f others.            *)
Sealed(f, sizes) ==
    LET sealed[n \in 0..Len(sizes)] ==
          IF n = 0 THEN <<>> ELSE sealed[n - 1] \o Cipher(f + n, sizes[n])
    IN  sealed[Len(sizes)]

Bytes(c, sizes) ==
    IF c \in Encrypted
    THEN Sealed(Len(frames[c]), sizes)
    ELSE Plain(Len(requests[c]) + 1, 0, Total(sizes))

(* A controller sends its next request when the last one was answered.     *)
SendRequest(c) ==
    /\ ~gone[c] /\ ~disconnect[c] /\ stream[c] = <<>>
    /\ Len(requests[c]) < MaxRequests[c] /\ Len(requests[c]) = Len(served[c])
    /\ \E sizes \in Shapes, close \in BOOLEAN :
          /\ stream' = [stream EXCEPT ![c] = Bytes(c, sizes)]
          /\ requests' = [requests EXCEPT ![c] =
                            Append(@, [size |-> Total(sizes), close |-> close])]
          /\ frames' = [frames EXCEPT ![c] = @ \o FramesOf(Len(requests[c]) + 1, sizes)]
    /\ UNCHANGED <<gone, count_writes, count_reads, error_write, disconnect, wire,
                   served, parser, work, pieces>>

Leave(c) ==
    /\ ~gone[c]
    /\ gone' = [gone EXCEPT ![c] = TRUE]
    /\ UNCHANGED <<requests, frames, stream, count_writes, count_reads, error_write, disconnect,
                   wire, served, parser, work, pieces>>

-----------------------------------------------------------------------------
(* client_decrypt_(): every whole chunk goes to the START of the output,   *)
(* and the size reported is the one computed from the length of the read.  *)

(* Negative, and so refused, when the last part is shorter than Overhead.  *)
TooShort(n) == n % Block \in 1..(Overhead - 1)
Required(n) == (n \div Block) * MaxPlain
               + IF n % Block > 0 THEN (n % Block) - Overhead ELSE 0
(* Mutant: the overhead is taken off a second time.                        *)
AcceptedLess(n) == ~TooShort(n) /\ Required(n) <= MaxPlain - Margin - Overhead
Accepted(n) == ~TooShort(n) /\ Required(n) <= MaxPlain - Margin

Overlaid(data, at, bytes) ==
    [i \in 1..Len(data) |-> IF i \in (at + 1)..(at + Len(bytes)) THEN bytes[i - at]
                                                                 ELSE data[i]]

(* Where a chunk starts that is not the head of a frame its length is      *)
(* anything: the rest is unfinished, or a chunk that does not authenticate *)
ChunkSizes(c, byte) == IF byte.kind = "cipher" /\ byte.b = 1
                       THEN {frames[c][byte.a].size} ELSE 0..(2 * MaxPlain)

(* A turn of the loop in the first n bytes of the buffer.                  *)
Turn(c, n, t) ==
    IF t.ended \/ t.r >= n THEN {t}
    ELSE UNION {
        IF size + Overhead > n - t.r THEN {[t EXCEPT !.ended = TRUE]}
        ELSE IF SubSeq(t.data, t.r + 1, t.r + size + Overhead) = Cipher(t.count + 1, size)
        THEN LET f == frames[c][t.count + 1] IN
             {[t EXCEPT !.r = @ + size + Overhead, !.count = @ + 1,
                        !.data = Overlaid(@, Header, Plain(f.request, f.from, size))]}
        ELSE {[t EXCEPT !.count = @ + 1, !.ended = TRUE, !.failed = TRUE]}
        : size \in ChunkSizes(c, t.data[t.r + 1])}

(* Its outcomes: a turn that goes on takes more than one byte.             *)
Decrypts(c, data, n) ==
    LET turns[k \in 0..n] ==
          IF k = 0 THEN {[r |-> 0, data |-> data, count |-> count_writes[c],
                          ended |-> FALSE, failed |-> FALSE]}
          ELSE UNION {Turn(c, n, t) : t \in turns[k - 1]}
    IN  turns[n]

-----------------------------------------------------------------------------
(* server->parser: the head must be right byte by byte, the body is        *)
(* counted.  http_parser_init() forgets everything.                        *)

FreshParser == [state |-> "start", owner |-> "nobody", request |-> 0, at |-> 0,
                pure |-> TRUE, version |-> FALSE, close |-> FALSE, completed |-> <<>>]

(* The parser with the bytes read before these: a first byte starts one.   *)
Started(p, c, byte) ==
    IF p.state = "start" /\ byte.kind = "plain" /\ byte.b = 1
    THEN [FreshParser EXCEPT !.state = "mid", !.owner = c, !.request = byte.a,
                             !.version = p.version]
    ELSE p

(* http_parser_execute().  A dead parser takes nothing; no byte at all in  *)
(* the middle of a request is its end; what follows a request kills.       *)
Execute(p, c, payload) ==
    IF p.state = "dead" THEN p
    ELSE IF payload = <<>> THEN [p EXCEPT !.state = IF @ = "mid" THEN "dead" ELSE @]
    ELSE LET q == Started(p, c, payload[1]) IN
    IF q.state # "mid" THEN [q EXCEPT !.state = "dead"]
    ELSE LET asked == requests[q.owner][q.request]
             taken == Lesser(asked.size - q.at, Len(payload))
             wrong == {k \in 1..taken : \/ q.owner # c
                                       \/ payload[k] # Byte("plain", q.request, q.at + k)}
             at == q.at + taken
             next == [q EXCEPT !.at = at, !.pure = @ /\ wrong = {},
                               !.version = @ \/ at >= HeadSize,
                               !.close = asked.close /\ at >= HeadSize]
         IN  IF \E k \in wrong : q.at + k <= HeadSize THEN [q EXCEPT !.state = "dead"]
             ELSE IF at < asked.size THEN next
             ELSE [next EXCEPT
                    !.state = IF next.close \/ taken < Len(payload) THEN "dead" ELSE "start",
                    !.completed = <<[request |-> q.request, pure |-> next.pure]>>]

KeepAlive(p) == p.version /\ ~p.close

-----------------------------------------------------------------------------
(* Mutant: the result of write() is not looked at.                         *)
EveryFrame(error, n, torn) == n

(* write(): after a short write, that of frame torn of these or one of     *)
(* before, nothing is written.                                             *)
Kept(error, n, torn) == IF error THEN 0 ELSE IF torn = 0 THEN n ELSE torn

(* client_send_encrypted_() on n frames.  The nonce advances whatever      *)
(* becomes of the frames; a client being disconnected is sent nothing.     *)
Send(c, n, torn) ==
    LET error == error_write[c] \/ disconnect[c] IN
    /\ count_reads' = [count_reads EXCEPT ![c] = @ + n]
    /\ error_write' = [error_write EXCEPT ![c] = error \/ torn > 0]
    /\ wire' = [wire EXCEPT ![c] = @ \o [i \in 1..Kept(error, n, torn) |->
                    [nonce |-> count_reads[c] + i - 1, whole |-> i # torn]]]

(* An event for a client, or anything else sent outside an answer.         *)
SendEvent(c) ==
    /\ work.client = "nobody" /\ c \in Encrypted /\ count_reads[c] < MaxEvents
    /\ \E torn \in 0..1 : Send(c, 1, torn)
    /\ UNCHANGED <<requests, frames, stream, gone, count_writes, disconnect, served, parser,
                   work, pieces>>

-----------------------------------------------------------------------------
(* homekit_client_process(): one turn of its loop for each read.           *)

NoWork == [client |-> "nobody", data |-> <<>>, available |-> 0]

(* Mutant: the call goes on where it should return.                        *)
GoesOn == UNCHANGED work

(* An early return: the parser stays as it is.                             *)
Returned == work' = NoWork

(* Mutant: the parser is not made anew.                                    *)
KeepsParser(c, p) ==
    /\ disconnect' = [disconnect EXCEPT ![c] = @ \/ ~KeepAlive(p)]
    /\ parser' = [p EXCEPT !.completed = <<>>]
    /\ work' = NoWork

(* The call ends: an answer that is not kept alive, a parser made anew.    *)
EndOfCall(c, p) ==
    /\ disconnect' = [disconnect EXCEPT ![c] = @ \/ ~KeepAlive(p)]
    /\ parser' = FreshParser
    /\ work' = NoWork

Parse(c, payload, data, available) ==
    \E p \in {Execute(parser, c, payload)} :
        /\ served' = [served EXCEPT ![c] = @ \o p.completed]
        /\ IF p.completed # <<>> /\ c \in Encrypted
           THEN \E n \in 1..AnswerFrames : \E torn \in 0..n : Send(c, n, torn)
           ELSE UNCHANGED <<count_reads, error_write, wire>>
        /\ IF available > 0 /\ p.completed = <<>>
           THEN /\ work' = [client |-> c, data |-> data, available |-> available]
                /\ parser' = p
                /\ UNCHANGED disconnect
           ELSE EndOfCall(c, p)

(* "Invalid client data".                                                  *)
Refused ==
    /\ Returned
    /\ UNCHANGED <<served, count_reads, error_write, wire, disconnect, parser>>

Decrypted(c, data, n) ==
    IF ~Accepted(n) THEN Refused /\ UNCHANGED count_writes
    ELSE \E d \in Decrypts(c, data, n) :
        /\ count_writes' = [count_writes EXCEPT ![c] = d.count]
        /\ IF d.failed THEN Refused
           ELSE \E moved \in {IF d.r > 0
                             THEN Overlaid(d.data, 0, SubSeq(d.data, d.r + 1, n))
                             ELSE d.data} :
                \E payload \in {SubSeq(moved, Header + 1, Header + Required(n))} :
                    Parse(c, payload, moved, n - d.r)

(* A read of n bytes, appended to the available ones; the bytes then       *)
(* decrypted are the FIRST n of the buffer.                                *)
Read(c, n) ==
    /\ stream' = [stream EXCEPT ![c] = SubSeq(@, n + 1, Len(@))]
    /\ pieces' = [pieces EXCEPT ![c] = @ \/ n < Len(stream[c])]
    /\ \E data \in {SubSeq(work.data, 1, work.available) \o SubSeq(stream[c], 1, n)} :
          IF c \in Encrypted
          THEN Decrypted(c, data, n)
          ELSE Parse(c, data, <<>>, 0) /\ UNCHANGED count_writes

Readable(c) == Lesser(Block - work.available, Len(stream[c]))

Process(c) ==
    /\ work.client \in {"nobody", c} /\ ~disconnect[c]
    /\ \E n \in 1..Readable(c) :
          /\ c \in Cut \/ n = Readable(c)
          /\ Read(c, n)
    /\ UNCHANGED <<requests, frames, gone>>

(* Nothing to read, or no room left for it: the call returns.  The parser  *)
(* stays as it is.                                                         *)
ReadNothing(c) ==
    /\ ~disconnect[c]
    /\ \/ work.client = c /\ (c \in Cut \/ Readable(c) = 0)
       \/ work.client = "nobody" /\ stream[c] = <<>> /\ gone[c]
    /\ disconnect' = [disconnect EXCEPT ![c] = gone[c]]
    /\ Returned
    /\ UNCHANGED <<requests, frames, stream, gone, count_writes, count_reads, error_write,
                   wire, served, parser, pieces>>

-----------------------------------------------------------------------------
FramingInit ==
    /\ requests = [c \in Client |-> <<>>]
    /\ frames = [c \in Client |-> <<>>]
    /\ stream = [c \in Client |-> <<>>]
    /\ gone = [c \in Client |-> FALSE]
    /\ count_writes = [c \in Client |-> 0]
    /\ count_reads = [c \in Client |-> 0]
    /\ error_write = [c \in Client |-> FALSE]
    /\ disconnect = [c \in Client |-> FALSE]
    /\ wire = [c \in Client |-> <<>>]
    /\ served = [c \in Client |-> <<>>]
    /\ parser = FreshParser
    /\ work = NoWork
    /\ pieces = [c \in Client |-> FALSE]

(* Mutant: a client with nothing to read is passed over.                  *)
ProcessOnly(c) == Process(c)
ServerStep(c) == Process(c) \/ ReadNothing(c)

FramingNext == \E c \in Client : SendRequest(c) \/ Leave(c) \/ SendEvent(c) \/ ServerStep(c)

FramingSpec == FramingInit /\ [][FramingNext]_framingVars

(* The main loop processes every client of the list on every pass.         *)
FramingFairSpec == FramingSpec /\ \A c \in Client : SF_framingVars(ServerStep(c))

-----------------------------------------------------------------------------
FramingTypeOK ==
    /\ \A c \in Client :
          /\ count_writes[c] \in Nat
          /\ count_reads[c] \in 0..(MaxEvents + Len(served[c]) * AnswerFrames)
          /\ \A i \in 1..Len(stream[c]) :
                stream[c][i].kind = "cipher" => stream[c][i].a \in 1..Len(frames[c])
    /\ work.client \in Client \cup {"nobody"}
    /\ work.client # "nobody" => /\ ~disconnect[work.client]
                                 /\ work.available \in 1..Block
                                 /\ Len(work.data) <= Block

(* No read of an encrypted connection has returned a part of a request.    *)
Whole == \A c \in Encrypted : ~pieces[c]

(* What is handed to the handlers is what the client asked: every byte of  *)
(* it, in order, once, and nothing of another client's request, however    *)
(* the bytes of the connections without encryption arrive                  *)
(* (homekit_client_process() and the parser all clients share).            *)
ServedAsAsked ==
    Whole => \A c \in Client : \A i \in 1..Len(served[c]) :
                served[c][i] = [request |-> i, pure |-> TRUE]

(* Frames of one connection reach the wire with consecutive nonces, and    *)
(* after one that was cut short by the socket nothing follows: the         *)
(* controller could not tell where it starts (write()).                    *)
WireInOrder ==
    \A c \in Client : \A i \in 1..Len(wire[c]) :
        wire[c][i].nonce = i - 1 /\ (wire[c][i].whole \/ i = Len(wire[c]))

(* A connection whose requests arrive in one piece is closed only because  *)
(* its client left or asked for it: "Connection: close received, client    *)
(* will be disconnected" (the end of homekit_client_process()).            *)
ClosedWhenAsked ==
    \A c \in Client : disconnect[c] /\ ~pieces[c] =>
        gone[c] \/ \E i \in 1..Len(requests[c]) : requests[c][i].close

(* An encrypted request in more than one frame: of frames that are read    *)
(* together each is decrypted over the one before.                         *)
InFrames(c, i) ==
    c \in Encrypted /\ \E f, g \in 1..Len(frames[c]) :
        f < g /\ frames[c][f].request = i /\ frames[c][g].request = i

(* Without pieces of encrypted requests no connection ends for what        *)
(* happens on another one, whatever the requests in the clear are cut      *)
(* into: its client left, asked for it, or sent an encrypted request in    *)
(* several frames that were read together.                                 *)
ClosedForOwnReasons ==
    Whole => \A c \in Client : disconnect[c] /\ ~pieces[c] =>
        gone[c] \/ \E i \in 1..Len(requests[c]) : requests[c][i].close \/ InFrames(c, i)

(* Frames with more bytes than the margin leaves room for, 1023 and 1024   *)
(* of them, are refused (client_decrypt_() returns -2).                    *)
Decryptable(c, i) ==
    ~InFrames(c, i) /\ (c \in Encrypted => requests[c][i].size <= MaxPlain - Margin)

(* A request that arrives in one piece, and an encrypted one besides in    *)
(* one frame that leaves room for the margin, is handed to its handler,    *)
(* whatever the other clients do (the main loop's call per client).        *)
ServedInTheEnd ==
    \A c \in Client :
        (Len(served[c]) < Len(requests[c]) /\ Decryptable(c, Len(requests[c])))
            ~> (Len(served[c]) = Len(requests[c]) \/ pieces[c] \/ gone[c] \/ ~Whole)

(* A client that left is noticed, whatever it sent before and in whatever  *)
(* state it left the buffer and the parser (homekit_client_process()).     *)
LeftIsNoticed == \A c \in Client : gone[c] ~> disconnect[c]
=============================================================================
