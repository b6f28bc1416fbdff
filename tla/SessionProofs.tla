---------------------------- MODULE SessionProofs ----------------------------
(***************************************************************************)
(* What pgvictoria-cli's session promises, for every number of rows, every *)
(* set of methods and every place at which a reply may be cut: the client  *)
(* queries only a server that has accepted it, returns the rows the server *)
(* answered, fails only for a reason, and reads nothing it did not receive *)
(* unless the server ends.                                                 *)
(*                                                                         *)
(* Whole is what the client relies on and does not check: that what the    *)
(* server says until it is ready comes whole in one read, and so do the    *)
(* type and the length of an error and every ReadyForQuery.                *)
(***************************************************************************)
EXTENDS Session, SequenceFacts

-----------------------------------------------------------------------------
(* The bytes of messages *)

Message == [k : Kinds, n : Nat, q : 0 .. 2]
Unit == [m : Message, part : Parts]

UnitAt(ms, j) == [m |-> ms[1 + ((j - 1) \div 3)], part |-> Units[1 + ((j - 1) % 3)]]

\* The bytes of messages are three units for each, and each unit is one of these.
LEMMA BytesUnits ==
  ASSUME NEW S, NEW ms \in Seq(S)
  PROVE  /\ Len(Bytes(ms)) = 3 * Len(ms)
         /\ \A j \in 1 .. 3 * Len(ms) : Bytes(ms)[j] = UnitAt(ms, j)
         /\ Bytes(ms) \in Seq([m : S, part : Parts])
<1> DEFINE b == [j \in 1 .. 3 * Len(ms) |-> UnitAt(ms, j)]
<1>1. Bytes(ms) = b
  BY Zenon DEF Bytes, UnitAt
<1>2. 3 * Len(ms) \in Nat /\ Len(ms) \in Nat
  OBVIOUS
<1>3. \A j \in 1 .. 3 * Len(ms) : UnitAt(ms, j) \in [m : S, part : Parts]
  <2> TAKE j \in 1 .. 3 * Len(ms)
  <2>1. 1 + ((j - 1) \div 3) \in 1 .. Len(ms)
    BY <1>2
  <2>2. ms[1 + ((j - 1) \div 3)] \in S
    BY <2>1
  <2>3. 1 + ((j - 1) % 3) \in {1, 2, 3}
    OBVIOUS
  <2>4. \A i \in {1, 2, 3} : Units[i] \in Parts
    BY DEF Units, Parts
  <2> QED
    BY <2>2, <2>3, <2>4 DEF UnitAt
<1>4. b \in Seq([m : S, part : Parts]) /\ Len(b) = 3 * Len(ms)
  BY <1>2, <1>3
<1>5. \A j \in 1 .. 3 * Len(ms) : b[j] = UnitAt(ms, j)
  OBVIOUS
<1> QED
  BY <1>1, <1>4, <1>5

\* Message i is at 3 * i - 2, 3 * i - 1 and 3 * i, and nothing else is there.
LEMMA BytesAt ==
  ASSUME NEW S, NEW ms \in Seq(S)
  PROVE  /\ \A i \in 1 .. Len(ms) :
              /\ Bytes(ms)[3 * i - 2] = [m |-> ms[i], part |-> "type"]
              /\ Bytes(ms)[3 * i - 1] = [m |-> ms[i], part |-> "len"]
              /\ Bytes(ms)[3 * i] = [m |-> ms[i], part |-> "body"]
         /\ \A j \in 1 .. 3 * Len(ms) : \E i \in 1 .. Len(ms) : j \in {3 * i - 2, 3 * i - 1, 3 * i}
<1>0. Len(ms) \in Nat
  OBVIOUS
<1>1. ASSUME NEW i \in 1 .. Len(ms)
      PROVE  /\ Bytes(ms)[3 * i - 2] = [m |-> ms[i], part |-> "type"]
             /\ Bytes(ms)[3 * i - 1] = [m |-> ms[i], part |-> "len"]
             /\ Bytes(ms)[3 * i] = [m |-> ms[i], part |-> "body"]
  <2>1. {3 * i - 2, 3 * i - 1, 3 * i} \subseteq 1 .. 3 * Len(ms)
    BY <1>0
  <2>2. Units[1] = "type" /\ Units[2] = "len" /\ Units[3] = "body"
    BY DEF Units
  <2>3. UnitAt(ms, 3 * i - 2) = [m |-> ms[i], part |-> "type"]
    <3>1. 1 + ((3 * i - 2 - 1) \div 3) = i /\ 1 + ((3 * i - 2 - 1) % 3) = 1
      OBVIOUS
    <3> QED
      BY <2>2, <3>1 DEF UnitAt
  <2>4. UnitAt(ms, 3 * i - 1) = [m |-> ms[i], part |-> "len"]
    <3>1. 1 + ((3 * i - 1 - 1) \div 3) = i /\ 1 + ((3 * i - 1 - 1) % 3) = 2
      OBVIOUS
    <3> QED
      BY <2>2, <3>1 DEF UnitAt
  <2>5. UnitAt(ms, 3 * i) = [m |-> ms[i], part |-> "body"]
    <3>1. 1 + ((3 * i - 1) \div 3) = i /\ 1 + ((3 * i - 1) % 3) = 3
      OBVIOUS
    <3> QED
      BY <2>2, <3>1 DEF UnitAt
  <2> QED
    BY <2>1, <2>3, <2>4, <2>5, BytesUnits
<1>2. ASSUME NEW j \in 1 .. 3 * Len(ms)
      PROVE  \E i \in 1 .. Len(ms) : j \in {3 * i - 2, 3 * i - 1, 3 * i}
  <2>1. /\ 1 + ((j - 1) \div 3) \in 1 .. Len(ms)
        /\ j \in {3 * (1 + ((j - 1) \div 3)) - 2, 3 * (1 + ((j - 1) \div 3)) - 1,
                  3 * (1 + ((j - 1) \div 3))}
    BY <1>0
  <2> QED
    BY <2>1
<1> QED
  BY <1>1, <1>2

\* No messages have no bytes.
LEMMA BytesEmpty == Bytes(<<>>) = <<>>
<1> DEFINE none == <<>>
<1>1. none \in Seq({}) /\ Len(none) = 0
  OBVIOUS
<1> HIDE DEF none
<1>2. Bytes(none) \in Seq([m : {}, part : Parts]) /\ Len(Bytes(none)) = 3 * Len(none)
  BY <1>1, BytesUnits, Zenon
<1> QED
  BY <1>1, <1>2, EmptySeq DEF none

\* The bytes of one more message are written behind those of the others.
LEMMA BytesAppend ==
  ASSUME NEW S, NEW ms \in Seq(S), NEW m \in S
  PROVE  Bytes(ms) \o Bytes(<<m>>) = Bytes(Append(ms, m))
<1> DEFINE U == [m : S, part : Parts]
           one == <<m>>
           more == Append(ms, m)
           a == Bytes(ms)
           b == Bytes(one)
           c == Bytes(more)
           L == Len(ms)
<1>0. /\ L \in Nat /\ one \in Seq(S) /\ more \in Seq(S)
      /\ Len(one) = 1 /\ Len(more) = L + 1 /\ one[1] = m /\ more[L + 1] = m
      /\ \A i \in 1 .. L : more[i] = ms[i]
  OBVIOUS
<1> HIDE DEF one, more
<1>1. a \in Seq(U) /\ Len(a) = 3 * L
  BY BytesUnits
<1>2. b \in Seq(U) /\ Len(b) = 3
  <2>1. b \in Seq(U) /\ Len(b) = 3 * Len(one)
    BY <1>0, BytesUnits, Zenon
  <2> QED
    BY <1>0, <2>1
<1>3. c \in Seq(U) /\ Len(c) = 3 * L + 3
  <2>1. c \in Seq(U) /\ Len(c) = 3 * Len(more)
    BY <1>0, BytesUnits, Zenon
  <2> QED
    BY <1>0, <2>1
<1>4. \A i \in 1 .. L : /\ a[3 * i - 2] = c[3 * i - 2]
                        /\ a[3 * i - 1] = c[3 * i - 1] /\ a[3 * i] = c[3 * i]
  <2> TAKE i \in 1 .. L
  <2>1. i \in 1 .. Len(more)
    BY <1>0
  <2>2. /\ c[3 * i - 2] = [m |-> more[i], part |-> "type"]
        /\ c[3 * i - 1] = [m |-> more[i], part |-> "len"]
        /\ c[3 * i] = [m |-> more[i], part |-> "body"]
    BY <1>0, <2>1, BytesAt
  <2>3. more[i] = ms[i]
    BY <1>0
  <2> QED
    BY <2>2, <2>3, BytesAt
<1>5. /\ b[1] = [m |-> m, part |-> "type"] /\ b[2] = [m |-> m, part |-> "len"]
      /\ b[3] = [m |-> m, part |-> "body"]
  <2>1. 3 * 1 - 2 = 1 /\ 3 * 1 - 1 = 2 /\ 3 * 1 = 3 /\ 1 \in 1 .. Len(one)
    BY <1>0
  <2>2. /\ b[3 * 1 - 2] = [m |-> one[1], part |-> "type"]
        /\ b[3 * 1 - 1] = [m |-> one[1], part |-> "len"]
        /\ b[3 * 1] = [m |-> one[1], part |-> "body"]
    BY <1>0, <2>1, BytesAt
  <2> QED
    BY <1>0, <2>1, <2>2
<1>6. /\ c[3 * L + 1] = [m |-> m, part |-> "type"] /\ c[3 * L + 2] = [m |-> m, part |-> "len"]
      /\ c[3 * L + 3] = [m |-> m, part |-> "body"]
  <2>1. /\ 3 * (L + 1) - 2 = 3 * L + 1 /\ 3 * (L + 1) - 1 = 3 * L + 2
        /\ 3 * (L + 1) = 3 * L + 3 /\ L + 1 \in 1 .. Len(more)
    BY <1>0
  <2>2. /\ c[3 * (L + 1) - 2] = [m |-> more[L + 1], part |-> "type"]
        /\ c[3 * (L + 1) - 1] = [m |-> more[L + 1], part |-> "len"]
        /\ c[3 * (L + 1)] = [m |-> more[L + 1], part |-> "body"]
    BY <1>0, <2>1, BytesAt
  <2> QED
    BY <1>0, <2>1, <2>2
<1>7. \A j \in 1 .. 3 * L : \E i \in 1 .. L : j \in {3 * i - 2, 3 * i - 1, 3 * i}
  BY BytesAt
<1>8. L \in Nat
  BY <1>0
<1> HIDE DEF U, a, b, c, L
<1>9. \A j \in 1 .. 3 * L : a[j] = c[j]
  BY <1>4, <1>7
<1>10. /\ a \o b \in Seq(U) /\ Len(a \o b) = 3 * L + 3
       /\ \A j \in 1 .. 3 * L + 3 : (a \o b)[j] = IF j <= 3 * L THEN a[j] ELSE b[j - 3 * L]
  <2>1. /\ a \o b \in Seq(U) /\ Len(a \o b) = Len(a) + Len(b)
        /\ \A j \in 1 .. Len(a) + Len(b) :
             (a \o b)[j] = IF j <= Len(a) THEN a[j] ELSE b[j - Len(a)]
    BY <1>1, <1>2, ConcatProperties, Zenon
  <2> QED
    BY <1>1, <1>2, <2>1
<1>11. ASSUME NEW j \in 1 .. 3 * L + 3 PROVE (a \o b)[j] = c[j]
  <2>1. CASE j \in 1 .. 3 * L
    BY <1>8, <1>9, <1>10, <2>1
  <2>2. CASE j \in 3 * L + 1 .. 3 * L + 3
    <3>1. (a \o b)[j] = b[j - 3 * L] /\ j - 3 * L \in {1, 2, 3}
      BY <1>8, <1>10, <2>2
    <3>2. c[j] = b[j - 3 * L]
      BY <1>5, <1>6, <1>8, <2>2
    <3> QED
      BY <3>1, <3>2
  <2>3. j \in 1 .. 3 * L \/ j \in 3 * L + 1 .. 3 * L + 3
    BY <1>8
  <2> QED
    BY <2>1, <2>2, <2>3
<1>12. a \o b = c
  BY <1>3, <1>10, <1>11, SeqEqual
<1> QED
  BY <1>12 DEF a, b, c, one, more

-----------------------------------------------------------------------------
(* What one read of a burst returns *)

Whole ==
  \A c \in Cuts : c[1] \notin {"R", "S", "K", "Z"} /\ c[2] # "type" /\ c # <<"E", "len">>

Auth(t) == Msg("R", t, 0)
Error(i) == Msg("E", 0, i)
Greeting == <<Auth(0), Msg("S", 0, 0), Msg("K", 0, 0), Msg("Z", 0, 0)>>

\* s is the messages ms, behind which a server that has ended may have said so.
Said(s, ms) ==
  \/ s = Bytes(ms)
  \/ server.at = "ended" /\ \E i \in 0 .. 2 : s = Bytes(Append(ms, Error(i)))

Handshake == {"R", "S", "K", "Z"}

\* The bytes of messages, counted.
LEMMA BytesType ==
  \A ms \in Seq(Message) :
    Bytes(ms) \in Seq(Unit) /\ Len(Bytes(ms)) = 3 * Len(ms) /\ Len(ms) \in Nat
<1> TAKE ms \in Seq(Message)
<1>1. Bytes(ms) \in Seq(Unit) /\ Len(Bytes(ms)) = 3 * Len(ms)
  BY BytesUnits, Zenon DEF Unit
<1> QED
  BY <1>1

\* The first unit.
LEMMA FirstUnit ==
  \A ms \in Seq(Message) : Len(ms) # 0 =>
    1 \in DOMAIN Bytes(ms) /\ Bytes(ms)[1] = [m |-> ms[1], part |-> "type"]
<1> TAKE ms \in Seq(Message)
<1> HAVE Len(ms) # 0
<1>1. 3 * 1 - 2 = 1 /\ 1 \in 1 .. Len(ms) /\ 1 \in 1 .. 3 * Len(ms)
  OBVIOUS
<1>2. 1 \in DOMAIN Bytes(ms)
  BY <1>1, BytesType
<1> QED
  BY <1>1, <1>2, BytesAt, ZenonT(30)

\* Every unit is of one of the messages.
LEMMA UnitsOf ==
  \A ms \in Seq(Message) : \A j \in DOMAIN Bytes(ms) :
    \E i \in 1 .. Len(ms) : Bytes(ms)[j].m = ms[i]
<1> TAKE ms \in Seq(Message)
<1> TAKE j \in DOMAIN Bytes(ms)
<1>1. Len(ms) \in Nat /\ DOMAIN Bytes(ms) = 1 .. 3 * Len(ms)
  BY BytesType
<1>2. PICK i \in 1 .. Len(ms) : j \in {3 * i - 2, 3 * i - 1, 3 * i}
  BY <1>1, BytesAt
<1>3. /\ Bytes(ms)[3 * i - 2] = [m |-> ms[i], part |-> "type"]
      /\ Bytes(ms)[3 * i - 1] = [m |-> ms[i], part |-> "len"]
      /\ Bytes(ms)[3 * i] = [m |-> ms[i], part |-> "body"]
  BY BytesAt
<1>4. \E part : Bytes(ms)[j] = [m |-> ms[i], part |-> part]
  BY <1>2, <1>3
<1> QED
  BY <1>4

\* A read of what the server says until it is ready returns all of it.
LEMMA WholeChunk ==
  ASSUME Whole, NEW hs \in Seq(Message), net = Bytes(hs), NEW n, Chunk(n),
         \A i \in 1 .. Len(hs) : hs[i].k \in Handshake \union {"E"},
         \A i \in 1 .. Len(hs) - 1 : hs[i].k \in Handshake
  PROVE  n = Len(net) /\ Received(n) = net /\ net' = <<>>
<1>0. Len(hs) \in Nat /\ Len(net) = 3 * Len(hs) /\ net \in Seq(Unit)
  BY BytesType
<1>1. n \in 1 .. Len(net) /\ net' = SubSeq(net, n + 1, Len(net))
  BY DEF Chunk
<1>2. ASSUME n < Len(net) PROVE FALSE
  <2>1. <<net[n].m.k, net[n].part>> \in Cuts
    BY <1>2 DEF Chunk
  <2>2. PICK i \in 1 .. Len(hs) : n \in {3 * i - 2, 3 * i - 1, 3 * i}
    BY <1>0, <1>1, BytesAt
  <2>3. /\ n = 3 * i - 2 => net[n] = [m |-> hs[i], part |-> "type"]
        /\ n = 3 * i - 1 => net[n] = [m |-> hs[i], part |-> "len"]
        /\ n = 3 * i => net[n] = [m |-> hs[i], part |-> "body"]
    BY <2>2, BytesAt
  <2>4. hs[i].k \notin Handshake
    BY <2>1, <2>2, <2>3 DEF Whole, Handshake
  <2>5. i = Len(hs) /\ hs[i].k = "E"
    BY <1>0, <2>2, <2>4
  <2>6. n # 3 * i
    BY <1>0, <1>2, <2>5
  <2> QED
    BY <2>1, <2>2, <2>3, <2>5, <2>6 DEF Whole
<1>3. n = Len(net)
  <2>1. Len(net) \in Nat
    BY <1>0
  <2> QED
    BY <1>1, <1>2, <2>1
<1> QED
  BY <1>0, <1>1, <1>3 DEF Received

\* The messages of the authentication are messages.
LEMMA Messages ==
  /\ \A t \in Nat : Auth(t) \in Message /\ Auth(t).k = "R" /\ Auth(t).n = t
  /\ \A i \in 0 .. 2 : Error(i) \in Message /\ Error(i).k = "E"
  /\ \A k \in Kinds : \A i \in 0 .. 2 : Msg(k, 0, i) \in Message /\ Msg(k, 0, i).k = k
BY DEF Auth, Error, Msg, Message, Kinds

\* The messages hs, which a read returned in n bytes: ms, and perhaps an error behind it.
Hearing(ms, hs, n) ==
  /\ net = Bytes(hs) /\ Received(n) = Bytes(hs) /\ net' = <<>>
  /\ Len(hs) \in Nat \ {0} /\ n = 3 * Len(hs)
  /\ Len(hs) >= Len(ms) /\ \A i \in 1 .. Len(ms) : hs[i] = ms[i]
  /\ ms = <<>> => hs[1].k = "E"
  /\ \A i \in 1 .. Len(hs) : hs[i].k = "R" => i \in 1 .. Len(ms)

\* What a read of a burst of the authentication returns.
LEMMA Hears ==
  ASSUME Whole, NEW ms \in Seq(Message), Said(net, ms), NEW n, Chunk(n),
         \A i \in 1 .. Len(ms) : ms[i].k \in Handshake
  PROVE  \E hs \in Seq(Message) : Hearing(ms, hs, n)
<1>0. n \in 1 .. Len(net)
  BY DEF Chunk
<1>1. CASE net = Bytes(ms)
  <2>1. n = Len(net) /\ Received(n) = net /\ net' = <<>>
    BY <1>1, WholeChunk
  <2>2. Len(net) = 3 * Len(ms) /\ Len(ms) \in Nat
    BY <1>1, BytesType
  <2>3. Len(ms) # 0 /\ ms # <<>>
    BY <1>0, <2>2
  <2> QED
    BY <1>1, <2>1, <2>2, <2>3 DEF Hearing
<1>2. CASE \E i \in 0 .. 2 : server.at = "ended" /\ net = Bytes(Append(ms, Error(i)))
  <2>1. PICK i \in 0 .. 2 : server.at = "ended" /\ net = Bytes(Append(ms, Error(i)))
    BY <1>2
  <2> DEFINE hs == Append(ms, Error(i))
  <2>2. Error(i) \in Message /\ Error(i).k = "E"
    BY Messages
  <2>3. /\ hs \in Seq(Message) /\ Len(hs) = Len(ms) + 1 /\ Len(ms) \in Nat
        /\ hs[Len(ms) + 1] = Error(i) /\ \A j \in 1 .. Len(ms) : hs[j] = ms[j]
    BY <2>2
  <2> HIDE DEF hs
  <2>4. /\ \A j \in 1 .. Len(hs) : hs[j].k \in Handshake \union {"E"}
        /\ \A j \in 1 .. Len(hs) - 1 : hs[j].k \in Handshake
    <3>1. \A j \in 1 .. Len(ms) : hs[j].k \in Handshake
      BY <2>3
    <3>2. hs[Len(ms) + 1].k = "E"
      BY <2>2, <2>3
    <3> QED
      BY <2>3, <3>1, <3>2
  <2>5. net = Bytes(hs)
    BY <2>1 DEF hs
  <2>6. n = Len(net) /\ Received(n) = net /\ net' = <<>>
    BY <2>3, <2>4, <2>5, WholeChunk
  <2>7. Len(net) = 3 * Len(hs)
    BY <2>3, <2>5, BytesType
  <2>8. \A j \in 1 .. Len(hs) : hs[j].k = "R" => j \in 1 .. Len(ms)
    BY <2>2, <2>3
  <2>9. ms = <<>> => hs[1].k = "E"
    BY <2>2, <2>3
  <2>10. Len(hs) \in Nat \ {0} /\ Len(hs) >= Len(ms)
    BY <2>3
  <2>11. Received(n) = Bytes(hs) /\ n = 3 * Len(hs)
    BY <2>5, <2>6, <2>7
  <2> QED
    BY <2>1, <2>3, <2>5, <2>6, <2>8, <2>9, <2>10, <2>11 DEF Hearing
<1> QED
  BY <1>1, <1>2 DEF Said

\* get_auth_type, for a read that returned whole messages.
LEMMA TypesOf ==
  ASSUME NEW hs \in Seq(Message), Len(hs) # 0
  PROVE  /\ hs[1].k # "R" => AuthTypes(Bytes(hs)) = {-1}
         /\ hs[1].k = "R" /\ hs[1].n # 0 => AuthTypes(Bytes(hs)) = {hs[1].n}
         /\ hs[1].k = "R" /\ hs[1].n = 0 /\ Len(hs) > 1 =>
              AuthTypes(Bytes(hs)) = IF hs[2].k = "E" THEN {-1} ELSE {0}
<1>1. Len(hs) \in Nat /\ Len(Bytes(hs)) = 3 * Len(hs)
  BY BytesType
<1>2. Bytes(hs)[1] = [m |-> hs[1], part |-> "type"]
  BY FirstUnit
<1>3. Len(hs) > 1 => Bytes(hs)[4] = [m |-> hs[2], part |-> "type"]
  <2>1. 3 * 2 - 2 = 4 /\ (Len(hs) > 1 => 2 \in 1 .. Len(hs))
    BY <1>1
  <2> QED
    BY <2>1, BytesAt, ZenonT(30)
<1> QED
  BY <1>1, <1>2, <1>3 DEF AuthTypes

-----------------------------------------------------------------------------
(* The invariant: where the client is, what can be unread before it *)

Outcome == [is : {"unread", "failed", "rows", "command"}, rows : Seq(Message)]

TypeInv ==
  /\ pc \in {"connect", "startup", "password", "sasl", "proof",
             "query", "reply", "rows"} \union Ended
  /\ q \in 1 .. 2
  /\ data \in Seq(Unit) /\ net \in Seq(Unit)
  /\ result \in [1 .. 2 -> Outcome] /\ answer \in [1 .. 2 -> Outcome]
  /\ \A i \in 1 .. 2 : answer[i] # Command
  /\ closed \in BOOLEAN /\ (closed <=> server.at \in {"refused", "revoked", "ended"})
  /\ server \in [method : Methods, good : BOOLEAN,
                 at : {"listening", "asked", "ready", "refused", "revoked", "ended"}]
  /\ request \in {"none", "startup", "password", "sasl", "proof", "query"}

Accepted == server.method = "trust" \/ server.good

\* What can be unread while the client authenticates: nothing but an error of a server
\* that has ended, a refusal, one behind an acceptance, a request, an acceptance.
Silent == server.at = "ended" /\ Said(net, <<>>)
Refused == server.at = "refused" /\ net = Bytes(<<Error(0)>>)
RefusedLate == server.at = "revoked" /\ net = Bytes(<<Auth(0), Error(0)>>)
Asked(t) == server.at \in {"asked", "ended"} /\ Said(net, <<Auth(t)>>)
Greeted == server.at \in {"ready", "ended"} /\ Accepted /\ Said(net, Greeting)
RevokedBurst == <<Auth(12), Auth(0), Error(0)>>
SignedLate == server.at = "revoked" /\ Accepted /\ net = Bytes(RevokedBurst)
Signed == server.at \in {"ready", "ended"} /\ Accepted /\ Said(net, <<Auth(12)>> \o Greeting)
Waits(r) == request = r /\ server.at \in {"asked", "ended"} /\ net = <<>>

InStartup ==
  \/ request = "startup" /\ server.at = "listening" /\ net = <<>>
  \/ /\ request = "none"
     /\ \/ Silent \/ Refused \/ RefusedLate \/ Greeted
        \/ \E t \in {3, 5, 10} : Asked(t) /\ (t = 10 => server.method = "scram")

InPassword ==
  Waits("password") \/ (request = "none" /\ (Silent \/ Refused \/ RefusedLate \/ Greeted))

InSasl ==
  /\ server.method = "scram"
  /\ Waits("sasl") \/ (request = "none" /\ (Silent \/ Refused \/ Asked(11)))

InProof ==
  /\ server.method = "scram"
  /\ Waits("proof") \/ (request = "none" /\ (Silent \/ Refused \/ Signed \/ SignedLate))

Authenticating == {"connect", "startup", "password", "sasl", "proof"}

AuthInv ==
  /\ pc = "connect" => server.at = "listening" /\ net = <<>> /\ request = "none"
  /\ pc = "startup" => InStartup
  /\ pc = "password" => InPassword
  /\ pc = "sasl" => InSasl
  /\ pc = "proof" => InProof
  /\ pc \in Authenticating => q = 1

Reply(i, n, notice, end) ==
  notice \o <<Msg("T", 0, i)>> \o RowsOf(i, n) \o <<Msg(end, 0, i), Msg("Z", 0, i)>>

InReply ==
  \/ request = "query" /\ data = <<>> /\ Said(net, <<>>) /\ answer[q] = Unread
  \/ request = "none" /\ closed /\ answer[q] = Unread /\ Said(data \o net, <<>>)
  \/ /\ request = "none" /\ ~HasMessage("Z", data)
     /\ \E n \in 0 .. MaxRows, notice \in {<<>>, <<Msg("N", 0, q)>>}, end \in {"C", "E"} :
          /\ Said(data \o net, Reply(q, n, notice, end))
          /\ answer[q] = IF end = "E" THEN Failed ELSE Table(RowsOf(q, n))

Heeded == server.at \in {"ready", "ended"} \/ Unheard

QueryInv ==
  /\ pc \in {"query", "reply", "rows", "done"} => Heeded /\ Accepted
  /\ pc = "query" => request = "none" /\ Said(net, <<>>)
  /\ pc = "reply" => InReply
  /\ pc = "rows" => request = "none" /\ Said(net, <<>>) /\ result[q] = answer[q]
                     /\ result[q].is = "rows"
  /\ pc \in Ended => request = "none" \/ closed

\* What the queries have returned, and what the server has answered to them.
ResultInv ==
  /\ pc \in Authenticating \union {"query"} => answer[q] = Unread
  /\ pc \in Authenticating \union {"query", "reply"} => result[q] = Unread
  /\ q = 2 => result[1] = answer[1]
  /\ q = 1 => result[2] = Unread /\ answer[2] = Unread

SessionInv ==
  /\ TypeInv /\ AuthInv /\ QueryInv /\ ResultInv
  /\ OwnRows /\ NoUndefined /\ FailureJustified

-----------------------------------------------------------------------------
(* What the reads of the authentication find *)

\* The bursts of the authentication, message by message.
LEMMA Bursts ==
  /\ <<>> \in Seq(Message)
  /\ \A t \in Nat : <<Auth(t)>> \in Seq(Message) /\ Len(<<Auth(t)>>) = 1 /\ <<Auth(t)>>[1] = Auth(t)
  /\ \A i \in 0 .. 2 : <<Error(i)>> \in Seq(Message) /\ Len(<<Error(i)>>) = 1
                       /\ <<Error(i)>>[1] = Error(i)
  /\ /\ <<Auth(0), Error(0)>> \in Seq(Message) /\ Len(<<Auth(0), Error(0)>>) = 2
     /\ <<Auth(0), Error(0)>>[1] = Auth(0) /\ <<Auth(0), Error(0)>>[2] = Error(0)
  /\ /\ Greeting \in Seq(Message) /\ Len(Greeting) = 4
     /\ Greeting[1] = Auth(0) /\ Greeting[2].k = "S"
     /\ \A i \in 1 .. 4 : Greeting[i].k \in Handshake
  /\ /\ RevokedBurst \in Seq(Message) /\ Len(RevokedBurst) = 3
     /\ RevokedBurst[1] = Auth(12) /\ RevokedBurst[2] = Auth(0) /\ RevokedBurst[3] = Error(0)
  /\ LET signed == <<Auth(12)>> \o Greeting
     IN  /\ signed \in Seq(Message) /\ Len(signed) = 5
         /\ signed[1] = Auth(12) /\ \A i \in 1 .. 5 : signed[i].k \in Handshake
<1>1. /\ \A t \in Nat : Auth(t) \in Message /\ Auth(t).k = "R"
      /\ \A i \in 0 .. 2 : Error(i) \in Message
      /\ \A k \in {"S", "K", "Z"} : Msg(k, 0, 0) \in Message /\ Msg(k, 0, 0).k = k
  BY Messages DEF Kinds
<1>2. /\ <<>> \in Seq(Message)
      /\ \A t \in Nat : <<Auth(t)>> \in Seq(Message) /\ Len(<<Auth(t)>>) = 1 /\ <<Auth(t)>>[1] = Auth(t)
      /\ \A i \in 0 .. 2 : <<Error(i)>> \in Seq(Message) /\ Len(<<Error(i)>>) = 1
                           /\ <<Error(i)>>[1] = Error(i)
      /\ <<Auth(0), Error(0)>> \in Seq(Message) /\ Len(<<Auth(0), Error(0)>>) = 2
      /\ <<Auth(0), Error(0)>>[1] = Auth(0) /\ <<Auth(0), Error(0)>>[2] = Error(0)
  BY <1>1
<1>8. /\ RevokedBurst \in Seq(Message) /\ Len(RevokedBurst) = 3
      /\ RevokedBurst[1] = Auth(12) /\ RevokedBurst[2] = Auth(0) /\ RevokedBurst[3] = Error(0)
  BY <1>1 DEF RevokedBurst
<1>3. /\ Greeting \in Seq(Message) /\ Len(Greeting) = 4
      /\ Greeting[1] = Auth(0) /\ Greeting[2].k = "S"
      /\ Greeting[3].k = "K" /\ Greeting[4].k = "Z"
  BY <1>1 DEF Greeting
<1>4. \A i \in 1 .. 4 : Greeting[i].k \in Handshake
  <2>1. \A i \in 1 .. 4 : i \in {1, 2, 3, 4}
    OBVIOUS
  <2> QED
    BY <1>1, <1>3, <2>1 DEF Handshake
<1> DEFINE first == <<Auth(12)>>
           signed == first \o Greeting
<1>5. first \in Seq(Message) /\ Len(first) = 1 /\ first[1] = Auth(12)
  BY <1>1
<1> HIDE DEF first
<1>6. /\ signed \in Seq(Message) /\ Len(signed) = 5 /\ signed[1] = Auth(12)
      /\ \A i \in 2 .. 5 : signed[i] = Greeting[i - 1]
  <2>1. /\ signed \in Seq(Message) /\ Len(signed) = Len(first) + Len(Greeting)
        /\ \A i \in 1 .. Len(first) + Len(Greeting) :
             signed[i] = IF i <= Len(first) THEN first[i] ELSE Greeting[i - Len(first)]
    BY <1>3, <1>5, ConcatProperties, Zenon
  <2> HIDE DEF signed
  <2> QED
    BY <1>3, <1>5, <2>1
<1>7. \A i \in 1 .. 5 : signed[i].k \in Handshake
  <2>1. \A i \in 1 .. 5 : i = 1 \/ (i \in 2 .. 5 /\ i - 1 \in 1 .. 4)
    OBVIOUS
  <2>2. "R" \in Handshake
    BY DEF Handshake
  <2>3. Auth(12).k = "R"
    BY <1>1
  <2> HIDE DEF signed
  <2> QED
    BY <1>4, <1>6, <2>1, <2>2, <2>3
<1> QED
  BY <1>2, <1>3, <1>4, <1>6, <1>7, <1>8 DEF first

\* An error that a server which has ended, or refuses, has sent is read whole, and is
\* no request.
LEMMA ReadsError ==
  ASSUME Whole, Silent \/ Refused, NEW n, Chunk(n)
  PROVE  /\ n >= 3 /\ net' = <<>> /\ AuthTypes(Received(n)) = {-1} /\ net[1].m.k = "E"
         /\ ~HasMessage("R", Received(n))
<1> DEFINE none == <<>>
<1>1. \E hs \in Seq(Message) : Hearing(none, hs, n)
  <2>1. CASE Silent
    <3>1. none \in Seq(Message) /\ Len(none) = 0 /\ none = <<>>
      BY Bursts
    <3>2. Said(net, none)
      BY <2>1 DEF Silent
    <3> HIDE DEF none
    <3>3. \A i \in 1 .. Len(none) : none[i].k \in Handshake
      BY <3>1
    <3> QED
      BY <3>1, <3>2, <3>3, Hears
  <2>2. CASE Refused
    <3> DEFINE hs == <<Error(0)>>
    <3>1. hs \in Seq(Message) /\ Len(hs) = 1 /\ hs[1].k = "E"
      BY Bursts, Messages
    <3>2. net = Bytes(hs)
      BY <2>2 DEF Refused
    <3> HIDE DEF hs
    <3>3. /\ \A i \in 1 .. Len(hs) : hs[i].k \in Handshake \union {"E"} /\ hs[i].k # "R"
          /\ \A i \in 1 .. Len(hs) - 1 : hs[i].k \in Handshake
      <4>1. \A i \in 1 .. 1 : i = 1
        OBVIOUS
      <4> QED
        BY <3>1, <4>1
    <3>4. n = Len(net) /\ Received(n) = net /\ net' = <<>>
      BY <3>1, <3>2, <3>3, WholeChunk
    <3>5. Len(net) = 3 * Len(hs)
      BY <3>1, <3>2, BytesType
    <3>6. Len(none) = 0
      OBVIOUS
    <3> HIDE DEF none
    <3>7. Hearing(none, hs, n)
      <4>1. Received(n) = Bytes(hs) /\ Len(hs) \in Nat \ {0} /\ n = 3 * Len(hs)
        BY <3>1, <3>2, <3>4, <3>5
      <4>2. Len(hs) >= Len(none) /\ \A i \in 1 .. Len(none) : hs[i] = none[i]
        BY <3>1, <3>6
      <4>3. \A i \in 1 .. Len(hs) : ~(hs[i].k = "R")
        BY <3>3
      <4> QED
        BY <3>1, <3>2, <3>4, <4>1, <4>2, <4>3 DEF Hearing
    <3> QED
      BY <3>1, <3>7
  <2> QED
    BY <2>1, <2>2
<1>2. PICK hs \in Seq(Message) :
        /\ net = Bytes(hs) /\ Received(n) = Bytes(hs) /\ net' = <<>>
        /\ Len(hs) \in Nat \ {0} /\ n = 3 * Len(hs) /\ hs[1].k = "E"
        /\ \A i \in 1 .. Len(hs) : hs[i].k # "R"
  <2>1. Len(none) = 0 /\ none = <<>>
    OBVIOUS
  <2> HIDE DEF none
  <2> QED
    BY <1>1, <2>1 DEF Hearing
<1>3. AuthTypes(Received(n)) = {-1}
  BY <1>2, TypesOf
<1>4. net[1].m = hs[1]
  <2>1. Bytes(hs)[1] = [m |-> hs[1], part |-> "type"]
    BY <1>2, FirstUnit
  <2> QED
    BY <1>2, <2>1
<1>5. ~HasMessage("R", Received(n))
  <2> SUFFICES ASSUME NEW j \in DOMAIN Bytes(hs), Bytes(hs)[j].m.k = "R" PROVE FALSE
    BY <1>2 DEF HasMessage
  <2>1. PICK i \in 1 .. Len(hs) : Bytes(hs)[j].m = hs[i]
    BY UnitsOf
  <2> QED
    BY <1>2, <2>1
<1> QED
  BY <1>2, <1>3, <1>4, <1>5

\* A refusal behind an acceptance is read with it.
LEMMA ReadsRefusal ==
  ASSUME Whole, RefusedLate, NEW n, Chunk(n)
  PROVE  n >= 3 /\ net' = <<>> /\ AuthTypes(Received(n)) = {-1}
<1> DEFINE hs == <<Auth(0), Error(0)>>
<1>1. /\ hs \in Seq(Message) /\ Len(hs) = 2 /\ hs[1].k = "R" /\ hs[1].n = 0 /\ hs[2].k = "E"
  BY Bursts, Messages
<1>2. net = Bytes(hs)
  BY DEF RefusedLate
<1> HIDE DEF hs
<1>3. /\ \A i \in 1 .. Len(hs) : hs[i].k \in Handshake \union {"E"}
      /\ \A i \in 1 .. Len(hs) - 1 : hs[i].k \in Handshake
  <2>1. \A i \in 1 .. 2 : i \in {1, 2}
    OBVIOUS
  <2> QED
    BY <1>1, <2>1 DEF Handshake
<1>4. n = Len(net) /\ Received(n) = net /\ net' = <<>>
  BY <1>1, <1>2, <1>3, WholeChunk
<1>5. Len(net) = 3 * Len(hs)
  BY <1>1, <1>2, BytesType
<1>6. AuthTypes(Received(n)) = {-1}
  BY <1>1, <1>2, <1>4, TypesOf
<1> QED
  BY <1>1, <1>4, <1>5, <1>6

\* A request for a password, or of SASL, is read whole and taken for what it is.
LEMMA ReadsRequest ==
  ASSUME Whole, NEW t \in Nat \ {0}, Asked(t), NEW n, Chunk(n)
  PROVE  n >= 3 /\ net' = <<>> /\ AuthTypes(Received(n)) = {t} /\ net[1].m.k = "R"
<1> DEFINE ms == <<Auth(t)>>
<1>1. ms \in Seq(Message) /\ Len(ms) = 1 /\ ms[1].k = "R" /\ ms[1].n = t
  BY Bursts, Messages
<1>2. Said(net, ms)
  BY DEF Asked
<1> HIDE DEF ms
<1>3. \A i \in 1 .. Len(ms) : ms[i].k \in Handshake
  BY <1>1 DEF Handshake
<1>4. PICK hs \in Seq(Message) : Hearing(ms, hs, n)
  BY <1>1, <1>2, <1>3, Hears
<1>5. hs[1] = ms[1]
  BY <1>1, <1>4 DEF Hearing
<1>6. AuthTypes(Received(n)) = {t}
  BY <1>1, <1>4, <1>5, TypesOf DEF Hearing
<1>7. net[1].m = hs[1]
  <2>1. net = Bytes(hs) /\ Len(hs) # 0
    BY <1>4 DEF Hearing
  <2>2. Bytes(hs)[1] = [m |-> hs[1], part |-> "type"]
    BY <2>1, FirstUnit
  <2> QED
    BY <2>1, <2>2
<1> QED
  BY <1>1, <1>4, <1>5, <1>6, <1>7 DEF Hearing

\* An acceptance is read with what follows it, which is no error.
LEMMA ReadsGreeting ==
  ASSUME Whole, Greeted, NEW n, Chunk(n)
  PROVE  n >= 3 /\ net' = <<>> /\ AuthTypes(Received(n)) = {0}
<1>1. /\ Greeting \in Seq(Message) /\ Len(Greeting) = 4
      /\ Greeting[1].k = "R" /\ Greeting[1].n = 0 /\ Greeting[2].k = "S"
      /\ \A i \in 1 .. 4 : Greeting[i].k \in Handshake
  BY Bursts, Messages
<1>2. Said(net, Greeting)
  BY DEF Greeted
<1>3. PICK hs \in Seq(Message) : Hearing(Greeting, hs, n)
  BY <1>1, <1>2, Hears
<1>4. hs[1] = Greeting[1] /\ hs[2] = Greeting[2]
  BY <1>1, <1>3 DEF Hearing
<1>5. AuthTypes(Received(n)) = {0}
  BY <1>1, <1>3, <1>4, TypesOf DEF Hearing
<1> QED
  BY <1>3, <1>5 DEF Hearing

\* The signature of the server is read with a refusal behind it, too.
LEMMA ReadsRevoked ==
  ASSUME Whole, SignedLate, NEW n, Chunk(n)
  PROVE  n >= 3 /\ net' = <<>> /\ HasMessage("R", Received(n))
<1> DEFINE hs == RevokedBurst
<1>1. /\ hs \in Seq(Message) /\ Len(hs) = 3
      /\ hs[1].k = "R" /\ hs[2].k = "R" /\ hs[3].k = "E"
  BY Bursts, Messages
<1>2. net = Bytes(hs)
  BY DEF SignedLate
<1> HIDE DEF hs
<1>3. /\ \A i \in 1 .. Len(hs) : hs[i].k \in Handshake \union {"E"}
      /\ \A i \in 1 .. Len(hs) - 1 : hs[i].k \in Handshake
  <2>1. (\A i \in 1 .. 3 : i \in {1, 2, 3}) /\ (\A i \in 1 .. 3 - 1 : i \in {1, 2})
    OBVIOUS
  <2> QED
    BY <1>1, <2>1 DEF Handshake
<1>4. n = Len(net) /\ Received(n) = net /\ net' = <<>>
  BY <1>1, <1>2, <1>3, WholeChunk
<1>5. Len(net) = 3 * Len(hs)
  BY <1>1, <1>2, BytesType
<1>6. Bytes(hs)[1] = [m |-> hs[1], part |-> "type"] /\ 1 \in DOMAIN Bytes(hs)
  BY <1>1, FirstUnit
<1> QED
  BY <1>1, <1>2, <1>4, <1>5, <1>6 DEF HasMessage

\* The signature of the server is read with the acceptance behind it.
LEMMA ReadsSignature ==
  ASSUME Whole, Signed, NEW n, Chunk(n)
  PROVE  n >= 3 /\ net' = <<>> /\ HasMessage("R", Received(n))
<1> DEFINE ms == <<Auth(12)>> \o Greeting
<1>1. /\ ms \in Seq(Message) /\ Len(ms) = 5 /\ ms[1].k = "R"
      /\ \A i \in 1 .. 5 : ms[i].k \in Handshake
  BY Bursts, Messages
<1>2. Said(net, ms)
  BY DEF Signed
<1> HIDE DEF ms
<1>3. PICK hs \in Seq(Message) : Hearing(ms, hs, n)
  <2>1. \A i \in 1 .. Len(ms) : ms[i].k \in Handshake
    BY <1>1
  <2> QED
    BY <1>1, <1>2, <2>1, Hears
<1>4. hs[1].k = "R"
  BY <1>1, <1>3 DEF Hearing
<1>5. Bytes(hs)[1] = [m |-> hs[1], part |-> "type"] /\ 1 \in DOMAIN Bytes(hs)
  BY <1>3, FirstUnit DEF Hearing
<1> QED
  BY <1>3, <1>4, <1>5 DEF HasMessage, Hearing

-----------------------------------------------------------------------------
(* The steps of the client that authenticates *)

AuthFrame == UNCHANGED <<q, data, result, closed, serverVars>>

\* A client that gives up while it authenticates has a reason.
LEMMA AuthFails ==
  ASSUME SessionInv, pc \in Authenticating, AuthFrame, net' \in Seq(Unit),
         server.at \in {"listening", "refused", "revoked", "ended"},
         pc' = "failed", request' = "none"
  PROVE  SessionInv'
<1>1. /\ UNCHANGED <<q, data, result, closed, server, answer>> /\ TypeInv
  BY DEF AuthFrame, serverVars, SessionInv
<1>2. TypeInv'
  BY <1>1 DEF TypeInv, Ended
<1>3. AuthInv' /\ QueryInv'
  BY <1>1 DEF AuthInv, QueryInv, Ended, Authenticating
<1>4. ResultInv'
  BY <1>1 DEF SessionInv, ResultInv, Authenticating
<1>5. OwnRows' /\ NoUndefined' /\ FailureJustified'
  BY <1>1 DEF SessionInv, OwnRows, NoUndefined, FailureJustified
<1> QED
  BY <1>2, <1>3, <1>4, <1>5 DEF SessionInv

\* So it is for undefined behaviour when the server has ended.
LEMMA AuthUndefined ==
  ASSUME SessionInv, pc \in Authenticating, AuthFrame, net' \in Seq(Unit),
         server.at = "ended", pc' = "undefined", request' = "none"
  PROVE  SessionInv'
<1>1. /\ UNCHANGED <<q, data, result, closed, server, answer>> /\ TypeInv
  BY DEF AuthFrame, serverVars, SessionInv
<1>2. TypeInv'
  BY <1>1 DEF TypeInv, Ended
<1>3. AuthInv' /\ QueryInv'
  BY <1>1 DEF AuthInv, QueryInv, Ended, Authenticating
<1>4. ResultInv'
  BY <1>1 DEF SessionInv, ResultInv, Authenticating
<1>5. OwnRows' /\ NoUndefined' /\ FailureJustified'
  BY <1>1 DEF SessionInv, OwnRows, NoUndefined, FailureJustified
<1> QED
  BY <1>2, <1>3, <1>4, <1>5 DEF SessionInv

\* A client that is accepted, and has read all that was said, goes on to its queries.
LEMMA AuthAccepted ==
  ASSUME SessionInv, pc \in Authenticating, AuthFrame, net' = <<>>,
         Heeded, Accepted, pc' = "query", request' = "none"
  PROVE  SessionInv'
<1>1. /\ UNCHANGED <<q, data, result, closed, server, answer>> /\ TypeInv /\ net' \in Seq(Unit)
  BY DEF AuthFrame, serverVars, SessionInv
<1>2. TypeInv'
  BY <1>1 DEF TypeInv, Ended
<1>3. AuthInv'
  BY <1>1 DEF AuthInv, Authenticating
<1>4. QueryInv'
  <2>1. Said(net, <<>>)'
    BY BytesEmpty DEF Said
  <2>2. Accepted'
    BY <1>1 DEF Accepted
  <2> QED
    BY <1>1, <2>1, <2>2 DEF QueryInv, Ended, Heeded, Unheard
<1>5. ResultInv'
  BY <1>1 DEF SessionInv, ResultInv, Authenticating
<1>6. OwnRows' /\ NoUndefined' /\ FailureJustified'
  BY <1>1 DEF SessionInv, OwnRows, NoUndefined, FailureJustified
<1> QED
  BY <1>2, <1>3, <1>4, <1>5, <1>6 DEF SessionInv

\* A client that has read all that was said writes its answer; to a connection that
\* is closed, it may fail.
LEMMA AuthAnswers ==
  ASSUME SessionInv, pc \in Authenticating, AuthFrame, net' = <<>>,
         server.at \in {"asked", "ended"}, NEW r \in {"password", "sasl", "proof"},
         r # "password" => server.method = "scram", Write(r, r)
  PROVE  SessionInv'
<1>1. /\ UNCHANGED <<q, data, result, closed, server, answer>> /\ TypeInv /\ net' \in Seq(Unit)
  BY DEF AuthFrame, serverVars, SessionInv
<1>2. CASE request' = r /\ pc' = r
  <2>1. TypeInv'
    BY <1>1, <1>2 DEF TypeInv, Ended
  <2>2. AuthInv'
    <3>1. q = 1
      BY DEF SessionInv, AuthInv
    <3> QED
      BY <1>1, <1>2, <3>1 DEF AuthInv, Authenticating, InPassword, InSasl, InProof, Waits
  <2>3. QueryInv'
    BY <1>1, <1>2 DEF QueryInv, Ended
  <2>4. ResultInv'
    BY <1>1, <1>2 DEF SessionInv, ResultInv, Authenticating
  <2>5. OwnRows' /\ NoUndefined' /\ FailureJustified'
    BY <1>1, <1>2 DEF SessionInv, OwnRows, NoUndefined, FailureJustified
  <2> QED
    BY <2>1, <2>2, <2>3, <2>4, <2>5 DEF SessionInv
<1>3. CASE closed /\ request' = "none" /\ pc' = "failed"
  BY <1>1, <1>3, AuthFails DEF TypeInv
<1> QED
  BY <1>2, <1>3 DEF Write

\* The client connects to a server that listens, or finds none.
LEMMA ConnectStep ==
  ASSUME SessionInv, Connect
  PROVE  SessionInv'
<1>1. pc = "connect" /\ AuthFrame /\ net' = net /\ server.at = "listening" /\ net = <<>> /\ q = 1
  BY DEF Connect, SessionInv, AuthInv, AuthFrame, serverVars, Authenticating
<1>2. net' \in Seq(Unit)
  BY <1>1
<1>3. CASE request' = "startup" /\ pc' = "startup"
  <2>1. /\ UNCHANGED <<q, data, result, closed, server, answer, net>> /\ TypeInv
    BY <1>1 DEF AuthFrame, serverVars, SessionInv
  <2>2. TypeInv'
    BY <1>3, <2>1 DEF TypeInv, Ended
  <2>3. AuthInv'
    BY <1>1, <1>3, <2>1 DEF AuthInv, Authenticating, InStartup
  <2>4. QueryInv'
    BY <1>3, <2>1 DEF QueryInv, Ended
  <2>5. ResultInv'
    BY <1>1, <1>3, <2>1 DEF SessionInv, ResultInv, Authenticating
  <2>6. OwnRows' /\ NoUndefined' /\ FailureJustified'
    BY <1>1, <1>3, <2>1 DEF SessionInv, OwnRows, NoUndefined, FailureJustified
  <2> QED
    BY <2>2, <2>3, <2>4, <2>5, <2>6 DEF SessionInv
<1>4. CASE request' = "none" /\ pc' = "failed"
  BY <1>1, <1>2, <1>4, AuthFails DEF Authenticating
<1> QED
  BY <1>3, <1>4 DEF Connect

\* A client that waits for an answer and finds the end of the stream has a server that
\* has ended.
LEMMA EofEnded ==
  ASSUME SessionInv, Eof, request = "none", pc \in {"startup", "password", "sasl", "proof"}
  PROVE  server.at = "ended"
<1>1. server.at \in {"refused", "revoked", "ended"} /\ net = <<>>
  BY DEF SessionInv, TypeInv, Eof
<1>2. ~Refused /\ ~RefusedLate /\ ~SignedLate
  <2> DEFINE a == <<Error(0)>>
             b == <<Auth(0), Error(0)>>
             c == RevokedBurst
  <2>1. /\ a \in Seq(Message) /\ Len(a) = 1 /\ b \in Seq(Message) /\ Len(b) = 2
        /\ c \in Seq(Message) /\ Len(c) = 3
    BY Bursts
  <2> HIDE DEF a, b, c
  <2>2. Len(Bytes(a)) = 3 * Len(a) /\ Len(Bytes(b)) = 3 * Len(b) /\ Len(Bytes(c)) = 3 * Len(c)
    BY <2>1, BytesType
  <2>3. Bytes(a) # <<>> /\ Bytes(b) # <<>> /\ Bytes(c) # <<>>
    <3>1. Len(<<>>) = 0
      OBVIOUS
    <3>2. Len(Bytes(a)) # 0 /\ Len(Bytes(b)) # 0 /\ Len(Bytes(c)) # 0
      BY <2>1, <2>2
    <3> QED
      BY <3>1, <3>2, Zenon
  <2> QED
    BY <1>1, <2>3 DEF Refused, RefusedLate, SignedLate, a, b, c
<1> QED
  BY <1>1, <1>2 DEF SessionInv, AuthInv, InStartup, InPassword, InSasl, InProof, Silent,
                    Greeted, Asked, Signed, Waits

\* The first answer is read whole: an error, a request, or an acceptance.
LEMMA StartupStep ==
  ASSUME SessionInv, Whole, ReadStartup
  PROVE  SessionInv'
<1>1. /\ pc = "startup" /\ request = "none" /\ AuthFrame /\ pc \in Authenticating
      /\ net \in Seq(Unit) /\ <<>> \in Seq(Unit)
  BY DEF ReadStartup, AuthFrame, Authenticating, SessionInv, TypeInv
<1>2. CASE Eof /\ pc' = "failed" /\ UNCHANGED <<net, request>>
  BY <1>1, <1>2, EofEnded, AuthFails
<1>3. ASSUME NEW n \in 1 .. Len(net), Chunk(n), n >= 3, net' = <<>>,
             NEW t \in AuthTypes(Received(n)),
             \/ t = 0 /\ pc' = "query" /\ UNCHANGED request
             \/ t \in {3, 5} /\ Write("password", "password")
             \/ t = 10 /\ Write("sasl", "sasl")
             \/ t = -1 /\ pc' = "failed" /\ UNCHANGED request
      PROVE  SessionInv'
  <2>1. CASE Silent \/ Refused
    <3>1. t = -1
      BY <1>3, <2>1, ReadsError
    <3>2. server.at \in {"refused", "ended"}
      BY <2>1 DEF Silent, Refused
    <3> QED
      BY <1>1, <1>3, <3>1, <3>2, AuthFails
  <2>2. CASE RefusedLate
    <3>1. t = -1
      BY <1>3, <2>2, ReadsRefusal
    <3> QED
      BY <1>1, <1>3, <2>2, <3>1, AuthFails DEF RefusedLate
  <2>3. CASE Greeted
    <3>1. t = 0
      BY <1>3, <2>3, ReadsGreeting
    <3> QED
      BY <1>1, <1>3, <2>3, <3>1, AuthAccepted DEF Greeted, Heeded
  <2>4. CASE \E u \in {3, 5, 10} : Asked(u) /\ (u = 10 => server.method = "scram")
    <3>1. PICK u \in {3, 5, 10} : Asked(u) /\ (u = 10 => server.method = "scram")
      BY <2>4
    <3>2. t = u
      <4>1. u \in Nat \ {0}
        OBVIOUS
      <4> QED
        BY <1>3, <3>1, <4>1, ReadsRequest
    <3>3. server.at \in {"asked", "ended"}
      BY <3>1 DEF Asked
    <3> QED
      BY <1>1, <1>3, <3>1, <3>2, <3>3, AuthAnswers
  <2> QED
    BY <1>1, <2>1, <2>2, <2>3, <2>4 DEF SessionInv, AuthInv, InStartup
<1>4. ASSUME NEW n \in 1 .. Len(net), Chunk(n)
      PROVE  n >= 3 /\ net' = <<>>
  <2>1. CASE Silent \/ Refused
    BY <1>4, <2>1, ReadsError
  <2>2. CASE RefusedLate
    BY <1>4, <2>2, ReadsRefusal
  <2>3. CASE Greeted
    BY <1>4, <2>3, ReadsGreeting
  <2>4. CASE \E u \in {3, 5, 10} : Asked(u)
    <3>1. PICK u \in {3, 5, 10} : Asked(u)
      BY <2>4
    <3>2. u \in Nat \ {0}
      OBVIOUS
    <3> QED
      BY <1>4, <3>1, <3>2, ReadsRequest
  <2> QED
    BY <1>1, <2>1, <2>2, <2>3, <2>4 DEF SessionInv, AuthInv, InStartup
<1>5. CASE \E n \in 1 .. Len(net) :
             /\ Chunk(n)
             /\ LET d == Received(n)
                IN  IF n < 3 THEN pc' = "undefined" /\ UNCHANGED request
                    ELSE \E t \in AuthTypes(d) :
                           \/ t = 0 /\ pc' = "query" /\ UNCHANGED request
                           \/ t \in {3, 5} /\ Write("password", "password")
                           \/ t = 10 /\ Write("sasl", "sasl")
                           \/ t = -1 /\ pc' = "failed" /\ UNCHANGED request
  <2>1. PICK n \in 1 .. Len(net) :
          /\ Chunk(n)
          /\ n >= 3 => \E t \in AuthTypes(Received(n)) :
                           \/ t = 0 /\ pc' = "query" /\ UNCHANGED request
                           \/ t \in {3, 5} /\ Write("password", "password")
                           \/ t = 10 /\ Write("sasl", "sasl")
                           \/ t = -1 /\ pc' = "failed" /\ UNCHANGED request
    BY <1>5
  <2>2. n >= 3 /\ net' = <<>>
    BY <1>4, <2>1
  <2> QED
    BY <1>3, <2>1, <2>2
<1> QED
  BY <1>2, <1>5 DEF ReadStartup

\* The answer to a password is a refusal or an acceptance, and taken for what it is.
LEMMA PasswordStep ==
  ASSUME SessionInv, Whole, ReadPassword
  PROVE  SessionInv'
<1>1. /\ pc = "password" /\ request = "none" /\ AuthFrame /\ pc \in Authenticating
      /\ request' = "none" /\ net \in Seq(Unit) /\ <<>> \in Seq(Unit)
  BY DEF ReadPassword, AuthFrame, Authenticating, SessionInv, TypeInv
<1>2. CASE Eof /\ pc' = "undefined" /\ UNCHANGED net
  BY <1>1, <1>2, EofEnded, AuthUndefined
<1>3. CASE \E n \in 1 .. Len(net) :
             /\ Chunk(n)
             /\ IF n < 3 THEN pc' = "undefined"
                ELSE \E t \in AuthTypes(Received(n)) :
                       pc' = IF t = 0 THEN "query" ELSE "failed"
  <2>1. PICK n \in 1 .. Len(net) :
          /\ Chunk(n)
          /\ n >= 3 => \E t \in AuthTypes(Received(n)) :
                         pc' = IF t = 0 THEN "query" ELSE "failed"
    BY <1>3
  <2>2. CASE Silent \/ Refused
    <3>1. n >= 3 /\ net' = <<>> /\ AuthTypes(Received(n)) = {-1}
      BY <2>1, <2>2, ReadsError
    <3>2. pc' = "failed" /\ server.at \in {"refused", "ended"}
      BY <2>1, <2>2, <3>1 DEF Silent, Refused
    <3> QED
      BY <1>1, <3>1, <3>2, AuthFails
  <2>3. CASE RefusedLate
    <3>1. n >= 3 /\ net' = <<>> /\ AuthTypes(Received(n)) = {-1}
      BY <2>1, <2>3, ReadsRefusal
    <3>2. pc' = "failed" /\ server.at = "revoked"
      BY <2>1, <2>3, <3>1 DEF RefusedLate
    <3> QED
      BY <1>1, <3>1, <3>2, AuthFails
  <2>4. CASE Greeted
    <3>1. n >= 3 /\ net' = <<>> /\ AuthTypes(Received(n)) = {0}
      BY <2>1, <2>4, ReadsGreeting
    <3>2. pc' = "query"
      BY <2>1, <3>1
    <3> QED
      BY <1>1, <2>4, <3>1, <3>2, AuthAccepted DEF Greeted, Heeded
  <2> QED
    BY <1>1, <2>2, <2>3, <2>4 DEF SessionInv, AuthInv, InPassword, Waits
<1> QED
  BY <1>2, <1>3 DEF ReadPassword

\* The answer to the SASL request is an error or the challenge.
LEMMA SaslStep ==
  ASSUME SessionInv, Whole, ReadSasl
  PROVE  SessionInv'
<1>1. /\ pc = "sasl" /\ request = "none" /\ AuthFrame /\ pc \in Authenticating
      /\ net \in Seq(Unit) /\ <<>> \in Seq(Unit) /\ server.method = "scram"
  BY DEF ReadSasl, AuthFrame, Authenticating, SessionInv, TypeInv, AuthInv, InSasl
<1>2. CASE Eof /\ pc' = "undefined" /\ UNCHANGED <<net, request>>
  BY <1>1, <1>2, EofEnded, AuthUndefined
<1>3. CASE \E n \in 1 .. Len(net) :
             /\ Chunk(n)
             /\ \/ n < 3 /\ pc' = "undefined" /\ UNCHANGED request
                \/ n >= 3 /\ net[1].m.k = "E" /\ pc' = "failed" /\ UNCHANGED request
                \/ n >= 3 /\ net[1].m.k = "R" /\ Write("proof", "proof")
  <2>1. PICK n \in 1 .. Len(net) :
             /\ Chunk(n)
             /\ \/ n < 3 /\ pc' = "undefined" /\ UNCHANGED request
                \/ n >= 3 /\ net[1].m.k = "E" /\ pc' = "failed" /\ UNCHANGED request
                \/ n >= 3 /\ net[1].m.k = "R" /\ Write("proof", "proof")
    BY <1>3
  <2>2. CASE Silent \/ Refused
    <3>1. n >= 3 /\ net' = <<>> /\ net[1].m.k = "E"
      BY <2>1, <2>2, ReadsError
    <3>2. pc' = "failed" /\ request' = "none" /\ server.at \in {"refused", "ended"}
      BY <1>1, <2>1, <2>2, <3>1 DEF Silent, Refused
    <3> QED
      BY <1>1, <3>1, <3>2, AuthFails
  <2>3. CASE Asked(11)
    <3>1. n >= 3 /\ net' = <<>> /\ net[1].m.k = "R"
      <4>1. 11 \in Nat \ {0}
        OBVIOUS
      <4> QED
        BY <2>1, <2>3, <4>1, ReadsRequest
    <3>2. Write("proof", "proof") /\ server.at \in {"asked", "ended"}
      BY <2>1, <2>3, <3>1 DEF Asked
    <3> QED
      BY <1>1, <3>1, <3>2, AuthAnswers
  <2> QED
    BY <1>1, <2>2, <2>3 DEF SessionInv, AuthInv, InSasl, Waits
<1> QED
  BY <1>2, <1>3 DEF ReadSasl

\* The answer to the proof is a refusal, or the server's signature with the acceptance
\* behind it.
LEMMA SignatureStep ==
  ASSUME SessionInv, Whole, ReadSignature
  PROVE  SessionInv'
<1>1. /\ pc = "proof" /\ request = "none" /\ AuthFrame /\ pc \in Authenticating
      /\ request' = "none" /\ net \in Seq(Unit) /\ <<>> \in Seq(Unit)
  BY DEF ReadSignature, AuthFrame, Authenticating, SessionInv, TypeInv
<1>2. CASE Eof /\ pc' = "failed" /\ UNCHANGED net
  BY <1>1, <1>2, EofEnded, AuthFails
<1>3. CASE \E n \in 1 .. Len(net) :
             /\ Chunk(n)
             /\ pc' = IF n < 3 THEN "undefined"
                      ELSE IF HasMessage("R", Received(n)) THEN "query" ELSE "failed"
  <2>1. PICK n \in 1 .. Len(net) :
             /\ Chunk(n)
             /\ pc' = IF n < 3 THEN "undefined"
                      ELSE IF HasMessage("R", Received(n)) THEN "query" ELSE "failed"
    BY <1>3
  <2>2. CASE Silent \/ Refused
    <3>1. n >= 3 /\ net' = <<>> /\ ~HasMessage("R", Received(n))
      BY <2>1, <2>2, ReadsError
    <3>2. pc' = "failed" /\ server.at \in {"refused", "ended"}
      BY <2>1, <2>2, <3>1 DEF Silent, Refused
    <3> QED
      BY <1>1, <3>1, <3>2, AuthFails
  <2>3. CASE Signed
    <3>1. n >= 3 /\ net' = <<>> /\ HasMessage("R", Received(n))
      BY <2>1, <2>3, ReadsSignature
    <3>2. pc' = "query"
      BY <2>1, <3>1
    <3> QED
      BY <1>1, <2>3, <3>1, <3>2, AuthAccepted DEF Signed, Heeded
  <2>4. CASE SignedLate
    <3>1. n >= 3 /\ net' = <<>> /\ HasMessage("R", Received(n))
      BY <2>1, <2>4, ReadsRevoked
    <3>2. pc' = "query"
      BY <2>1, <3>1
    <3>3. Unheard
      BY <1>1, <2>4 DEF SignedLate, Unheard, SessionInv, AuthInv, InProof
    <3> QED
      BY <1>1, <2>4, <3>1, <3>2, <3>3, AuthAccepted DEF SignedLate, Heeded
  <2> QED
    BY <1>1, <2>2, <2>3, <2>4 DEF SessionInv, AuthInv, InProof, Waits
<1> QED
  BY <1>2, <1>3 DEF ReadSignature

-----------------------------------------------------------------------------
(* The steps of the server *)

\* A server that has a request has nothing unread before the client.
LEMMA Requested ==
  ASSUME SessionInv, ~closed, request # "none"
  PROVE  /\ net = <<>>
         /\ \/ request = pc /\ pc \in {"startup", "password", "sasl", "proof"}
            \/ request = "query" /\ pc = "reply" /\ data = <<>> /\ answer[q] = Unread
<1>1. server.at # "ended" /\ ~closed /\ TypeInv
  BY DEF SessionInv, TypeInv
<1>2. CASE pc \in Authenticating
  BY <1>1, <1>2 DEF SessionInv, AuthInv, InStartup, InPassword, InSasl, InProof, Waits,
                    Authenticating
<1>3. CASE pc \notin Authenticating
  BY <1>1, <1>3, BytesEmpty DEF SessionInv, TypeInv, QueryInv, InReply, Ended, Authenticating, Said
<1> QED
  BY <1>2, <1>3

\* What the server says to a client that authenticates.
LEMMA ServerSpeaks ==
  ASSUME SessionInv, UNCHANGED <<clientVars, answer>>, request' = "none", net' \in Seq(Unit),
         ~closed, pc \in {"startup", "password", "sasl", "proof"},
         NEW a \in {"asked", "ready", "refused", "revoked"}, server' = [server EXCEPT !.at = a],
         \/ closed' = TRUE /\ a \in {"refused", "revoked"}
         \/ closed' = FALSE /\ a \in {"asked", "ready"},
         AuthInv'
  PROVE  SessionInv'
<1>1. UNCHANGED <<pc, q, data, result, answer>> /\ TypeInv
  BY DEF clientVars, SessionInv
<1>2. server'.at = a /\ server' \in [method : Methods, good : BOOLEAN,
                 at : {"listening", "asked", "ready", "refused", "revoked", "ended"}]
  BY <1>1 DEF TypeInv
<1>3. TypeInv'
  <2>1. closed' \in BOOLEAN /\ (closed' <=> server'.at \in {"refused", "revoked", "ended"})
    BY <1>2
  <2> QED
    BY <1>1, <1>2, <2>1 DEF TypeInv
<1>4. QueryInv' /\ ResultInv'
  BY <1>1 DEF SessionInv, QueryInv, ResultInv, Ended
<1>5. OwnRows' /\ NoUndefined' /\ FailureJustified'
  BY <1>1 DEF SessionInv, OwnRows, NoUndefined, FailureJustified
<1> QED
  BY <1>3, <1>4, <1>5 DEF SessionInv

\* Messages written to an empty stream.
LEMMA SaysFirst ==
  ASSUME net = <<>>, NEW ms \in Seq(Message), Says(ms)
  PROVE  net' = Bytes(ms) /\ net' \in Seq(Unit)
<1>1. Bytes(ms) \in Seq(Unit)
  BY BytesType
<1>2. <<>> \o Bytes(ms) = Bytes(ms)
  BY <1>1
<1> QED
  BY <1>1, <1>2 DEF Says

\* What the server says of the authentication is what the client may find.
LEMMA ServerAuthenticatesStep ==
  ASSUME SessionInv, Whole, ServerAuthenticates
  PROVE  SessionInv'
<1> USE DEF Auth, Error
<1>1. /\ ~closed /\ net = <<>> /\ pc = request /\ request' = "none"
      /\ pc \in {"startup", "password", "sasl", "proof"}
      /\ UNCHANGED <<clientVars, answer>> /\ UNCHANGED <<pc, q>> /\ q = 1
      /\ server \in [method : Methods, good : BOOLEAN,
                     at : {"listening", "asked", "ready", "refused", "revoked", "ended"}]
  BY Requested DEF ServerAuthenticates, clientVars, SessionInv, AuthInv, Authenticating, TypeInv
<1>2. CASE Refuse
  <2>1. net' = Bytes(<<Error(0)>>) /\ net' \in Seq(Unit)
    <3>1. Says(<<Error(0)>>)
      BY <1>2 DEF Refuse
    <3>2. <<Error(0)>> \in Seq(Message)
      <4>1. 0 \in 0 .. 2
        OBVIOUS
      <4> QED
        BY <4>1, Bursts
    <3> QED
      BY <1>1, <3>1, <3>2, SaysFirst
  <2>2. server' = [server EXCEPT !.at = "refused"] /\ closed' = TRUE
    BY <1>2 DEF Refuse
  <2>3. Refused'
    BY <1>1, <2>1, <2>2 DEF Refused
  <2>4. AuthInv'
    BY <1>1, <2>2, <2>3 DEF SessionInv, AuthInv, InStartup, InPassword, InSasl, InProof, Authenticating
  <2> QED
    BY <1>1, <2>1, <2>2, <2>4, ServerSpeaks
<1>3. ASSUME NEW t \in Nat, Asks(t), pc \in {"startup", "sasl"},
             pc = "startup" => t \in {3, 5, 10} /\ (t = 10 => server.method = "scram"),
             pc = "sasl" => t = 11
      PROVE  SessionInv'
  <2>1. net' = Bytes(<<Auth(t)>>) /\ net' \in Seq(Unit)
    BY <1>1, <1>3, SaysFirst, Bursts DEF Asks
  <2>2. server' = [server EXCEPT !.at = "asked"] /\ closed' = FALSE
    BY <1>1, <1>3 DEF Asks, SessionInv, TypeInv
  <2>3. Asked(t)'
    BY <1>1, <2>1, <2>2 DEF Asked, Said
  <2>4. AuthInv'
    BY <1>1, <1>3, <2>2, <2>3 DEF SessionInv, AuthInv, InStartup, InSasl, Authenticating
  <2> QED
    BY <1>1, <2>1, <2>2, <2>4, ServerSpeaks
<1>4. CASE Welcome(<<>>) /\ Accepted /\ pc \in {"startup", "password"}
  <2>1. /\ <<>> \o <<Msg("R", 0, 0), Msg("S", 0, 0), Msg("K", 0, 0), Msg("Z", 0, 0)>> = Greeting
        /\ <<>> \o <<Msg("R", 0, 0), Msg("E", 0, 0)>> = <<Auth(0), Error(0)>>
    BY Bursts DEF Greeting
  <2>2. CASE Says(Greeting) /\ server' = [server EXCEPT !.at = "ready"] /\ UNCHANGED closed
    <3>1. net' = Bytes(Greeting) /\ net' \in Seq(Unit)
      BY <1>1, <2>2, SaysFirst, Bursts
    <3>2. Greeted'
      BY <1>1, <1>4, <2>2, <3>1 DEF Greeted, Said, Accepted
    <3>3. AuthInv'
      BY <1>1, <1>4, <2>2, <3>2 DEF SessionInv, AuthInv, InStartup, InPassword, Authenticating
    <3>4. closed' = FALSE
      BY <1>1, <2>2 DEF SessionInv, TypeInv
    <3> QED
      BY <1>1, <2>2, <3>1, <3>3, <3>4, ServerSpeaks
  <2>3. CASE /\ Says(<<Auth(0), Error(0)>>) /\ server' = [server EXCEPT !.at = "revoked"]
             /\ closed' = TRUE
    <3>1. net' = Bytes(<<Auth(0), Error(0)>>) /\ net' \in Seq(Unit)
      BY <1>1, <2>3, SaysFirst, Bursts
    <3>2. RefusedLate'
      BY <1>1, <2>3, <3>1 DEF RefusedLate
    <3>3. AuthInv'
      BY <1>1, <1>4, <2>3, <3>2 DEF SessionInv, AuthInv, InStartup, InPassword, Authenticating
    <3> QED
      BY <1>1, <2>3, <3>1, <3>3, ServerSpeaks
  <2> QED
    BY <1>4, <2>1, <2>2, <2>3 DEF Welcome
<1>5. CASE Welcome(<<Msg("R", 12, 0)>>) /\ server.good /\ pc = "proof"
  <2> DEFINE ms == <<Auth(12)>> \o Greeting
  <2>1. server.method = "scram"
    BY <1>5 DEF SessionInv, AuthInv, InProof
  <2>2. CASE Says(ms) /\ server' = [server EXCEPT !.at = "ready"] /\ UNCHANGED closed
    <3>1. ms \in Seq(Message)
      BY Bursts
    <3> HIDE DEF ms
    <3>2. net' = Bytes(ms) /\ net' \in Seq(Unit)
      BY <1>1, <2>2, <3>1, SaysFirst
    <3>3. Signed'
      BY <1>1, <1>5, <2>2, <3>2 DEF Signed, Said, Accepted, ms
    <3>4. AuthInv'
      BY <1>1, <1>5, <2>1, <2>2, <3>3 DEF SessionInv, AuthInv, InProof, Authenticating
    <3>5. closed' = FALSE
      BY <1>1, <2>2 DEF SessionInv, TypeInv
    <3> QED
      BY <1>1, <2>2, <3>2, <3>4, <3>5, ServerSpeaks
  <2>3. CASE Says(RevokedBurst) /\ server' = [server EXCEPT !.at = "revoked"] /\ closed' = TRUE
    <3>1. net' = Bytes(RevokedBurst) /\ net' \in Seq(Unit)
      BY <1>1, <2>3, SaysFirst, Bursts
    <3>2. SignedLate'
      BY <1>1, <1>5, <2>3, <3>1 DEF SignedLate, Accepted
    <3>3. AuthInv'
      BY <1>1, <1>5, <2>1, <2>3, <3>2 DEF SessionInv, AuthInv, InProof, Authenticating
    <3> QED
      BY <1>1, <2>3, <3>1, <3>3, ServerSpeaks
  <2>4. <<Auth(12)>> \o <<Auth(0), Error(0)>> = RevokedBurst
    <3> DEFINE x == <<Auth(12)>>
               y == <<Auth(0), Error(0)>>
               z == x \o y
    <3>1. /\ x \in Seq(Message) /\ Len(x) = 1 /\ x[1] = Auth(12)
          /\ y \in Seq(Message) /\ Len(y) = 2 /\ y[1] = Auth(0) /\ y[2] = Error(0)
      BY Bursts
    <3> HIDE DEF x, y
    <3>2. /\ z \in Seq(Message) /\ Len(z) = Len(x) + Len(y)
          /\ \A i \in 1 .. Len(x) + Len(y) : z[i] = IF i <= Len(x) THEN x[i] ELSE y[i - Len(x)]
      BY <3>1, ConcatProperties, Zenon
    <3> HIDE DEF z
    <3>3. Len(z) = 3 /\ z[1] = Auth(12) /\ z[2] = Auth(0) /\ z[3] = Error(0)
      BY <3>1, <3>2
    <3>4. \A i \in 1 .. 3 : z[i] = RevokedBurst[i]
      BY <3>3, Bursts
    <3>5. z = RevokedBurst
      BY <3>2, <3>3, <3>4, Bursts
    <3> QED
      BY <3>5 DEF x, y, z
  <2> QED
    BY <1>5, <2>2, <2>3, <2>4 DEF Welcome, Greeting
<1>6. ASSUME request = "startup", NEW t \in {3, 5, 10}, Asks(t), t = 10 => server.method = "scram"
      PROVE  SessionInv'
  BY <1>1, <1>3, <1>6
<1>7. ASSUME request = "sasl", Asks(11) PROVE SessionInv'
  BY <1>1, <1>3, <1>7
<1>8. Accepted <=> server.method = "trust" \/ server.good
  BY DEF Accepted
<1> QED
  BY <1>1, <1>2, <1>4, <1>5, <1>6, <1>7, <1>8 DEF ServerAuthenticates

\* A request that a closed connection has swallowed: the server has ended, and the
\* client will find the end of the stream, or the error before it.
LEMMA LostStep ==
  ASSUME SessionInv, Lost
  PROVE  SessionInv'
<1>1. /\ closed /\ request # "none" /\ request' = "none" /\ TypeInv
      /\ UNCHANGED <<pc, q, data, result, server, answer, net, closed>>
  BY DEF Lost, clientVars, serverVars, SessionInv
<1>2. TypeInv' /\ ResultInv' /\ OwnRows' /\ NoUndefined' /\ FailureJustified'
  BY <1>1 DEF SessionInv, TypeInv, ResultInv, OwnRows, NoUndefined, FailureJustified
<1>3. AuthInv'
  <2>1. \A r \in {"password", "sasl", "proof"} : Waits(r) => Silent'
    BY <1>1, BytesEmpty DEF Waits, Silent, Said, TypeInv
  <2> QED
    BY <1>1, <2>1 DEF SessionInv, AuthInv, InStartup, InPassword, InSasl, InProof, TypeInv
<1>4. QueryInv'
  <2>1. InReply /\ pc = "reply" => InReply'
    <3>1. data = <<>> => data \o net = net
      BY <1>1 DEF TypeInv
    <3>3. ASSUME InReply PROVE data = <<>> /\ Said(net, <<>>) /\ answer[q] = Unread
      BY <1>1, <3>3 DEF InReply
    <3>4. ASSUME data = <<>>, Said(net, <<>>) PROVE Said(data \o net, <<>>)'
      BY <1>1, <3>1, <3>4 DEF Said
    <3>5. ASSUME InReply, pc = "reply" PROVE InReply'
      BY <1>1, <3>3, <3>4, <3>5 DEF InReply
    <3> QED
      BY <3>5
  <2>2. pc \in {"query", "rows"} => FALSE
    BY <1>1 DEF SessionInv, QueryInv
  <2> QED
    BY <1>1, <2>1, <2>2 DEF SessionInv, QueryInv, Accepted, Heeded, Unheard
<1> QED
  BY <1>2, <1>3, <1>4 DEF SessionInv

\* What was said, when the server adds an error to it.
LEMMA EndsSaid ==
  \A ms \in Seq(Message) : \A i \in 1 .. 2 :
    Bytes(ms) \o Bytes(<<Msg("E", 0, i)>>) = Bytes(Append(ms, Error(i)))
<1> TAKE ms \in Seq(Message)
<1> TAKE i \in 1 .. 2
<1>1. Error(i) \in Message
  BY Messages
<1>2. Bytes(ms) \o Bytes(<<Error(i)>>) = Bytes(Append(ms, Error(i)))
  BY <1>1, BytesAppend
<1> QED
  BY <1>2 DEF Error

\* One sequence behind another, element by element.
LEMMA ConcatAt ==
  \A s, t \in Seq(Message) :
    /\ s \o t \in Seq(Message) /\ Len(s \o t) = Len(s) + Len(t)
    /\ \A j \in 1 .. Len(s) : (s \o t)[j] = s[j]
    /\ \A j \in 1 .. Len(t) : (s \o t)[Len(s) + j] = t[j]
OBVIOUS

\* A reply: rows behind their description and perhaps a notice, then its end, of which
\* the last message alone is ReadyForQuery.
IsReply(ms, end) ==
  /\ ms \in Seq(Message) /\ Len(ms) >= 3 /\ ms[Len(ms)].k = "Z"
  /\ ms[Len(ms) - 1].k = end
  /\ \A j \in 1 .. Len(ms) - 2 : ms[j].k \in {"N", "T", "D"}
  /\ \E j \in 1 .. Len(ms) : ms[j].k = "T"

\* Every answer of the server to a query is such a reply.
LEMMA ReplyFacts ==
  ASSUME NEW i \in 1 .. 2, NEW n \in 0 .. MaxRows,
         NEW notice \in {<<>>, <<Msg("N", 0, i)>>}, NEW end \in {"C", "E"}
  PROVE  IsReply(Reply(i, n, notice, end), end)
<1> DEFINE t == <<Msg("T", 0, i)>>
           a == notice \o t
           r == RowsOf(i, n)
           b == a \o r
           z == <<Msg(end, 0, i), Msg("Z", 0, i)>>
           ms == b \o z
<1>0. n \in Nat /\ 1 .. n \subseteq Nat
  BY SessionAssumption
<1>1. /\ \A k \in {"T", "N", "Z", "C", "E"} : Msg(k, 0, i) \in Message /\ Msg(k, 0, i).k = k
      /\ \A j \in Nat : Msg("D", j, i) \in Message /\ Msg("D", j, i).k = "D"
  BY DEF Msg, Message, Kinds
<1>2. t \in Seq(Message) /\ Len(t) = 1 /\ t[1].k = "T"
  BY <1>1
<1>3. /\ notice \in Seq(Message) /\ Len(notice) \in {0, 1}
      /\ \A j \in 1 .. Len(notice) : notice[j].k = "N"
  <2>1. CASE notice = <<>>
    BY <2>1
  <2>2. CASE notice = <<Msg("N", 0, i)>>
    BY <1>1, <2>2
  <2> QED
    BY <2>1, <2>2
<1>4. /\ r \in Seq(Message) /\ Len(r) = n /\ \A j \in 1 .. n : r[j].k = "D"
  BY <1>0, <1>1 DEF RowsOf
<1>5. /\ z \in Seq(Message) /\ Len(z) = 2 /\ z[1].k = end /\ z[2].k = "Z"
  BY <1>1
<1> HIDE DEF t, r, z
<1>6. /\ a \in Seq(Message) /\ Len(a) = Len(notice) + 1 /\ a[Len(a)].k = "T"
      /\ \A j \in 1 .. Len(a) : a[j].k \in {"N", "T"}
  <2>1. /\ a \in Seq(Message) /\ Len(a) = Len(notice) + Len(t)
        /\ \A j \in 1 .. Len(notice) : a[j] = notice[j]
        /\ \A j \in 1 .. Len(t) : a[Len(notice) + j] = t[j]
    BY <1>2, <1>3, ConcatAt
  <2> HIDE DEF a
  <2>2. a[Len(notice) + 1] = t[1]
    BY <1>2, <2>1
  <2>3. \A j \in 1 .. Len(notice) + 1 : j \in 1 .. Len(notice) \/ j = Len(notice) + 1
    BY <1>3
  <2> QED
    BY <1>2, <1>3, <2>1, <2>2, <2>3
<1> HIDE DEF a
<1>7. /\ b \in Seq(Message) /\ Len(b) = Len(a) + n
      /\ \A j \in 1 .. Len(a) : b[j] = a[j]
      /\ \A j \in 1 .. Len(b) : b[j].k \in {"N", "T", "D"}
  <2>1. /\ b \in Seq(Message) /\ Len(b) = Len(a) + Len(r)
        /\ \A j \in 1 .. Len(a) : b[j] = a[j]
        /\ \A j \in 1 .. Len(r) : b[Len(a) + j] = r[j]
    BY <1>4, <1>6, ConcatAt
  <2> HIDE DEF b
  <2>2. \A j \in 1 .. Len(a) + n : j \in 1 .. Len(a) \/ (j - Len(a) \in 1 .. n /\ Len(a) + (j - Len(a)) = j)
    BY <1>0, <1>6
  <2>3. ASSUME NEW j \in 1 .. Len(a) + n PROVE b[j].k \in {"N", "T", "D"}
    <3>1. CASE j \in 1 .. Len(a)
      BY <1>6, <2>1, <3>1
    <3>2. CASE j - Len(a) \in 1 .. n /\ Len(a) + (j - Len(a)) = j
      <4>1. b[Len(a) + (j - Len(a))] = r[j - Len(a)]
        BY <1>4, <2>1, <3>2
      <4> QED
        BY <1>4, <3>2, <4>1
    <3> QED
      BY <2>2, <3>1, <3>2
  <2> QED
    BY <1>4, <2>1, <2>3
<1>8. Len(a) \in 1 .. Len(b) /\ b[Len(a)].k = "T"
  BY <1>0, <1>3, <1>6, <1>7
<1> HIDE DEF b
<1>9. /\ ms \in Seq(Message) /\ Len(ms) = Len(b) + 2
      /\ ms[Len(b) + 1] = z[1] /\ ms[Len(b) + 2] = z[2]
      /\ \A j \in 1 .. Len(b) : ms[j] = b[j]
  <2>1. /\ ms \in Seq(Message) /\ Len(ms) = Len(b) + Len(z)
        /\ \A j \in 1 .. Len(b) : ms[j] = b[j]
        /\ \A j \in 1 .. Len(z) : ms[Len(b) + j] = z[j]
    BY <1>5, <1>7, ConcatAt
  <2> HIDE DEF ms
  <2> QED
    BY <1>5, <2>1
<1>10. Len(b) \in Nat /\ Len(b) >= 1
  BY <1>7, <1>8
<1> HIDE DEF ms
<1>11. /\ Len(ms) >= 3 /\ ms[Len(ms)].k = "Z" /\ ms[Len(ms) - 1].k = end
       /\ \A j \in 1 .. Len(ms) - 2 : ms[j].k \in {"N", "T", "D"}
       /\ \E j \in 1 .. Len(ms) : ms[j].k = "T"
  BY <1>5, <1>7, <1>8, <1>9, <1>10
<1>12. ms = Reply(i, n, notice, end)
  BY DEF ms, b, a, t, r, z, Reply
<1> QED
  BY <1>9, <1>11, <1>12 DEF IsReply

\* The server ends, and may say so behind whatever is still unread.
LEMMA ServerEndsStep ==
  ASSUME SessionInv, ServerEnds
  PROVE  SessionInv'
<1>1. /\ UNCHANGED <<pc, q, data, result, answer>> /\ ~closed /\ closed' = TRUE
      /\ request' = "none" /\ server' = [server EXCEPT !.at = "ended"] /\ pc # "connect"
      /\ Says(<<Msg("E", 0, q)>>) \/ UNCHANGED net
      /\ TypeInv /\ server.at \notin {"refused", "revoked", "ended"}
      /\ net \in Seq(Unit) /\ data \in Seq(Unit) /\ q \in 1 .. 2
  BY DEF ServerEnds, clientVars, SessionInv, TypeInv
<1> DEFINE e == Bytes(<<Msg("E", 0, q)>>)
<1>2. e \in Seq(Unit)
  <2>1. Error(q) \in Message
    BY <1>1, Messages
  <2>2. <<Error(q)>> \in Seq(Message)
    BY <2>1
  <2> QED
    BY <2>2, BytesType DEF Error
<1>3. net' = net \/ net' = net \o e
  BY <1>1 DEF Says
<1>4. data \o net' = data \o net \/ data \o net' = (data \o net) \o e
  <2>1. \A a, b, c \in Seq(Unit) : (a \o b) \o c = a \o (b \o c)
    OBVIOUS
  <2> HIDE DEF e
  <2>2. (data \o net) \o e = data \o (net \o e)
    BY <1>1, <1>2, <2>1
  <2> QED
    BY <1>3, <2>2
<1>5. server'.at = "ended" /\ server'.method = server.method /\ server'.good = server.good
  BY <1>1 DEF TypeInv
<1>6. TypeInv' /\ ResultInv' /\ OwnRows' /\ NoUndefined' /\ FailureJustified'
  <2>1. net' \in Seq(Unit)
    <3> HIDE DEF e
    <3>1. net \o e \in Seq(Unit)
      BY <1>1, <1>2, ConcatProperties
    <3> QED
      BY <1>1, <1>3, <3>1
  <2> QED
    BY <1>1, <1>5, <2>1 DEF SessionInv, TypeInv, ResultInv, OwnRows, NoUndefined, FailureJustified
<1>7. \A ms \in Seq(Message) : Said(net, ms) => Said(net, ms)'
  <2> SUFFICES ASSUME NEW ms \in Seq(Message), Said(net, ms) PROVE Said(net, ms)'
    BY Zenon
  <2>0. q \in 0 .. 2 /\ q \in 1 .. 2
    BY <1>1
  <2>1. net = Bytes(ms)
    BY <1>1 DEF Said
  <2>2. net' = Bytes(ms) \/ \E j \in 0 .. 2 : net' = Bytes(Append(ms, Error(j)))
    BY <1>1, <1>3, <2>0, <2>1, EndsSaid
  <2> QED
    BY <1>1, <1>5, <2>2 DEF Said
<1>8. \A ms \in Seq(Message) : Said(data \o net, ms) => Said(data \o net, ms)'
  <2> SUFFICES ASSUME NEW ms \in Seq(Message), Said(data \o net, ms) PROVE Said(data \o net, ms)'
    BY Zenon
  <2>0. q \in 0 .. 2 /\ q \in 1 .. 2
    BY <1>1
  <2>1. data \o net = Bytes(ms)
    BY <1>1 DEF Said
  <2>2. data \o net' = Bytes(ms) \/ \E j \in 0 .. 2 : data \o net' = Bytes(Append(ms, Error(j)))
    BY <1>1, <1>4, <2>0, <2>1, EndsSaid
  <2> QED
    BY <1>1, <1>5, <2>2 DEF Said
<1>9. net = <<>> => Said(net, <<>>)
  BY BytesEmpty DEF Said
<1>10. Said(net, <<>>) => Said(net, <<>>)'
  BY <1>7, Bursts
<1>11. Said(net, Greeting) => Said(net, Greeting)'
  BY <1>7, Bursts
<1>12. Said(net, <<Auth(12)>> \o Greeting) => Said(net, <<Auth(12)>> \o Greeting)'
  BY <1>7, Bursts
<1>13. \A t \in Nat : Said(net, <<Auth(t)>>) => Said(net, <<Auth(t)>>)'
  BY <1>7, Bursts
<1>14. AuthInv'
  <2>1. ~Refused /\ ~RefusedLate /\ ~SignedLate /\ ~Silent
    BY <1>1 DEF Refused, RefusedLate, SignedLate, Silent
  <2>2. net = <<>> => Silent'
    BY <1>5, <1>9, <1>10 DEF Silent
  <2>3. Greeted => Greeted'
    BY <1>5, <1>11 DEF Greeted, Accepted
  <2>4. Signed => Signed'
    BY <1>5, <1>12 DEF Signed, Accepted
  <2>5. \A t \in Nat : Asked(t) => Asked(t)'
    BY <1>5, <1>13 DEF Asked
  <2>6. pc = "startup" => InStartup'
    BY <1>1, <1>5, <2>1, <2>2, <2>3, <2>5 DEF SessionInv, AuthInv, InStartup
  <2>7. pc = "password" => InPassword'
    BY <1>1, <1>5, <2>1, <2>2, <2>3 DEF SessionInv, AuthInv, InPassword, Waits
  <2>8. pc = "sasl" => InSasl'
    BY <1>1, <1>5, <2>1, <2>2, <2>5 DEF SessionInv, AuthInv, InSasl, Waits
  <2>9. pc = "proof" => InProof'
    BY <1>1, <1>5, <2>1, <2>2, <2>4 DEF SessionInv, AuthInv, InProof, Waits
  <2> QED
    BY <1>1, <2>6, <2>7, <2>8, <2>9 DEF SessionInv, AuthInv
<1>15. pc = "reply" => InReply'
  <2> SUFFICES ASSUME pc = "reply" PROVE InReply'
    OBVIOUS
  <2>1. CASE request = "query" /\ data = <<>> /\ Said(net, <<>>) /\ answer[q] = Unread
    <3>1. data \o net' = net'
      BY <1>2, <1>3, <1>1, <2>1
    <3>2. Said(data \o net, <<>>)'
      BY <1>1, <1>10, <2>1, <3>1
    <3> QED
      BY <1>1, <1>5, <2>1, <3>2 DEF InReply
  <2>2. CASE /\ request = "none" /\ ~HasMessage("Z", data)
             /\ \E n \in 0 .. MaxRows, notice \in {<<>>, <<Msg("N", 0, q)>>}, end \in {"C", "E"} :
                  /\ Said(data \o net, Reply(q, n, notice, end))
                  /\ answer[q] = IF end = "E" THEN Failed ELSE Table(RowsOf(q, n))
    <3>1. PICK n \in 0 .. MaxRows, notice \in {<<>>, <<Msg("N", 0, q)>>}, end \in {"C", "E"} :
             /\ Said(data \o net, Reply(q, n, notice, end))
             /\ answer[q] = IF end = "E" THEN Failed ELSE Table(RowsOf(q, n))
      BY <2>2
    <3>2. PICK ms : ms = Reply(q, n, notice, end)
      OBVIOUS
    <3>3. ms \in Seq(Message)
      <4>1. IsReply(ms, end)
        BY <1>1, <3>2, ReplyFacts
      <4> QED
        BY <4>1 DEF IsReply
    <3>4. Said(data \o net, Reply(q, n, notice, end))'
      <4>1. Said(data \o net, ms)'
        BY <1>8, <3>1, <3>2, <3>3
      <4>2. ms = Reply(q, n, notice, end)'
        BY <1>1, <3>2
      <4> QED
        BY <4>1, <4>2
    <3>5. ~HasMessage("Z", data)'
      BY <1>1, <2>2
    <3> QED
      BY <1>1, <3>1, <3>4, <3>5 DEF InReply
  <2> QED
    BY <1>1, <2>1, <2>2 DEF SessionInv, QueryInv, InReply
<1>16. QueryInv'
  <2>1. Heeded'
    BY <1>5 DEF Heeded
  <2> QED
    BY <1>1, <1>5, <1>10, <1>15, <2>1 DEF SessionInv, QueryInv, Accepted
<1> QED
  BY <1>6, <1>14, <1>16 DEF SessionInv

-----------------------------------------------------------------------------
(* The rows of a reply *)

RowOf == [u \in Unit |-> IF u.part = "type" /\ u.m.k = "D" THEN <<u.m>> ELSE <<>>]
DataOf == [m \in Message |-> IF m.k = "D" THEN <<m>> ELSE <<>>]

\* Every unit, and every message, gives one row or none.
LEMMA RowTypes == RowOf \in [Unit -> Seq(Message)] /\ DataOf \in [Message -> Seq(Message)]
<1>1. \A m \in Message : <<m>> \in Seq(Message)
  OBVIOUS
<1>2. <<>> \in Seq(Message)
  OBVIOUS
<1>3. \A u \in Unit : u.m \in Message
  BY DEF Unit
<1>4. \A u \in Unit : (IF u.part = "type" /\ u.m.k = "D" THEN <<u.m>> ELSE <<>>) \in Seq(Message)
  BY <1>1, <1>2, <1>3
<1>5. \A m \in Message : (IF m.k = "D" THEN <<m>> ELSE <<>>) \in Seq(Message)
  BY <1>1, <1>2
<1> QED
  BY <1>4, <1>5 DEF RowOf, DataOf

\* Rows takes the units one by one.
LEMMA RowsFlat == \A d \in Seq(Unit) : Rows(d) = FlatMap(RowOf, d)
<1> TAKE d \in Seq(Unit)
<1>1. \A j \in DOMAIN d : d[j] \in Unit
  OBVIOUS
<1>2. \A j \in DOMAIN d :
        RowOf[d[j]] = IF d[j].part = "type" /\ d[j].m.k = "D" THEN <<d[j].m>> ELSE <<>>
  BY <1>1 DEF RowOf
<1> DEFINE row(j) == IF d[j].part = "type" /\ d[j].m.k = "D" THEN <<d[j].m>> ELSE <<>>
<1>3. \A j \in DOMAIN d : RowOf[d[j]] = row(j)
  BY <1>2
<1> HIDE DEF row
<1>4. [j \in DOMAIN d |-> row(j)] = [j \in DOMAIN d |-> RowOf[d[j]]]
  BY <1>3
<1>5. Rows(d) = FlattenSeq([j \in DOMAIN d |-> row(j)])
  BY DEF Rows, row
<1> QED
  BY <1>4, <1>5 DEF FlatMap, Images

\* The three units of one more message.
LEMMA BytesThree ==
  ASSUME NEW ms \in Seq(Message), NEW m \in Message
  PROVE  /\ \A p \in Parts : [m |-> m, part |-> p] \in Unit
         /\ Bytes(Append(ms, m)) =
              Append(Append(Append(Bytes(ms), [m |-> m, part |-> "type"]),
                            [m |-> m, part |-> "len"]), [m |-> m, part |-> "body"])
<1> DEFINE u == [m |-> m, part |-> "type"]
           v == [m |-> m, part |-> "len"]
           w == [m |-> m, part |-> "body"]
           one == <<m>>
           a == Bytes(ms)
           b == Bytes(one)
<1>1. \A p \in Parts : [m |-> m, part |-> p] \in Unit
  BY DEF Unit
<1>2. u \in Unit /\ v \in Unit /\ w \in Unit
  BY DEF Unit, Parts
<1>3. one \in Seq(Message) /\ Len(one) = 1 /\ one[1] = m
  OBVIOUS
<1>4. Bytes(Append(ms, m)) = a \o b
  BY BytesAppend
<1> HIDE DEF one
<1>5. /\ b[3 * 1 - 2] = [m |-> one[1], part |-> "type"]
      /\ b[3 * 1 - 1] = [m |-> one[1], part |-> "len"]
      /\ b[3 * 1] = [m |-> one[1], part |-> "body"]
  <2>1. 1 \in 1 .. Len(one)
    BY <1>3
  <2> QED
    BY <1>3, <2>1, BytesAt
<1>6. b \in Seq(Unit) /\ Len(b) = 3 /\ a \in Seq(Unit)
  <2>1. b \in Seq(Unit) /\ Len(b) = 3 * Len(one) /\ a \in Seq(Unit)
    BY <1>3, BytesType
  <2> QED
    BY <1>3, <2>1
<1>7. b[1] = u /\ b[2] = v /\ b[3] = w
  <2>1. 3 * 1 - 2 = 1 /\ 3 * 1 - 1 = 2 /\ 3 * 1 = 3
    OBVIOUS
  <2> QED
    BY <1>3, <1>5, <2>1
<1> HIDE DEF a, b, u, v, w
<1> DEFINE c == Append(Append(Append(a, u), v), w)
<1>8. c \in Seq(Unit) /\ Len(c) = Len(a) + 3 /\ Len(a) \in Nat
  BY <1>2, <1>6
<1>9. \A j \in 1 .. Len(a) : c[j] = a[j]
  BY <1>2, <1>6
<1>10. c[Len(a) + 1] = u /\ c[Len(a) + 2] = v /\ c[Len(a) + 3] = w
  BY <1>2, <1>6
<1> HIDE DEF c
<1>11. /\ a \o b \in Seq(Unit) /\ Len(a \o b) = Len(a) + Len(b)
       /\ \A j \in 1 .. Len(a) + Len(b) : (a \o b)[j] = IF j <= Len(a) THEN a[j] ELSE b[j - Len(a)]
  BY <1>6, ConcatProperties, Zenon
<1>12. \A j \in 1 .. Len(a) + 3 : (a \o b)[j] = c[j]
  <2> TAKE j \in 1 .. Len(a) + 3
  <2>1. (a \o b)[j] = IF j <= Len(a) THEN a[j] ELSE b[j - Len(a)]
    BY <1>6, <1>11
  <2>2. j \in 1 .. Len(a) \/ j = Len(a) + 1 \/ j = Len(a) + 2 \/ j = Len(a) + 3
    BY <1>8
  <2> QED
    BY <1>7, <1>8, <1>9, <1>10, <2>1, <2>2
<1>13. a \o b = c
  BY <1>6, <1>8, <1>11, <1>12, SeqEqual, SMTT(30)
<1> QED
  BY <1>1, <1>4, <1>13 DEF c, a, b, u, v, w, one

\* The rows in the bytes of messages are their DataRows.
LEMMA RowsBytes == \A ms \in Seq(Message) : Rows(Bytes(ms)) = FlatMap(DataOf, ms)
<1> DEFINE L == {ms \in Seq(Message) : FlatMap(RowOf, Bytes(ms)) = FlatMap(DataOf, ms)}
<1>1. <<>> \in L
  <2>1. FlatMap(RowOf, <<>>) = <<>> /\ FlatMap(DataOf, <<>>) = <<>>
    BY RowTypes, FlatMapAppend, Zenon
  <2> QED
    BY <2>1, BytesEmpty
<1>2. ASSUME NEW ms \in Seq(Message), NEW m \in Message, ms \in L PROVE Append(ms, m) \in L
  <2> DEFINE u == [m |-> m, part |-> "type"]
             v == [m |-> m, part |-> "len"]
             w == [m |-> m, part |-> "body"]
             a == Bytes(ms)
  <2>1. u \in Unit /\ v \in Unit /\ w \in Unit /\ a \in Seq(Unit)
    BY BytesThree, BytesType DEF Parts
  <2>2. RowOf[u] = DataOf[m] /\ RowOf[v] = <<>> /\ RowOf[w] = <<>>
    BY <2>1 DEF RowOf, DataOf
  <2>3. Bytes(Append(ms, m)) = Append(Append(Append(a, u), v), w)
    BY BytesThree
  <2>4. FlatMap(RowOf, a) = FlatMap(DataOf, ms)
    BY <1>2
  <2> HIDE DEF u, v, w, a
  <2>5. Append(a, u) \in Seq(Unit) /\ Append(Append(a, u), v) \in Seq(Unit)
    BY <2>1
  <2>12. \A d \in Seq(Unit) : \A x \in Unit :
           FlatMap(RowOf, Append(d, x)) = FlatMap(RowOf, d) \o RowOf[x]
    BY RowTypes, FlatMapAppend, Zenon
  <2>6. /\ FlatMap(RowOf, Append(a, u)) = FlatMap(RowOf, a) \o DataOf[m]
        /\ FlatMap(RowOf, Append(Append(a, u), v)) = FlatMap(RowOf, Append(a, u)) \o <<>>
        /\ FlatMap(RowOf, Append(Append(Append(a, u), v), w))
             = FlatMap(RowOf, Append(Append(a, u), v)) \o <<>>
    BY <2>1, <2>2, <2>5, <2>12
  <2>7. \A d \in Seq(Unit) : FlatMap(RowOf, d) \in Seq(Message)
    BY RowTypes, FlatMapType, Zenon
  <2>8. \A s \in Seq(Message) : s \o <<>> = s
    OBVIOUS
  <2>9. FlatMap(RowOf, Bytes(Append(ms, m))) = FlatMap(RowOf, a) \o DataOf[m]
    BY <2>3, <2>5, <2>6, <2>7, <2>8
  <2>10. FlatMap(DataOf, Append(ms, m)) = FlatMap(DataOf, ms) \o DataOf[m]
    BY RowTypes, FlatMapAppend, Zenon
  <2>11. Append(ms, m) \in Seq(Message)
    OBVIOUS
  <2> QED
    BY <2>4, <2>9, <2>10, <2>11
<1> HIDE DEF L
<1>3. Seq(Message) \subseteq L
  BY <1>1, <1>2, SeqInduction
<1>4. \A ms \in Seq(Message) : Bytes(ms) \in Seq(Unit)
  BY BytesType
<1> QED
  BY <1>3, <1>4, RowsFlat DEF L

\* Messages that are no DataRows have no rows.
LEMMA NoData ==
  \A ms \in Seq({m \in Message : m.k # "D"}) : FlatMap(DataOf, ms) = <<>>
<1> DEFINE O == {m \in Message : m.k # "D"}
           L == {ms \in Seq(O) : FlatMap(DataOf, ms) = <<>>}
<1>1. <<>> \in L
  <2>1. FlatMap(DataOf, <<>>) = <<>>
    BY RowTypes, FlatMapAppend, Zenon
  <2> QED
    BY <2>1
<1>2. ASSUME NEW ms \in Seq(O), NEW m \in O, ms \in L PROVE Append(ms, m) \in L
  <2>1. ms \in Seq(Message) /\ m \in Message /\ DataOf[m] = <<>> /\ Append(ms, m) \in Seq(O)
    BY DEF DataOf
  <2>2. FlatMap(DataOf, Append(ms, m)) = FlatMap(DataOf, ms) \o <<>>
    BY <2>1, RowTypes, FlatMapAppend, Zenon
  <2> QED
    BY <1>2, <2>1, <2>2
<1> HIDE DEF L
<1>3. Seq(O) \subseteq L
  BY <1>1, <1>2, SeqInduction
<1> QED
  BY <1>3 DEF L

\* DataRows are their own rows.
LEMMA AllData ==
  \A ms \in Seq({m \in Message : m.k = "D"}) : FlatMap(DataOf, ms) = ms
<1> DEFINE O == {m \in Message : m.k = "D"}
           L == {ms \in Seq(O) : FlatMap(DataOf, ms) = ms}
<1>1. <<>> \in L
  <2>1. FlatMap(DataOf, <<>>) = <<>>
    BY RowTypes, FlatMapAppend, Zenon
  <2> QED
    BY <2>1
<1>2. ASSUME NEW ms \in Seq(O), NEW m \in O, ms \in L PROVE Append(ms, m) \in L
  <2>1. ms \in Seq(Message) /\ m \in Message /\ DataOf[m] = <<m>> /\ Append(ms, m) \in Seq(O)
    BY DEF DataOf
  <2>2. FlatMap(DataOf, Append(ms, m)) = FlatMap(DataOf, ms) \o <<m>>
    BY <2>1, RowTypes, FlatMapAppend, ZenonT(30)
  <2>3. ms \o <<m>> = Append(ms, m)
    BY <2>1
  <2> QED
    BY <1>2, <2>1, <2>2, <2>3
<1> HIDE DEF L
<1>3. Seq(O) \subseteq L
  BY <1>1, <1>2, SeqInduction
<1> QED
  BY <1>3 DEF L

\* The rows of two sequences of messages, one behind the other.
LEMMA DataConcat ==
  \A s \in Seq(Message) : \A t \in Seq(Message) :
    FlatMap(DataOf, s \o t) = FlatMap(DataOf, s) \o FlatMap(DataOf, t)
<1> DEFINE F == DataOf
<1>1. F \in [Message -> Seq(Message)]
  BY RowTypes
<1> HIDE DEF F
<1>2. \A s \in Seq(Message) : \A t \in Seq(Message) :
        FlatMap(F, s \o t) = FlatMap(F, s) \o FlatMap(F, t)
  BY <1>1, FlatMapConcat
<1> QED
  BY <1>2 DEF F

\* What query_execute extracts from a whole reply is what the server answered.
LEMMA RowsOfReply ==
  ASSUME NEW i \in 1 .. 2, NEW n \in 0 .. MaxRows,
         NEW notice \in {<<>>, <<Msg("N", 0, i)>>}, NEW end \in {"C", "E"}
  PROVE  Rows(Bytes(Reply(i, n, notice, end))) = RowsOf(i, n)
<1> DEFINE O == {m \in Message : m.k # "D"}
           D == {m \in Message : m.k = "D"}
           t == <<Msg("T", 0, i)>>
           a == notice \o t
           r == RowsOf(i, n)
           b == a \o r
           z == <<Msg(end, 0, i), Msg("Z", 0, i)>>
           ms == b \o z
<1>0. n \in Nat /\ 1 .. n \subseteq Nat
  BY SessionAssumption
<1>1. /\ \A k \in {"T", "N", "Z", "C", "E"} : Msg(k, 0, i) \in O
      /\ \A j \in Nat : Msg("D", j, i) \in D
  BY DEF Msg, Message, Kinds
<1>2. t \in Seq(O) /\ z \in Seq(O) /\ notice \in Seq(O)
  <2>1. notice = <<>> => notice \in Seq(O)
    OBVIOUS
  <2>2. notice = <<Msg("N", 0, i)>> => notice \in Seq(O)
    BY <1>1
  <2>3. t \in Seq(O) /\ z \in Seq(O)
    BY <1>1
  <2> QED
    BY <2>1, <2>2, <2>3
<1>3. r \in Seq(D)
  BY <1>0, <1>1 DEF RowsOf
<1> HIDE DEF t, r, z
<1>4. a \in Seq(O)
  BY <1>2
<1> HIDE DEF a
<1>5. a \in Seq(Message) /\ r \in Seq(Message) /\ z \in Seq(Message)
  BY <1>2, <1>3, <1>4
<1>6. b \in Seq(Message) /\ ms \in Seq(Message)
  BY <1>5
<1>7. FlatMap(DataOf, b) = FlatMap(DataOf, a) \o FlatMap(DataOf, r)
  BY <1>5, DataConcat
<1> HIDE DEF b
<1>8. FlatMap(DataOf, ms) = FlatMap(DataOf, b) \o FlatMap(DataOf, z)
  BY <1>5, <1>6, DataConcat
<1>9. FlatMap(DataOf, a) = <<>> /\ FlatMap(DataOf, z) = <<>> /\ FlatMap(DataOf, r) = r
  BY <1>2, <1>3, <1>4, NoData, AllData
<1>10. FlatMap(DataOf, ms) = r
  <2>1. <<>> \o r = r /\ r \o <<>> = r
    BY <1>5
  <2> QED
    BY <1>7, <1>8, <1>9, <2>1
<1>11. ms = Reply(i, n, notice, end)
  BY DEF ms, b, a, t, r, z, Reply
<1> HIDE DEF ms
<1> QED
  BY <1>6, <1>10, <1>11, RowsBytes DEF r

-----------------------------------------------------------------------------
(* The queries *)

\* Nothing changes for a client that finds nothing to read.
LEMMA Stutters == SessionInv /\ UNCHANGED vars => SessionInv'
<1> SUFFICES ASSUME SessionInv, UNCHANGED vars PROVE SessionInv'
  OBVIOUS
<1>1. UNCHANGED <<pc, q, data, result, net, closed, server, request, answer>>
  BY DEF vars
<1>2. AuthInv'
  BY <1>1 DEF SessionInv, AuthInv, InStartup, InPassword, InSasl, InProof, Silent, Refused,
              RefusedLate, Asked, Greeted, Signed, SignedLate, Waits, Said, Accepted
<1>3. QueryInv'
  <2>1. InReply' <=> InReply
    BY <1>1 DEF InReply, Said, HasMessage, Reply, RowsOf
  <2>2. Said(net, <<>>)' <=> Said(net, <<>>)
    BY <1>1 DEF Said
  <2> QED
    BY <1>1, <2>1, <2>2 DEF SessionInv, QueryInv, Accepted, Heeded, Unheard
<1>4. TypeInv' /\ ResultInv' /\ OwnRows' /\ NoUndefined' /\ FailureJustified'
  BY <1>1 DEF SessionInv, TypeInv, ResultInv, OwnRows, NoUndefined, FailureJustified
<1> QED
  BY <1>2, <1>3, <1>4 DEF SessionInv

\* The query is written to a stream on which nothing was said but, perhaps, that the
\* server has ended.
LEMMA SendQueryStep ==
  ASSUME SessionInv, SendQuery
  PROVE  SessionInv'
<1>1. /\ pc = "query" /\ data' = <<>> /\ TypeInv /\ Write("query", "reply")
      /\ UNCHANGED <<q, result, net, closed, server, answer>>
      /\ Said(net, <<>>) /\ answer[q] = Unread /\ result[q] = Unread
  BY DEF SendQuery, serverVars, SessionInv, QueryInv, ResultInv
<1>2. CASE request' = "query" /\ pc' = "reply"
  <2>1. TypeInv'
    BY <1>1, <1>2 DEF TypeInv
  <2>2. AuthInv'
    BY <1>2 DEF AuthInv, Authenticating
  <2>3. InReply'
    BY <1>1, <1>2 DEF InReply, Said
  <2>4. QueryInv'
    BY <1>1, <1>2, <2>3 DEF SessionInv, QueryInv, Ended, Accepted, Heeded, Unheard
  <2>5. ResultInv' /\ OwnRows' /\ NoUndefined' /\ FailureJustified'
    BY <1>1, <1>2 DEF SessionInv, ResultInv, OwnRows, NoUndefined, FailureJustified, Authenticating
  <2> QED
    BY <2>1, <2>2, <2>4, <2>5 DEF SessionInv
<1>3. CASE closed /\ request' = "none" /\ pc' = "failed"
  <2>1. TypeInv' /\ server.at \in {"refused", "revoked", "ended"}
    BY <1>1, <1>3 DEF TypeInv, Ended
  <2>2. AuthInv' /\ QueryInv'
    BY <1>3 DEF AuthInv, QueryInv, Authenticating
  <2>3. ResultInv' /\ OwnRows' /\ NoUndefined' /\ FailureJustified'
    BY <1>1, <1>3, <2>1
    DEF SessionInv, ResultInv, OwnRows, NoUndefined, FailureJustified, Authenticating
  <2> QED
    BY <2>1, <2>2, <2>3 DEF SessionInv
<1> QED
  BY <1>1, <1>2, <1>3 DEF Write

\* What the server answers is what its bytes say.
LEMMA ServerAnswersStep ==
  ASSUME SessionInv, ServerAnswers
  PROVE  SessionInv'
<1>1. /\ ~closed /\ request = "query" /\ request' = "none" /\ TypeInv
      /\ UNCHANGED <<pc, q, data, result, closed, server>>
      /\ net = <<>> /\ pc = "reply" /\ data = <<>> /\ answer[q] = Unread /\ q \in 1 .. 2
  BY Requested DEF ServerAnswers, clientVars, SessionInv, TypeInv
<1>2. PICK n \in 0 .. MaxRows, notice \in {<<>>, <<Msg("N", 0, q)>>}, end \in {"C", "E"} :
        /\ Says(Reply(q, n, notice, end))
        /\ answer' = [answer EXCEPT ![q] = IF end = "E" THEN Failed ELSE Table(RowsOf(q, n))]
  <2>1. PICK n \in 0 .. MaxRows, notice \in {<<>>, <<Msg("N", 0, q)>>} :
          \/ /\ Says(Reply(q, n, notice, "C"))
             /\ answer' = [answer EXCEPT ![q] = Table(RowsOf(q, n))]
          \/ /\ Says(Reply(q, n, notice, "E"))
             /\ answer' = [answer EXCEPT ![q] = Failed]
    BY DEF ServerAnswers, Reply
  <2>2. CASE Says(Reply(q, n, notice, "C")) /\ answer' = [answer EXCEPT ![q] = Table(RowsOf(q, n))]
    BY <2>2
  <2>3. CASE Says(Reply(q, n, notice, "E")) /\ answer' = [answer EXCEPT ![q] = Failed]
    BY <2>3
  <2> QED
    BY <2>1, <2>2, <2>3
<1>3. PICK ms : ms = Reply(q, n, notice, end)
  OBVIOUS
<1>4. ms \in Seq(Message)
  <2>1. IsReply(ms, end)
    BY <1>1, <1>3, ReplyFacts
  <2> QED
    BY <2>1 DEF IsReply
<1>5. net' = Bytes(ms) /\ net' \in Seq(Unit)
  BY <1>1, <1>2, <1>3, <1>4, SaysFirst
<1>6. PICK a : a = IF end = "E" THEN Failed ELSE Table(RowsOf(q, n))
  OBVIOUS
<1>7. a \in Outcome /\ a # Command
  <2>1. RowsOf(q, n) \in Seq(Message)
    <3>1. n \in Nat /\ \A j \in 1 .. n : Msg("D", j, q) \in Message
      BY <1>1, SessionAssumption DEF Msg, Message, Kinds
    <3> QED
      BY <3>1 DEF RowsOf
  <2>2. <<>> \in Seq(Message)
    BY Bursts
  <2> QED
    BY <1>6, <2>1, <2>2 DEF Outcome, Failed, Table, Command
<1>8. /\ answer' = [answer EXCEPT ![q] = a] /\ answer' \in [1 .. 2 -> Outcome] /\ answer'[q] = a
      /\ \A i \in 1 .. 2 : i # q => answer'[i] = answer[i]
  BY <1>1, <1>2, <1>6, <1>7 DEF TypeInv
<1>9. TypeInv'
  BY <1>1, <1>5, <1>7, <1>8 DEF TypeInv
<1>10. InReply'
  <2>1. data' \o net' = net'
    BY <1>1, <1>5
  <2>2. Said(data \o net, Reply(q, n, notice, end))'
    <3>1. Said(data \o net, ms)'
      BY <1>5, <2>1 DEF Said
    <3>2. ms = Reply(q, n, notice, end)'
      BY <1>1, <1>3
    <3> QED
      BY <3>1, <3>2
  <2>3. ~HasMessage("Z", data)'
    BY <1>1 DEF HasMessage
  <2>4. notice \in {<<>>, <<Msg("N", 0, q)>>}' /\ RowsOf(q, n)' = RowsOf(q, n)
    BY <1>1
  <2>5. (answer[q])' = IF end = "E" THEN Failed ELSE Table(RowsOf(q, n)')
    BY <1>1, <1>6, <1>8, <2>4
  <2> QED
    BY <1>1, <2>2, <2>3, <2>4, <2>5 DEF InReply
<1>11. AuthInv' /\ QueryInv'
  BY <1>1, <1>10 DEF SessionInv, AuthInv, QueryInv, Authenticating, Ended, Accepted, Heeded, Unheard
<1>12. result[q] = Unread /\ (q = 2 => result[1] = answer[1])
       /\ (q = 1 => result[2] = Unread /\ answer[2] = Unread)
  BY <1>1 DEF SessionInv, ResultInv
<1>13. ResultInv'
  BY <1>1, <1>8, <1>12 DEF ResultInv, Authenticating
<1>14. OwnRows' /\ NoUndefined' /\ FailureJustified'
  BY <1>1, <1>8, <1>12 DEF SessionInv, OwnRows, NoUndefined, FailureJustified
<1> QED
  BY <1>9, <1>11, <1>13, <1>14 DEF SessionInv

\* The rows are used when they are the server's; then comes the next query, or the end.
LEMMA UseRowsStep ==
  ASSUME SessionInv, UseRows
  PROVE  SessionInv'
<1>1. /\ pc = "rows" /\ TypeInv /\ q \in 1 .. 2
      /\ UNCHANGED <<data, result, net, closed, server, answer, request>>
      /\ request = "none" /\ Said(net, <<>>) /\ result[q] = answer[q] /\ result[q].is = "rows"
      /\ Heeded /\ Accepted
      /\ (q = 2 => result[1] = answer[1]) /\ (q = 1 => result[2] = Unread /\ answer[2] = Unread)
  BY DEF UseRows, serverVars, SessionInv, TypeInv, QueryInv, ResultInv
<1>2. Said(net, <<>>)' /\ Accepted' /\ Heeded'
  BY <1>1 DEF Said, Accepted, Heeded, Unheard
<1>3. CASE q = 1 /\ q' = 2 /\ pc' = "query"
  <2>1. TypeInv' /\ AuthInv' /\ QueryInv'
    BY <1>1, <1>2, <1>3 DEF TypeInv, AuthInv, QueryInv, Authenticating, Ended
  <2>2. ResultInv' /\ OwnRows' /\ NoUndefined' /\ FailureJustified'
    BY <1>1, <1>3 DEF SessionInv, ResultInv, OwnRows, NoUndefined, FailureJustified, Authenticating
  <2> QED
    BY <2>1, <2>2 DEF SessionInv
<1>4. CASE q' = q /\ ((q = 1 /\ pc' = "failed") \/ (q = 2 /\ pc' = "done"))
  <2>1. TypeInv' /\ AuthInv' /\ QueryInv'
    BY <1>1, <1>2, <1>4 DEF TypeInv, AuthInv, QueryInv, Authenticating, Ended
  <2>2. ResultInv' /\ NoUndefined' /\ FailureJustified'
    BY <1>1, <1>4 DEF ResultInv, NoUndefined, FailureJustified, Authenticating
  <2>3. pc' = "done" => answer = result
    BY <1>1, <1>4 DEF TypeInv
  <2>4. OwnRows'
    BY <1>1, <2>3 DEF SessionInv, OwnRows
  <2> QED
    BY <2>1, <2>2, <2>4 DEF SessionInv
<1>5. ~(q = 2 /\ result[2] = Command)
  BY <1>1 DEF TypeInv
<1>6. \/ q = 1 /\ q' = 2 /\ pc' = "query"
      \/ q' = q /\ q = 1 /\ pc' = "failed"
      \/ q' = q /\ q = 2 /\ pc' = "done"
      \/ q = 2 /\ result[2] = Command
  BY DEF UseRows
<1> QED
  BY <1>3, <1>4, <1>5, <1>6

\* What becomes of a client that reads a reply.
LEMMA ReplyOutcome ==
  ASSUME SessionInv, pc = "reply", request = "none",
         UNCHANGED <<q, closed, serverVars, request>>,
         data' \in Seq(Unit), net' \in Seq(Unit),
         \/ UNCHANGED <<pc, result>> /\ InReply'
         \/ server.at = "ended" /\ pc' = "undefined" /\ result' = result
         \/ /\ server.at = "ended" \/ answer[q] = Failed
            /\ pc' = "failed" /\ result' = [result EXCEPT ![q] = Failed]
         \/ /\ pc' = "rows" /\ result' = [result EXCEPT ![q] = answer[q]]
            /\ answer[q].is = "rows" /\ net' = <<>>
  PROVE  SessionInv'
<1>1. /\ UNCHANGED <<q, closed, server, answer, request>> /\ TypeInv /\ q \in 1 .. 2
      /\ Heeded /\ Accepted /\ result[q] = Unread
      /\ (q = 2 => result[1] = answer[1]) /\ (q = 1 => result[2] = Unread /\ answer[2] = Unread)
  BY DEF serverVars, SessionInv, TypeInv, QueryInv, ResultInv
<1>2. /\ \A i \in 1 .. 2 : i # q => result'[i] = result[i]
      /\ result'[q] \in {Unread, Failed} \/ result'[q] = answer[q]
      /\ result' \in [1 .. 2 -> Outcome]
  <2>1. \A a \in Outcome : /\ [result EXCEPT ![q] = a] \in [1 .. 2 -> Outcome]
                           /\ [result EXCEPT ![q] = a][q] = a
                           /\ \A i \in 1 .. 2 : i # q => [result EXCEPT ![q] = a][i] = result[i]
    BY <1>1 DEF TypeInv
  <2>2. Failed \in Outcome /\ answer[q] \in Outcome
    <3>1. <<>> \in Seq(Message)
      BY Bursts
    <3> QED
      BY <1>1, <3>1 DEF TypeInv, Outcome, Failed
  <2>3. CASE result' = result
    BY <1>1, <2>3 DEF TypeInv
  <2>4. CASE result' = [result EXCEPT ![q] = Failed]
    BY <2>1, <2>2, <2>4
  <2>5. CASE result' = [result EXCEPT ![q] = answer[q]]
    BY <2>1, <2>2, <2>5
  <2> QED
    BY <2>3, <2>4, <2>5
<1>3. TypeInv' /\ AuthInv'
  BY <1>1, <1>2 DEF TypeInv, AuthInv, Authenticating, Ended
<1>4. ResultInv'
  BY <1>1, <1>2 DEF ResultInv, Authenticating
<1>5. QueryInv'
  <2>1. Accepted' /\ Heeded'
    BY <1>1 DEF Accepted, Heeded, Unheard
  <2>2. pc' = "rows" => Said(net, <<>>)' /\ result'[q] = answer[q] /\ answer[q].is = "rows"
    BY <1>1, BytesEmpty DEF Said, TypeInv
  <2> QED
    BY <1>1, <2>1, <2>2 DEF QueryInv, Ended
<1>6. OwnRows'
  BY <1>1, <1>2 DEF SessionInv, OwnRows
<1>7. NoUndefined' /\ FailureJustified'
  BY <1>1 DEF NoUndefined, FailureJustified
<1> QED
  BY <1>3, <1>4, <1>5, <1>6, <1>7 DEF SessionInv

\* A connection that is reset was closed by a server that had ended, or had refused it.
LEMMA ResetStep ==
  ASSUME SessionInv, Reset
  PROVE  SessionInv'
<1>1. /\ pc = "reply" /\ closed /\ TypeInv /\ server.at \in {"revoked", "ended"} /\ q \in 1 .. 2
      /\ UNCHANGED <<q, data, net, closed, server, answer, request>>
      /\ pc' = "failed" /\ result' = [result EXCEPT ![q] = Failed]
  BY DEF Reset, Eof, serverVars, SessionInv, TypeInv, QueryInv, Heeded, Unheard
<1>2. /\ \A i \in 1 .. 2 : i # q => result'[i] = result[i]
      /\ result'[q] = Failed /\ result' \in [1 .. 2 -> Outcome]
  <2>1. Failed \in Outcome
    <3>1. <<>> \in Seq(Message)
      BY Bursts
    <3> QED
      BY <3>1 DEF Outcome, Failed
  <2> QED
    BY <1>1, <2>1 DEF TypeInv
<1>3. TypeInv' /\ AuthInv' /\ QueryInv'
  BY <1>1, <1>2 DEF TypeInv, AuthInv, QueryInv, Authenticating, Ended
<1>4. ResultInv' /\ OwnRows' /\ NoUndefined' /\ FailureJustified'
  BY <1>1, <1>2
  DEF SessionInv, ResultInv, OwnRows, NoUndefined, FailureJustified, Authenticating
<1> QED
  BY <1>3, <1>4 DEF SessionInv

-----------------------------------------------------------------------------
(* The reads of a reply *)

\* Three sequences, one behind the other.
LEMMA ConcatAssoc == \A x, y, z \in Seq(Unit) : (x \o y) \o z = x \o (y \o z)
OBVIOUS

\* Two sequences, one behind the other, element by element.
LEMMA BehindAt ==
  \A x, y \in Seq(Unit) :
    /\ x \o y \in Seq(Unit) /\ Len(x \o y) = Len(x) + Len(y)
    /\ \A j \in 1 .. Len(x) + Len(y) :
         (x \o y)[j] = IF j <= Len(x) THEN x[j] ELSE y[j - Len(x)]
OBVIOUS

\* What was collected, with the bytes of one more read, is the beginning of what was
\* said; the rest is still unread.
LEMMA ReadMore ==
  ASSUME data \in Seq(Unit), net \in Seq(Unit), NEW n, Chunk(n),
         NEW d, d = data \o Received(n), NEW s, s = data \o net
  PROVE  /\ d \in Seq(Unit) /\ net' \in Seq(Unit) /\ d \o net' = s
         /\ Len(d) \in 1 .. Len(s) /\ \A j \in 1 .. Len(d) : d[j] = s[j]
         /\ Len(d) = Len(s) => d = s /\ net' = <<>>
         /\ Len(d) # Len(s) => <<s[Len(d)].m.k, s[Len(d)].part>> \in Cuts
<1> DEFINE a == SubSeq(net, 1, n)
           b == SubSeq(net, n + 1, Len(net))
<1>1. n \in 1 .. Len(net) /\ net' = b /\ d = data \o a /\ Len(net) \in Nat /\ Len(data) \in Nat
  BY SMTT(30) DEF Chunk, Received
<1>2. /\ a \in Seq(Unit) /\ Len(a) = n /\ \A j \in 1 .. n : a[j] = net[j]
  BY <1>1
<1>3. /\ b \in Seq(Unit) /\ Len(b) = Len(net) - n /\ (n = Len(net) => b = <<>>)
  BY <1>1
<1>4. a \o b = net
  BY <1>1
<1> HIDE DEF a, b
<1>5. d \o b = s
  <2>1. (data \o a) \o b = data \o (a \o b)
    BY <1>2, <1>3, ConcatAssoc
  <2> QED
    BY <1>1, <1>4, <2>1
<1>6. /\ s \in Seq(Unit) /\ Len(s) = Len(data) + Len(net)
      /\ \A j \in 1 .. Len(data) + Len(net) :
           s[j] = IF j <= Len(data) THEN data[j] ELSE net[j - Len(data)]
  BY ConcatProperties, Zenon
<1>7. /\ d \in Seq(Unit) /\ Len(d) = Len(data) + n
      /\ \A j \in 1 .. Len(data) + n :
           d[j] = IF j <= Len(data) THEN data[j] ELSE a[j - Len(data)]
  <2> DEFINE e == data \o a
  <2>1. /\ e \in Seq(Unit) /\ Len(e) = Len(data) + Len(a)
        /\ \A j \in 1 .. Len(data) + Len(a) :
             e[j] = IF j <= Len(data) THEN data[j] ELSE a[j - Len(data)]
    BY <1>2, BehindAt
  <2>2. d = e
    BY <1>1
  <2> HIDE DEF e
  <2> QED
    BY <1>2, <2>1, <2>2
<1>8. ASSUME NEW j \in 1 .. Len(d) PROVE d[j] = s[j]
  <2>1. j \in 1 .. Len(data) + n /\ j \in 1 .. Len(data) + Len(net)
    BY <1>1, <1>7
  <2>2. j <= Len(data) \/ j - Len(data) \in 1 .. n
    BY <1>1, <2>1
  <2> QED
    BY <1>2, <1>6, <1>7, <2>1, <2>2
<1>9. Len(d) \in 1 .. Len(s)
  BY <1>1, <1>6, <1>7
<1>10. Len(d) = Len(s) => d = s /\ net' = <<>>
  <2>1. Len(d) = Len(s) => n = Len(net)
    BY <1>1, <1>6, <1>7
  <2>2. d \o <<>> = d
    BY <1>7
  <2> QED
    BY <1>1, <1>3, <1>5, <2>1, <2>2
<1>11. ASSUME Len(d) # Len(s) PROVE <<s[Len(d)].m.k, s[Len(d)].part>> \in Cuts
  <2>1. n < Len(net)
    BY <1>1, <1>6, <1>7, <1>11
  <2>2. s[Len(d)] = net[n]
    <3>1. s[Len(data) + n] = net[(Len(data) + n) - Len(data)]
      BY <1>1, <1>6
    <3> QED
      BY <1>1, <1>7, <3>1
  <2> QED
    BY <2>1, <2>2 DEF Chunk
<1> QED
  BY <1>1, <1>3, <1>5, <1>7, <1>8, <1>9, <1>10, <1>11

\* The messages in whole bytes are the messages.
LEMMA HasBytes ==
  \A ms \in Seq(Message) : \A k :
    HasMessage(k, Bytes(ms)) <=> \E i \in 1 .. Len(ms) : ms[i].k = k
<1> TAKE ms \in Seq(Message)
<1> TAKE k
<1>1. ASSUME HasMessage(k, Bytes(ms)) PROVE \E i \in 1 .. Len(ms) : ms[i].k = k
  <2>1. PICK j \in DOMAIN Bytes(ms) : Bytes(ms)[j].m.k = k
    BY <1>1 DEF HasMessage
  <2> QED
    BY <2>1, UnitsOf
<1>2. ASSUME NEW i \in 1 .. Len(ms), ms[i].k = k PROVE HasMessage(k, Bytes(ms))
  <2>1. Bytes(ms)[3 * i - 2] = [m |-> ms[i], part |-> "type"]
    BY BytesAt
  <2>2. 3 * i - 2 \in DOMAIN Bytes(ms)
    <3>1. DOMAIN Bytes(ms) = 1 .. 3 * Len(ms) /\ Len(ms) \in Nat
      BY BytesType
    <3> QED
      BY <3>1
  <2> QED
    BY <1>2, <2>1, <2>2 DEF HasMessage
<1> QED
  BY <1>1, <1>2

\* The beginning of bytes in which there is a message is in them whole.
LEMMA HasPrefix ==
  ASSUME NEW d \in Seq(Unit), NEW s \in Seq(Unit), Len(d) <= Len(s),
         \A j \in 1 .. Len(d) : d[j] = s[j], NEW k, HasMessage(k, d)
  PROVE  HasMessage(k, s)
BY DEF HasMessage

\* The reply ms, and perhaps, behind it, the error of a server that has ended.
Heard(ms, hs) ==
  /\ hs \in Seq(Message) /\ Len(hs) \in {Len(ms), Len(ms) + 1}
  /\ \A i \in 1 .. Len(ms) : hs[i] = ms[i]
  /\ Len(hs) = Len(ms) => hs = ms
  /\ Len(hs) # Len(ms) => server.at = "ended" /\ hs[Len(hs)].k = "E"

\* What was said is heard.
LEMMA SaidHeard ==
  ASSUME NEW ms \in Seq(Message), NEW s, Said(s, ms)
  PROVE  \E hs : Heard(ms, hs) /\ s = Bytes(hs)
<1>1. CASE s = Bytes(ms)
  BY <1>1 DEF Heard
<1>2. CASE server.at = "ended" /\ \E i \in 0 .. 2 : s = Bytes(Append(ms, Error(i)))
  <2>1. PICK i \in 0 .. 2 : s = Bytes(Append(ms, Error(i)))
    BY <1>2
  <2> DEFINE hs == Append(ms, Error(i))
  <2>2. Error(i) \in Message /\ Error(i).k = "E"
    BY Messages
  <2>3. /\ hs \in Seq(Message) /\ Len(hs) = Len(ms) + 1 /\ Len(ms) \in Nat
        /\ hs[Len(ms) + 1] = Error(i) /\ \A j \in 1 .. Len(ms) : hs[j] = ms[j]
    BY <2>2
  <2> HIDE DEF hs
  <2>4. Heard(ms, hs)
    BY <1>2, <2>2, <2>3 DEF Heard
  <2> QED
    BY <2>1, <2>4 DEF hs
<1> QED
  BY <1>1, <1>2 DEF Said

\* A read that has brought ReadyForQuery has brought all that was said.
LEMMA WholeReply ==
  ASSUME Whole, NEW ms, NEW end, IsReply(ms, end), NEW hs, Heard(ms, hs),
         NEW n \in 1 .. 3 * Len(hs), NEW j \in 1 .. n,
         Bytes(hs)[j].part = "type", Bytes(hs)[j].m.k = "Z",  end \in {"C", "E"},
         n # 3 * Len(hs) => <<Bytes(hs)[n].m.k, Bytes(hs)[n].part>> \in Cuts
  PROVE  n = 3 * Len(hs)
<1>1. hs \in Seq(Message) /\ Len(hs) \in Nat /\ Len(ms) \in Nat /\ j \in 1 .. 3 * Len(hs)
  BY DEF Heard, IsReply
<1>2. \A u \in 1 .. 3 * Len(hs) : \E i \in 1 .. Len(hs) : u \in {3 * i - 2, 3 * i - 1, 3 * i}
  BY <1>1, BytesAt
<1>3. \A i \in 1 .. Len(hs) : /\ Bytes(hs)[3 * i - 2] = [m |-> hs[i], part |-> "type"]
                              /\ Bytes(hs)[3 * i - 1] = [m |-> hs[i], part |-> "len"]
                              /\ Bytes(hs)[3 * i] = [m |-> hs[i], part |-> "body"]
  BY <1>1, BytesAt
<1>4. \A i \in 1 .. Len(hs) : hs[i].k = "Z" => i = Len(ms)
  <2> SUFFICES ASSUME NEW i \in 1 .. Len(hs), i # Len(ms) PROVE hs[i].k # "Z"
    OBVIOUS
  <2>0. Len(ms) >= 3 /\ Len(hs) \in {Len(ms), Len(ms) + 1}
    BY DEF Heard, IsReply
  <2>1. CASE i = Len(ms) + 1
    BY <1>1, <2>0, <2>1 DEF Heard
  <2>2. CASE i = Len(ms) - 1
    <3>1. i \in 1 .. Len(ms) /\ ms[i].k = end
      BY <1>1, <2>0, <2>2 DEF IsReply
    <3> QED
      BY <3>1 DEF Heard
  <2>3. CASE i \in 1 .. Len(ms) - 2
    <3>1. i \in 1 .. Len(ms) /\ ms[i].k \in {"N", "T", "D"}
      BY <1>1, <2>0, <2>3 DEF IsReply
    <3> QED
      BY <3>1 DEF Heard
  <2>4. i \in 1 .. Len(ms) - 2 \/ i = Len(ms) - 1 \/ i = Len(ms) + 1
    BY <1>1, <2>0
  <2> QED
    BY <2>1, <2>2, <2>3, <2>4
<1>5. PICK i \in 1 .. Len(hs) : j \in {3 * i - 2, 3 * i - 1, 3 * i}
  BY <1>1, <1>2
<1>6. hs[i].k = "Z"
  <2>1. \E part : Bytes(hs)[j] = [m |-> hs[i], part |-> part]
    BY <1>3, <1>5
  <2> QED
    BY <2>1
<1>7. i = Len(ms) /\ n >= 3 * i - 2
  BY <1>4, <1>5, <1>6
<1> SUFFICES ASSUME n # 3 * Len(hs) PROVE FALSE
  OBVIOUS
<1>8. PICK l \in 1 .. Len(hs) : n \in {3 * l - 2, 3 * l - 1, 3 * l}
  BY <1>2
<1>9. l >= i
  BY <1>5, <1>7, <1>8
<1>10. \E part : Bytes(hs)[n] = [m |-> hs[l], part |-> part]
  BY <1>3, <1>8
<1>11. CASE l = i
  BY <1>6, <1>10, <1>11 DEF Whole
<1>12. CASE l # i
  <2>1. l = Len(hs) /\ hs[l].k = "E"
    BY <1>1, <1>7, <1>9, <1>12 DEF Heard
  <2>2. n = 3 * l - 2 \/ n = 3 * l - 1
    BY <1>8, <2>1
  <2>3. Bytes(hs)[n] \in {[m |-> hs[l], part |-> "type"], [m |-> hs[l], part |-> "len"]}
    BY <1>3, <2>2
  <2> QED
    BY <2>1, <2>3 DEF Whole
<1> QED
  BY <1>11, <1>12

\* One read of a reply, and what it finds in all that was collected.
Collects(n) ==
  LET d == data \o Received(n)
  IN  /\ data' = d
      /\ IF ~Aligned(d) THEN pc' = "undefined" /\ UNCHANGED result
         ELSE IF HasMessage("Z", d) THEN Finish(d)
         ELSE IF WalksOff(d) THEN pc' = "undefined" /\ UNCHANGED result
         ELSE UNCHANGED <<pc, result>>

\* A server that has ended without an answer has nothing but an error to be read.
LEMMA ReadsEnd ==
  ASSUME NEW s, Said(s, <<>>)
  PROVE  s \in Seq(Unit) /\ ~HasMessage("Z", s)
<1> DEFINE none == <<>>
<1>1. none \in Seq(Message) /\ Len(none) = 0
  OBVIOUS
<1>2. Said(s, none)
  OBVIOUS
<1> HIDE DEF none
<1>3. PICK hs : Heard(none, hs) /\ s = Bytes(hs)
  BY <1>1, <1>2, SaidHeard
<1>4. hs \in Seq(Message)
  BY <1>3 DEF Heard
<1>5. \A i \in 1 .. Len(hs) : hs[i].k = "E"
  BY <1>1, <1>3 DEF Heard
<1>6. ~HasMessage("Z", s)
  BY <1>3, <1>4, <1>5, HasBytes
<1>7. s \in Seq(Unit)
  BY <1>3, <1>4, BytesType
<1> QED
  BY <1>6, <1>7

\* What the client makes of a whole reply.
LEMMA Finishes ==
  ASSUME SessionInv, NEW n \in 0 .. MaxRows, NEW notice \in {<<>>, <<Msg("N", 0, q)>>},
         NEW end \in {"C", "E"}, NEW ms, ms = Reply(q, n, notice, end),
         answer[q] = IF end = "E" THEN Failed ELSE Table(RowsOf(q, n)),
         NEW hs, Heard(ms, hs), Finish(Bytes(hs))
  PROVE  \/ /\ server.at = "ended" \/ answer[q] = Failed
            /\ pc' = "failed" /\ result' = [result EXCEPT ![q] = Failed]
         \/ /\ answer[q].is = "rows"
            /\ pc' = "rows" /\ result' = [result EXCEPT ![q] = answer[q]]
<1>0. q \in 1 .. 2
  BY DEF SessionInv, TypeInv
<1>1. IsReply(ms, end)
  BY <1>0, ReplyFacts
<1>2. /\ hs \in Seq(Message) /\ Len(hs) \in Nat /\ Len(ms) \in Nat /\ Len(ms) >= 3
      /\ Len(hs) \in {Len(ms), Len(ms) + 1}
  BY <1>1 DEF Heard, IsReply
<1>3. CASE HasMessage("E", Bytes(hs))
  <2>1. pc' = "failed" /\ result' = [result EXCEPT ![q] = Failed]
    BY <1>3 DEF Finish
  <2>2. PICK i \in 1 .. Len(hs) : hs[i].k = "E"
    BY <1>2, <1>3, HasBytes
  <2>3. CASE Len(hs) # Len(ms)
    BY <2>1, <2>3 DEF Heard
  <2>4. CASE Len(hs) = Len(ms)
    <3>1. i \in 1 .. Len(ms) /\ ms[i].k = "E"
      BY <2>2, <2>4 DEF Heard
    <3>2. i # Len(ms)
      BY <1>1, <3>1 DEF IsReply
    <3>3. i \notin 1 .. Len(ms) - 2
      BY <1>1, <3>1 DEF IsReply
    <3>4. i = Len(ms) - 1
      BY <1>2, <3>1, <3>2, <3>3
    <3>5. end = "E"
      BY <1>1, <3>1, <3>4 DEF IsReply
    <3> QED
      BY <2>1, <3>5
  <2> QED
    BY <2>3, <2>4
<1>4. CASE ~HasMessage("E", Bytes(hs))
  <2>1. \A i \in 1 .. Len(hs) : hs[i].k # "E"
    BY <1>2, <1>4, HasBytes
  <2>2. Len(hs) = Len(ms)
    <3>1. Len(hs) \in 1 .. Len(hs)
      BY <1>2
    <3> QED
      BY <2>1, <3>1 DEF Heard
  <2>3. hs = ms
    BY <2>2 DEF Heard
  <2>4. end = "C"
    <3>1. Len(ms) - 1 \in 1 .. Len(ms)
      BY <1>2
    <3> QED
      BY <1>1, <2>1, <2>3, <3>1 DEF IsReply
  <2>5. HasMessage("T", Bytes(hs))
    BY <1>1, <1>2, <2>3, HasBytes DEF IsReply
  <2>6. ~CopiesPast(Bytes(hs))
    <3>1. /\ Bytes(hs)[1] = [m |-> hs[1], part |-> "type"]
          /\ Bytes(hs)[3 * Len(hs)] = [m |-> hs[Len(hs)], part |-> "body"]
      <4>1. 1 \in 1 .. Len(hs) /\ Len(hs) \in 1 .. Len(hs) /\ 3 * 1 - 2 = 1
        BY <1>2
      <4> QED
        BY <1>2, <4>1, BytesAt, ZenonT(30)
    <3>2. Len(Bytes(hs)) = 3 * Len(hs)
      BY <1>2, BytesType
    <3>3. Last(Bytes(hs)) = [m |-> hs[Len(hs)], part |-> "body"]
      BY <3>1, <3>2 DEF Last
    <3> QED
      BY <3>1, <3>3 DEF CopiesPast, WalksOff, Aligned
  <2>7. Rows(Bytes(hs)) = RowsOf(q, n)
    BY <1>0, <2>3, RowsOfReply
  <2>8. Table(Rows(Bytes(hs))) = answer[q]
    BY <2>4, <2>7
  <2>9. pc' = "rows" /\ result' = [result EXCEPT ![q] = Table(Rows(Bytes(hs)))]
    BY <1>4, <2>5, <2>6 DEF Finish
  <2>10. answer[q].is = "rows"
    BY <2>4 DEF Table
  <2> QED
    BY <2>8, <2>9, <2>10
<1> QED
  BY <1>3, <1>4

\* A read, of a server that has ended without an answer.
LEMMA CollectsEnd ==
  ASSUME SessionInv, pc = "reply", request = "none", Whole,
         UNCHANGED <<q, closed, serverVars, request>>,
         NEW n, Chunk(n), Collects(n),
         server.at = "ended", answer[q] = Unread, Said(data \o net, <<>>)
  PROVE  SessionInv'
<1>0. data \in Seq(Unit) /\ net \in Seq(Unit) /\ UNCHANGED <<server, answer>>
  BY DEF SessionInv, TypeInv, serverVars
<1> DEFINE d == data \o Received(n)
           s == data \o net
<1>1. s \in Seq(Unit) /\ ~HasMessage("Z", s)
  BY ReadsEnd
<1>2. /\ d \in Seq(Unit) /\ net' \in Seq(Unit) /\ d \o net' = s
      /\ Len(d) \in 1 .. Len(s) /\ \A j \in 1 .. Len(d) : d[j] = s[j]
  BY <1>0, ReadMore
<1>3. data' = d
  BY DEF Collects
<1>4. ~HasMessage("Z", d)
  <2> HIDE DEF d, s
  <2>1. Len(d) <= Len(s)
    BY <1>1, <1>2
  <2> QED
    BY <1>1, <1>2, <2>1, HasPrefix
<1>5. \/ pc' = "undefined" /\ result' = result
      \/ UNCHANGED <<pc, result>>
  BY <1>4 DEF Collects
<1> HIDE DEF d
<1>6. Said(data \o net, <<>>)'
  BY <1>0, <1>2, <1>3 DEF Said
<1>7. InReply'
  <2>1. closed' /\ request' = "none" /\ (answer[q] = Unread)'
    BY <1>0 DEF SessionInv, TypeInv
  <2> QED
    BY <1>6, <2>1 DEF InReply
<1> QED
  BY <1>2, <1>3, <1>5, <1>7, ReplyOutcome

\* A read of a reply.
LEMMA CollectsReply ==
  ASSUME SessionInv, pc = "reply", request = "none", Whole,
         UNCHANGED <<q, closed, serverVars, request>>,
         NEW n, Chunk(n), Collects(n),
         NEW r \in 0 .. MaxRows, NEW notice \in {<<>>, <<Msg("N", 0, q)>>}, NEW end \in {"C", "E"},
         Said(data \o net, Reply(q, r, notice, end)),
         answer[q] = IF end = "E" THEN Failed ELSE Table(RowsOf(q, r))
  PROVE  SessionInv'
<1>0. data \in Seq(Unit) /\ net \in Seq(Unit) /\ UNCHANGED <<server, answer>> /\ q \in 1 .. 2
  BY DEF SessionInv, TypeInv, serverVars
<1> DEFINE d == data \o Received(n)
           s == data \o net
<1>1. PICK ms : ms = Reply(q, r, notice, end)
  OBVIOUS
<1>2. IsReply(ms, end)
  BY <1>0, <1>1, ReplyFacts
<1>3. PICK hs : Heard(ms, hs) /\ s = Bytes(hs)
  <2>1. ms \in Seq(Message) /\ Said(s, ms)
    BY <1>1, <1>2 DEF IsReply
  <2> QED
    BY <2>1, SaidHeard
<1>4. /\ hs \in Seq(Message) /\ Len(hs) \in Nat /\ Len(ms) \in 1 .. Len(hs) /\ hs[Len(ms)].k = "Z"
      /\ s \in Seq(Unit) /\ Len(s) = 3 * Len(hs)
  <2>1. hs \in Seq(Message) /\ ms \in Seq(Message) /\ Len(ms) >= 3 /\ ms[Len(ms)].k = "Z"
    BY <1>2, <1>3 DEF Heard, IsReply
  <2>2. Len(hs) \in Nat /\ Bytes(hs) \in Seq(Unit) /\ Len(Bytes(hs)) = 3 * Len(hs)
    BY <2>1, BytesType
  <2>3. Len(ms) \in 1 .. Len(hs) /\ Len(ms) \in 1 .. Len(ms)
    BY <1>3, <2>1, <2>2 DEF Heard
  <2> QED
    BY <1>3, <2>1, <2>2, <2>3 DEF Heard
<1>5. /\ d \in Seq(Unit) /\ net' \in Seq(Unit) /\ d \o net' = s
      /\ Len(d) \in 1 .. Len(s) /\ \A j \in 1 .. Len(d) : d[j] = s[j]
      /\ Len(d) = Len(s) => d = s /\ net' = <<>>
      /\ Len(d) # Len(s) => <<s[Len(d)].m.k, s[Len(d)].part>> \in Cuts
  BY <1>0, ReadMore
<1>6. /\ data' = d
      /\ IF ~Aligned(d) THEN pc' = "undefined" /\ UNCHANGED result
         ELSE IF HasMessage("Z", d) THEN Finish(d)
         ELSE IF WalksOff(d) THEN pc' = "undefined" /\ UNCHANGED result
         ELSE UNCHANGED <<pc, result>>
  BY DEF Collects
<1> HIDE DEF d, s
<1>7. Aligned(d)
  <2>1. Bytes(hs)[1] = [m |-> hs[1], part |-> "type"]
    BY <1>4, FirstUnit
  <2>2. 1 \in 1 .. Len(d)
    BY <1>4, <1>5
  <2> QED
    BY <1>3, <1>5, <2>1, <2>2 DEF Aligned
<1>8. CASE HasMessage("Z", d)
  <2>1. PICK j \in 1 .. Len(d) : d[j].part = "type" /\ d[j].m.k = "Z"
    BY <1>5, <1>8 DEF HasMessage
  <2>2. Len(d) = 3 * Len(hs)
    <3>1. Bytes(hs)[j].part = "type" /\ Bytes(hs)[j].m.k = "Z"
      BY <1>3, <1>5, <2>1
    <3>2. Len(d) \in 1 .. 3 * Len(hs)
      BY <1>4, <1>5
    <3>3. Len(d) # 3 * Len(hs) => <<Bytes(hs)[Len(d)].m.k, Bytes(hs)[Len(d)].part>> \in Cuts
      BY <1>3, <1>4, <1>5
    <3> QED
      BY <1>2, <1>3, <3>1, <3>2, <3>3, WholeReply
  <2>3. d = s /\ net' = <<>>
    BY <1>4, <1>5, <2>2
  <2>4. Finish(Bytes(hs))
    BY <1>3, <1>6, <1>7, <1>8, <2>3
  <2>5. \/ /\ server.at = "ended" \/ answer[q] = Failed
           /\ pc' = "failed" /\ result' = [result EXCEPT ![q] = Failed]
        \/ /\ pc' = "rows" /\ result' = [result EXCEPT ![q] = answer[q]]
           /\ answer[q].is = "rows"
    BY <1>1, <1>3, <2>4, Finishes
  <2> QED
    BY <1>5, <1>6, <2>3, <2>5, ReplyOutcome
<1>9. CASE ~HasMessage("Z", d)
  <2>1. Len(d) # Len(s)
    <3>1. HasMessage("Z", s)
      BY <1>3, <1>4, HasBytes
    <3> QED
      BY <1>5, <1>9, <3>1
  <2>2. s[Len(d)].part # "type"
    BY <1>5, <2>1 DEF Whole
  <2>3. d[Len(d)] = s[Len(d)]
    BY <1>5
  <2>4. ~WalksOff(d)
    BY <1>7, <2>2, <2>3 DEF WalksOff, Last
  <2>5. UNCHANGED <<pc, result>>
    BY <1>6, <1>7, <1>9, <2>4
  <2>6. Said(data \o net, Reply(q, r, notice, end))'
    <3>1. Said(data \o net, ms)'
      BY <1>0, <1>1, <1>5, <1>6 DEF Said, s
    <3>2. ms = Reply(q, r, notice, end)'
      BY <1>0, <1>1
    <3> QED
      BY <3>1, <3>2
  <2>7. ~HasMessage("Z", data)'
    BY <1>6, <1>9
  <2>8. UNCHANGED q
    OBVIOUS
  <2>9. InReply'
    BY <1>0, <2>6, <2>7, <2>8 DEF InReply
  <2> QED
    BY <1>5, <1>6, <2>5, <2>9, ReplyOutcome
<1> QED
  BY <1>8, <1>9

\* However the reply is cut into reads, the client finds what the server has said.
LEMMA ReadReplyStep ==
  ASSUME SessionInv, Whole, ReadReply
  PROVE  SessionInv'
<1>1. /\ pc = "reply" /\ request = "none" /\ UNCHANGED <<q, closed, serverVars, request>>
  BY DEF ReadReply
<1>2. CASE Eof /\ UNCHANGED <<pc, data, result, net>>
  <2>1. UNCHANGED vars
    BY <1>1, <1>2 DEF vars, serverVars
  <2> QED
    BY <2>1, Stutters
<1>3. ASSUME NEW n, Chunk(n), Collects(n) PROVE SessionInv'
  <2>1. CASE answer[q] = Unread /\ Said(data \o net, <<>>)
    <3>1. server.at = "ended"
      <4>1. data \in Seq(Unit) /\ net \in Seq(Unit) /\ Len(net) # 0
        BY <1>3 DEF SessionInv, TypeInv, Chunk
      <4>2. Len(data \o net) # 0 /\ Len(<<>>) = 0
        BY <4>1, BehindAt
      <4>3. data \o net # <<>>
        BY <4>2, Zenon
      <4> QED
        BY <2>1, <4>3, BytesEmpty DEF Said
    <3> QED
      BY <1>1, <1>3, <2>1, <3>1, CollectsEnd
  <2>2. CASE \E r \in 0 .. MaxRows, notice \in {<<>>, <<Msg("N", 0, q)>>}, end \in {"C", "E"} :
               /\ Said(data \o net, Reply(q, r, notice, end))
               /\ answer[q] = IF end = "E" THEN Failed ELSE Table(RowsOf(q, r))
    <3>1. PICK r \in 0 .. MaxRows, notice \in {<<>>, <<Msg("N", 0, q)>>}, end \in {"C", "E"} :
               /\ Said(data \o net, Reply(q, r, notice, end))
               /\ answer[q] = IF end = "E" THEN Failed ELSE Table(RowsOf(q, r))
      BY <2>2
    <3> QED
      BY <1>1, <1>3, <3>1, CollectsReply
  <2> QED
    BY <1>1, <2>1, <2>2 DEF SessionInv, QueryInv, InReply
<1> QED
  BY <1>2, <1>3 DEF ReadReply, Collects

-----------------------------------------------------------------------------
(* The theorems *)

\* A session begins with nothing said and nothing asked.
LEMMA InitHolds == Init => SessionInv
<1> SUFFICES ASSUME Init PROVE SessionInv
  OBVIOUS
<1>1. <<>> \in Seq(Unit) /\ <<>> \in Seq(Message)
  OBVIOUS
<1>2. result[1] = Unread /\ result[2] = Unread /\ answer[1] = Unread /\ answer[2] = Unread
  BY DEF Init
<1>3. Unread \in Outcome /\ Unread # Command
  BY <1>1 DEF Unread, Outcome, Command
<1>4. server.at = "listening" /\ q = 1 /\ pc = "connect" /\ request = "none" /\ net = <<>>
  BY DEF Init
<1>5. TypeInv
  <2>1. result \in [1 .. 2 -> Outcome] /\ answer \in [1 .. 2 -> Outcome]
    BY <1>3 DEF Init
  <2>2. \A i \in 1 .. 2 : answer[i] # Command
    BY <1>2, <1>3
  <2>3. server \in [method : Methods, good : BOOLEAN, at : {"listening"}]
    BY DEF Init
  <2>4. server \in [method : Methods, good : BOOLEAN,
                    at : {"listening", "asked", "ready", "refused", "revoked", "ended"}]
    BY <2>3
  <2>5. closed = FALSE /\ data = <<>>
    BY DEF Init
  <2>6. closed \in BOOLEAN /\ (closed <=> server.at \in {"refused", "revoked", "ended"})
    BY <1>4, <2>5
  <2>7. data \in Seq(Unit) /\ net \in Seq(Unit) /\ q \in 1 .. 2
    BY <1>1, <1>4, <2>5
  <2> QED
    BY <1>4, <2>1, <2>2, <2>4, <2>6, <2>7 DEF TypeInv
<1>6. AuthInv /\ QueryInv
  BY <1>4 DEF AuthInv, QueryInv, Ended, Authenticating
<1>7. ResultInv /\ OwnRows /\ NoUndefined /\ FailureJustified
  BY <1>2, <1>4 DEF ResultInv, OwnRows, NoUndefined, FailureJustified
<1> QED
  BY <1>5, <1>6, <1>7 DEF SessionInv

\* Every step keeps the invariant, where reads end where Whole lets them.
LEMMA NextHolds ==
  ASSUME SessionInv, Whole, [Next]_vars
  PROVE  SessionInv'
<1>1. CASE Authenticate
  BY <1>1, ConnectStep, StartupStep, PasswordStep, SaslStep, SignatureStep DEF Authenticate
<1>2. CASE Query
  BY <1>2, SendQueryStep, ReadReplyStep, UseRowsStep DEF Query
<1>3. CASE Server
  BY <1>3, ServerAuthenticatesStep, ServerAnswersStep, LostStep DEF Server
<1>4. CASE ServerEnds
  BY <1>4, ServerEndsStep
<1>5. CASE Reset
  BY <1>5, ResetStep
<1>6. CASE UNCHANGED vars
  BY <1>6, Stutters
<1> QED
  BY <1>1, <1>2, <1>3, <1>4, <1>5, <1>6 DEF Next, Client

\* The invariant holds throughout a session.
THEOREM Sessions ==
  ASSUME Whole
  PROVE  Spec => []SessionInv
<1>1. SessionInv /\ [Next]_vars => SessionInv'
  BY NextHolds
<1> QED
  BY <1>1, InitHolds, PTL DEF Spec

\* Where reads end where Whole lets them: the client goes on to its queries only when
\* the server has accepted it, with the right password where it asks for one, and has
\* not refused it behind the acceptance, but for a refusal behind the signature of
\* SCRAM, which the code drops.
THEOREM QueriesAccepted ==
  ASSUME Whole
  PROVE  Spec => []AuthSound
<1>1. SessionInv => AuthSound
  BY DEF SessionInv, QueryInv, AuthSound, Accepted, Heeded
<1> QED
  BY <1>1, Sessions, PTL

\* Where reads end where Whole lets them: as long as the server does not end, nothing
\* is read past what was received, and no missing message is used.
THEOREM NothingMissing ==
  ASSUME Whole
  PROVE  Spec => []NoUndefined
<1>1. SessionInv => NoUndefined
  BY DEF SessionInv
<1> QED
  BY <1>1, Sessions, PTL

\* Where reads end where Whole lets them: a query returns the rows the server answered
\* to it, all of them and in order, or has failed.
THEOREM RowsTheServers ==
  ASSUME Whole
  PROVE  Spec => []OwnRows
<1>1. SessionInv => OwnRows
  BY DEF SessionInv
<1> QED
  BY <1>1, Sessions, PTL

\* Where reads end where Whole lets them: a session fails for an error, a refusal or
\* the end of the server, for a missing server, or, with the rows the server gave for
\* it, for a version without a baseline.
THEOREM FailuresExplained ==
  ASSUME Whole
  PROVE  Spec => []FailureJustified
<1>1. SessionInv => FailureJustified
  BY DEF SessionInv
<1> QED
  BY <1>1, Sessions, PTL
=============================================================================
