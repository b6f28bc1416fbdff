------------------------------- MODULE Session -------------------------------
(***************************************************************************)
(* The session of pgvictoria-cli's online report with a PostgreSQL server: *)
(* pgvictoria_server_authenticate, then the two pgvictoria_query_execute   *)
(* calls of pgvictoria_report_online.                                      *)
(*                                                                         *)
(* One read(2) returns some bytes of the stream, not a message: the server *)
(* writes bursts of messages, and a read ends at the end of a burst or     *)
(* short of it.  A message is three units, its type byte, its length and   *)
(* its body, and Cuts says after which units a read may end short.         *)
(*                                                                         *)
(* Undefined behaviour (memory read past what was received, a NULL         *)
(* message) leads to pc = "undefined", from which nothing is claimed.      *)
(***************************************************************************)
EXTENDS Integers, Sequences, SequencesExt

CONSTANTS
  Methods,     \* the authentication methods the server may ask for
  LateFatal,   \* those after which it may still refuse the connection
  Shutdown,    \* TRUE: the server may end the connection at any time
  Cuts,        \* the <<message kind, unit>> after which a read may end short
  MaxRows      \* rows of a reply

Parts == {"type", "len", "body"}
Kinds == {"R", "S", "K", "Z", "T", "D", "C", "E", "N"}

ASSUME SessionAssumption ==
  /\ Methods \subseteq {"trust", "password", "md5", "scram"}
  /\ LateFatal \subseteq Methods
  /\ Shutdown \in BOOLEAN
  /\ Cuts \subseteq Kinds \X Parts
  /\ MaxRows \in Nat

VARIABLES
  pc,       \* where the client is
  q,        \* the query it is at: 1, SHOW server_version_num, or 2, SHOW ALL
  data,     \* what query_execute has collected
  result,   \* what each query returned
  net,      \* the bytes sent by the server and not yet read
  closed,   \* the server has closed the connection
  server,   \* method, whether the password is right, and how far the server is
  request,  \* what the client has written and the server has not yet read
  answer    \* what the server answered to each query

clientVars == <<pc, q, data, result>>
serverVars == <<server, answer>>
vars == <<pc, q, data, result, net, closed, server, request, answer>>

-----------------------------------------------------------------------------
(* Messages, and what the client makes of bytes. *)

Msg(k, n, i) == [k |-> k, n |-> n, q |-> i]

Units == <<"type", "len", "body">>
Bytes(ms) == [j \in 1 .. 3 * Len(ms) |->
                [m |-> ms[1 + ((j - 1) \div 3)], part |-> Units[1 + ((j - 1) % 3)]]]

\* The data starts where a message does; what follows is a whole stream.
Aligned(d) == d[1].part = "type"

\* pgvictoria_has_message walks from length to length, over types only.
HasMessage(k, d) == \E j \in DOMAIN d : d[j].part = "type" /\ d[j].m.k = k

\* ... and reads past the end for a length of which it has only the type.
WalksOff(d) == ~Aligned(d) \/ Last(d).part = "type"

\* Extracting every message for its rows also needs their bodies.
CopiesPast(d) == WalksOff(d) \/ Last(d).part = "len"

\* create_D_tuple for every 'D' of the data, in order.
Rows(d) ==
  FlattenSeq([j \in DOMAIN d |->
    IF d[j].part = "type" /\ d[j].m.k = "D" THEN <<d[j].m>> ELSE <<>>])

\* get_auth_type, or -1 for what the callers treat as no valid type.  Behind a lone
\* R0 it looks at a byte that was not received: behind an earlier MD5 request that
\* is a byte of its salt, which can be 'E'.
AuthTypes(d) ==
  IF d[1].m.k # "R" THEN {-1}
  ELSE IF d[1].m.n # 0 THEN {d[1].m.n}
  ELSE IF Len(d) > 3 THEN IF d[4].m.k = "E" THEN {-1} ELSE {0}
  ELSE IF server.method = "md5" THEN {0, -1} ELSE {0}

-----------------------------------------------------------------------------
Unread == [is |-> "unread", rows |-> <<>>]
Failed == [is |-> "failed", rows |-> <<>>]
Command == [is |-> "command", rows |-> <<>>]
Table(rows) == [is |-> "rows", rows |-> rows]

Init ==
  /\ pc = "connect" /\ q = 1 /\ data = <<>>
  /\ result = [i \in 1 .. 2 |-> Unread]
  /\ net = <<>> /\ closed = FALSE
  /\ server \in [method : Methods, good : BOOLEAN, at : {"listening"}]
  /\ request = "none"
  /\ answer = [i \in 1 .. 2 |-> Unread]

Ended == {"done", "failed", "undefined"}

\* A write the server has closed the connection on may succeed or fail.
Write(r, next) ==
  \/ request' = r /\ pc' = next
  \/ closed /\ request' = "none" /\ pc' = "failed"

\* read(2): some bytes.
Chunk(n) ==
  /\ n \in 1 .. Len(net)
  /\ n < Len(net) => <<net[n].m.k, net[n].part>> \in Cuts
  /\ net' = SubSeq(net, n + 1, Len(net))

Received(n) == SubSeq(net, 1, n)

\* read(2): the end of the stream, or an error after a reset.
Eof == net = <<>> /\ closed

-----------------------------------------------------------------------------
(* pgvictoria_server_authenticate *)

Connect ==
  /\ pc = "connect"
  /\ \/ request' = "startup" /\ pc' = "startup"
     \/ request' = "none" /\ pc' = "failed" /\ ~closed    \* no server there
  /\ UNCHANGED <<q, data, result, net, closed, serverVars>>

\* The first chunk: whatever else is in it than the first message is dropped.
ReadStartup ==
  /\ pc = "startup" /\ request = "none"
  /\ \/ /\ Eof /\ pc' = "failed"
        /\ UNCHANGED <<net, request>>
     \/ \E n \in 1 .. Len(net) :
          /\ Chunk(n)
          /\ LET d == Received(n)
             IN  IF n < 3 THEN pc' = "undefined" /\ UNCHANGED request
                 ELSE \E t \in AuthTypes(d) :
                        \/ t = 0 /\ pc' = "query" /\ UNCHANGED request
                        \/ t \in {3, 5} /\ Write("password", "password")
                        \/ t = 10 /\ Write("sasl", "sasl")
                        \/ t = -1 /\ pc' = "failed" /\ UNCHANGED request
  /\ UNCHANGED <<q, data, result, closed, serverVars>>

\* Mutant of ReadPassword: whatever the server says is taken for an acceptance.
ReadPasswordTrusting ==
  /\ pc = "password" /\ request = "none"
  /\ \E n \in 1 .. Len(net) : Chunk(n)
  /\ pc' = "query"
  /\ UNCHANGED <<q, data, result, closed, serverVars, request>>

\* server_password, server_md5: the status of the read is not looked at, so that
\* the end of the stream gives a NULL message.
ReadPassword ==
  /\ pc = "password" /\ request = "none"
  /\ \/ Eof /\ pc' = "undefined" /\ UNCHANGED net
     \/ \E n \in 1 .. Len(net) :
          /\ Chunk(n)
          /\ IF n < 3 THEN pc' = "undefined"
             ELSE \E t \in AuthTypes(Received(n)) :
                    pc' = IF t = 0 THEN "query" ELSE "failed"
  /\ UNCHANGED <<q, data, result, closed, serverVars, request>>

\* server_scram256: the challenge, and the proof in answer to it.
ReadSasl ==
  /\ pc = "sasl" /\ request = "none"
  /\ \/ Eof /\ pc' = "undefined" /\ UNCHANGED <<net, request>>
     \/ \E n \in 1 .. Len(net) :
          /\ Chunk(n)
          /\ \/ n < 3 /\ pc' = "undefined" /\ UNCHANGED request
             \/ n >= 3 /\ net[1].m.k = "E" /\ pc' = "failed" /\ UNCHANGED request
             \/ n >= 3 /\ net[1].m.k = "R" /\ Write("proof", "proof")
  /\ UNCHANGED <<q, data, result, closed, serverVars>>

\* The signature: the first 'R' in the chunk.  Nobody reads what is behind it, the R0
\* or a refusal.  At the end of the stream msg is the buffer of the last chunk, which
\* is empty by then.
ReadSignature ==
  /\ pc = "proof" /\ request = "none"
  /\ \/ Eof /\ pc' = "failed" /\ UNCHANGED net
     \/ \E n \in 1 .. Len(net) :
          /\ Chunk(n)
          /\ pc' = IF n < 3 THEN "undefined"
                   ELSE IF HasMessage("R", Received(n)) THEN "query" ELSE "failed"
  /\ UNCHANGED <<q, data, result, closed, serverVars, request>>

-----------------------------------------------------------------------------
(* pgvictoria_query_execute, as pgvictoria_report_online calls it *)

SendQuery ==
  /\ pc = "query"
  /\ data' = <<>>
  /\ Write("query", "reply")
  /\ UNCHANGED <<q, result, net, closed, serverVars>>

\* The collected data, once it has a 'Z': an error anywhere in it, rows, or a
\* command without rows.
Finish(d) ==
  LET ends(p, r) == pc' = p /\ result' = [result EXCEPT ![q] = r]
  IN  \/ HasMessage("E", d) /\ ends("failed", Failed)
      \/ /\ ~HasMessage("E", d)
         /\ \/ HasMessage("T", d) /\ CopiesPast(d) /\ ends("undefined", Failed)
            \/ HasMessage("T", d) /\ ~CopiesPast(d) /\ ends("rows", Table(Rows(d)))
            \/ ~HasMessage("T", d) /\ HasMessage("C", d) /\ ends("rows", Command)
            \/ ~HasMessage("T", d) /\ ~HasMessage("C", d) /\ ends("failed", Failed)

\* Mutants of ReadReply: the last chunk alone is kept; the reply ends with
\* CommandComplete; the reply ends with the first chunk; 'Z' is looked for at the
\* start of a chunk.
ReadReplyForgets ==
  /\ pc = "reply" /\ request = "none"
  /\ \E n \in 1 .. Len(net) :
       /\ Chunk(n)
       /\ LET d == Received(n)
          IN  /\ data' = d
              /\ IF HasMessage("Z", d) THEN Finish(d) ELSE UNCHANGED <<pc, result>>
  /\ UNCHANGED <<q, closed, serverVars, request>>

ReadReplyCommand ==
  /\ pc = "reply" /\ request = "none"
  /\ \E n \in 1 .. Len(net) :
       /\ Chunk(n)
       /\ LET d == data \o Received(n)
          IN  /\ data' = d
              /\ IF ~Aligned(d) THEN pc' = "undefined" /\ UNCHANGED result
                 ELSE IF HasMessage("C", d) \/ HasMessage("Z", d) THEN Finish(d)
                 ELSE UNCHANGED <<pc, result>>
  /\ UNCHANGED <<q, closed, serverVars, request>>

ReadReplyOnce ==
  /\ pc = "reply" /\ request = "none"
  /\ \E n \in 1 .. Len(net) :
       Chunk(n) /\ data' = data \o Received(n) /\ Finish(data')
  /\ UNCHANGED <<q, closed, serverVars, request>>

ReadReplyFirst ==
  /\ pc = "reply" /\ request = "none"
  /\ \E n \in 1 .. Len(net) :
       /\ Chunk(n)
       /\ data' = data \o Received(n)
       /\ IF net[1].m.k = "Z" THEN Finish(data') ELSE UNCHANGED <<pc, result>>
  /\ UNCHANGED <<q, closed, serverVars, request>>

\* The loop: it goes on until the data has a 'Z'.  At the end of the stream it
\* sleeps and reads again, for ever; a reset ends it.
ReadReply ==
  /\ pc = "reply" /\ request = "none"
  /\ \/ \E n \in 1 .. Len(net) :
          /\ Chunk(n)
          /\ LET d == data \o Received(n)
             IN  /\ data' = d
                 /\ IF ~Aligned(d) THEN pc' = "undefined" /\ UNCHANGED result
                    ELSE IF HasMessage("Z", d) THEN Finish(d)
                    ELSE IF WalksOff(d) THEN pc' = "undefined" /\ UNCHANGED result
                    ELSE UNCHANGED <<pc, result>>
     \/ Eof /\ UNCHANGED <<pc, data, result, net>>
  /\ UNCHANGED <<q, closed, serverVars, request>>

\* The peer's host resets the connection, which it need not do.
Reset ==
  /\ pc = "reply" /\ Shutdown /\ Eof
  /\ pc' = "failed" /\ result' = [result EXCEPT ![q] = Failed]
  /\ UNCHANGED <<q, data, net, closed, serverVars, request>>

\* report_online: without a supported version in the first row there is no second
\* query.  The tuple of a command has no second column to list.
UseRows ==
  /\ pc = "rows"
  /\ \/ q = 1 /\ result[1].rows # <<>> /\ q' = 2 /\ pc' = "query"
     \/ q = 1 /\ pc' = "failed" /\ UNCHANGED q
     \/ q = 2 /\ result[2] # Command /\ pc' = "done" /\ UNCHANGED q
     \/ q = 2 /\ result[2] = Command /\ pc' = "undefined" /\ UNCHANGED q
  /\ UNCHANGED <<data, result, net, closed, serverVars, request>>

Authenticate == Connect \/ ReadStartup \/ ReadPassword \/ ReadSasl \/ ReadSignature
Query == SendQuery \/ ReadReply \/ UseRows
Client == Authenticate \/ Query

-----------------------------------------------------------------------------
(* The server *)

Says(ms) == net' = net \o Bytes(ms)

Refuse ==
  /\ Says(<<Msg("E", 0, 0)>>)
  /\ closed' = TRUE
  /\ server' = [server EXCEPT !.at = "refused"]

\* The end of a successful authentication, in one burst up to ReadyForQuery, or up to
\* a refusal that the server has come to behind it.
Welcome(first) ==
  \/ /\ Says(first \o <<Msg("R", 0, 0), Msg("S", 0, 0), Msg("K", 0, 0), Msg("Z", 0, 0)>>)
     /\ server' = [server EXCEPT !.at = "ready"]
     /\ UNCHANGED closed
  \/ /\ server.method \in LateFatal
     /\ Says(first \o <<Msg("R", 0, 0), Msg("E", 0, 0)>>)
     /\ server' = [server EXCEPT !.at = "revoked"]
     /\ closed' = TRUE

Asks(t) == /\ Says(<<Msg("R", t, 0)>>)
           /\ server' = [server EXCEPT !.at = "asked"]
           /\ UNCHANGED closed

ServerAuthenticates ==
  /\ ~closed
  /\ \/ /\ request = "startup"
        /\ \/ Refuse
           \/ server.method = "trust" /\ Welcome(<<>>)
           \/ server.method = "password" /\ Asks(3)
           \/ server.method = "md5" /\ Asks(5)
           \/ server.method = "scram" /\ Asks(10)
     \/ request = "password" /\ server.good /\ Welcome(<<>>)
     \/ request = "sasl" /\ (Asks(11) \/ Refuse)
     \/ request = "proof" /\ server.good /\ Welcome(<<Msg("R", 12, 0)>>)
     \/ request \in {"password", "proof"} /\ ~server.good /\ Refuse
  /\ request' = "none"
  /\ UNCHANGED <<clientVars, answer>>

RowsOf(i, n) == [j \in 1 .. n |-> Msg("D", j, i)]

ServerAnswers ==
  /\ ~closed /\ request = "query"
  /\ \E n \in 0 .. MaxRows, notice \in {<<>>, <<Msg("N", 0, q)>>} :
       \/ /\ Says(notice \o <<Msg("T", 0, q)>> \o RowsOf(q, n)
                    \o <<Msg("C", 0, q), Msg("Z", 0, q)>>)
          /\ answer' = [answer EXCEPT ![q] = Table(RowsOf(q, n))]
       \/ /\ Says(notice \o <<Msg("T", 0, q)>> \o RowsOf(q, n)
                    \o <<Msg("E", 0, q), Msg("Z", 0, q)>>)
          /\ answer' = [answer EXCEPT ![q] = Failed]
  /\ request' = "none"
  /\ UNCHANGED <<clientVars, closed, server>>

\* The server process ends, with a last message or without.
ServerEnds ==
  /\ Shutdown /\ ~closed /\ pc # "connect"
  /\ Says(<<Msg("E", 0, q)>>) \/ UNCHANGED net
  /\ closed' = TRUE
  /\ request' = "none"
  /\ server' = [server EXCEPT !.at = "ended"]
  /\ UNCHANGED <<clientVars, answer>>

\* What is written to a closed connection is lost.
Lost ==
  /\ closed /\ request # "none"
  /\ request' = "none"
  /\ UNCHANGED <<clientVars, serverVars, net, closed>>

Server == ServerAuthenticates \/ ServerAnswers \/ Lost

Next == Client \/ Server \/ ServerEnds \/ Reset

Spec == Init /\ [][Next]_vars

\* The client runs, and a server that has a request answers it.
FairSpec == Spec /\ WF_vars(Client) /\ WF_vars(Server)

-----------------------------------------------------------------------------
(* Properties *)

\* A query that returns rows returns its own, all of them and in order, however the
\* reply was cut into reads; one whose reply has an error in it, even behind rows, has
\* failed, and a session that is done has the answers to both of its queries.
OwnRows ==
  /\ \A i \in 1 .. 2 : result[i] \in {Unread, Failed} \/ result[i] = answer[i]
  /\ pc = "done" => answer = result

\* The only reasons for a failure are an error of the server, a refused connection, no
\* connection, and, with the rows that the server gave for it, a version that has no
\* baseline.  A client that was accepted and has no answer yet has no reason.
FailureJustified ==
  pc = "failed" =>
    \/ server.at \in {"listening", "refused", "revoked", "ended"}
    \/ \E i \in 1 .. 2 : answer[i] = Failed
    \/ q = 1 /\ result[1].is = "rows" /\ result[1] = answer[1]

\* A refusal that came in one burst with the signature of SCRAM, which the client drops.
Unheard == server.method = "scram" /\ server.at = "revoked"

\* The client goes on to its queries only when the server has accepted it, with the
\* right password where one is asked for, and has not refused it behind the
\* acceptance.  Of SCRAM the last does not hold: server_scram256 takes the signature
\* and drops what is behind it.
AuthSound ==
  pc \in {"query", "reply", "rows", "done"} =>
    /\ server.at \in {"ready", "ended"} \/ Unheard
    /\ server.method = "trust" \/ server.good

\* As long as the server does not end, no memory is read past what was received, and
\* no missing message is used.
NoUndefined == pc = "undefined" => server.at = "ended"

\* The session comes to its end, or the server does, or the client waits for an answer
\* of a server whose refusal it has dropped.
SessionEndsServed == <>(pc \in Ended \/ server.at = "ended" \/ Unheard)
=============================================================================
