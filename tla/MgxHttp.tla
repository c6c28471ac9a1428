------------------------------- MODULE MgxHttp -------------------------------
(***************************************************************************)
(* HTTP mode (http/mgx_http_socket.cpp): the event loop reads a request of *)
(* one connection, byte by byte, and hands it to the thread pool, whose    *)
(* threads answer from a file or echo a POST, after a query through the    *)
(* connection's database object (MgxMysql).  The bytes arrive in pieces,   *)
(* also while the handler reads; a handler that finds no more of them      *)
(* returns, and what it had read was on its stack.                         *)
(*                                                                         *)
(* A symbol stands for the whole text of a request line, of the header     *)
(* lines, or for one byte of a body; CR and LF are themselves.             *)
(***************************************************************************)
EXTENDS Naturals, Sequences, FiniteSets, MgxMysql

CONSTANTS Requests,     \* requests a peer may send: method, uri, Content-Length
          Content,      \* the file behind every uri, Missing if there is none
          Missing,
          Absent,       \* no Content-Length
          Count,        \* bound: requests the peer sends
          MaxSplit      \* bound: pieces that end inside a request

ASSUME RequestsAssumption ==
    \A r \in Requests :
        /\ r.method \in {"GET", "POST", "PUT"}
        /\ r.uri \in DOMAIN Content
        /\ r.len \in Nat \cup {Absent}
ASSUME CountAssumption == Count \in Nat /\ MaxSplit \in Nat

VARIABLES reqs,         \* what the peer sends
          sent,         \* symbols of it that were sent
          sock,         \* the receive buffer of the socket
          pc,           \* where _read_request_handler is
          line, head,   \* recv_buf and what was made of it
          body, rest,   \* request_body, what is missing of it
          pool,         \* messages in the thread pool's queue
          queried,      \* messages whose query_table has been called
          delivered,    \* history: messages handed to it
          responses,    \* what was given to send_msg
          splits,       \* history: pieces that ended inside a request
          piped,        \* history: a request was sent before the one ahead was answered
          failed        \* history: requests whose file could not be read

reader == <<line, head, body, rest>>
hist == <<splits, piped, failed>>
threads == <<queried, sql_vars>>
vars == <<reqs, sent, sock, pc, line, head, body, rest, pool, queried, delivered,
          responses, splits, piped, failed, state, res, field_num, calls>>

Symbol(kind, i) == [kind |-> kind, of |-> i]
Cr == Symbol("CR", 0)
Lf == Symbol("LF", 0)

BodyLen(i) == IF reqs[i].len = Absent THEN 0 ELSE reqs[i].len

\* The bytes of the i-th request.
Wire(i) == <<Symbol("line", i), Cr, Lf, Symbol("head", i), Cr, Lf, Cr, Lf>>
           \o [k \in 1..BodyLen(i) |-> Symbol("body", i)]

\* The number of bytes up to the end of the i-th request, and all of them.
End[i \in 0..Count] == IF i = 0 THEN 0 ELSE End[i - 1] + Len(Wire(i))
Whole[i \in 0..Count] == IF i = 0 THEN <<>> ELSE Whole[i - 1] \o Wire(i)

SymbolSet == [kind : {"line", "head", "body", "CR", "LF"}, of : 0..Count]
Message == [of : 1..Count, body : Seq(SymbolSet)]

TypeOK ==
    /\ reqs \in [1..Count -> Requests]
    /\ sent \in 0..End[Count]
    /\ sock \in Seq(SymbolSet)
    /\ pc \in {"idle", "line", "linecr", "head", "headcr", "body", "crashed"}
    /\ line \in Seq(SymbolSet) /\ head \in Seq(SymbolSet) /\ body \in Seq(SymbolSet)
    /\ rest \in Nat
    /\ pool \subseteq Message /\ queried \subseteq Message /\ SqlTypeOK
    /\ delivered \in Seq(Message)
    /\ \A r \in responses : r.of \in 1..Count /\ r.status \in {200, 404}
    /\ splits \in 0..MaxSplit /\ piped \in BOOLEAN /\ failed \subseteq 1..Count

Init ==
    /\ reqs \in [1..Count -> Requests]
    /\ sent = 0 /\ sock = <<>>
    /\ pc = "idle"
    /\ line = <<>> /\ head = <<>> /\ body = <<>> /\ rest = 0
    /\ pool = {} /\ queried = {} /\ delivered = <<>> /\ responses = {}
    /\ SqlInit
    /\ splits = 0 /\ piped = FALSE /\ failed = {}

-----------------------------------------------------------------------------
(* The peer. *)

Answered(i) == \E r \in responses : r.of = i

\* A piece of n bytes arrives.
Arrive(n) ==
    /\ sent + n <= End[Count]
    /\ sent' = sent + n
    /\ sock' = sock \o SubSeq(Whole[Count], sent + 1, sent + n)
    /\ splits' = IF \E i \in 1..Count : End[i] = sent + n THEN splits ELSE splits + 1
    /\ splits' <= MaxSplit
    /\ piped' = (piped \/ \E i \in 1..Count - 1 : End[i] < sent + n /\ ~Answered(i))
    /\ UNCHANGED <<reqs, pc, reader, pool, delivered, responses, failed, threads>>

-----------------------------------------------------------------------------
(* _read_request_handler, one step per recv. *)

\* The handler returns; what it has read is gone with its stack.
Return == pc' = "idle" /\ line' = <<>> /\ head' = <<>> /\ body' = <<>> /\ rest' = 0

\* EPOLLIN, level-triggered.
Start ==
    /\ pc = "idle" /\ sock # <<>>
    /\ pc' = "line"
    /\ UNCHANGED <<reqs, sent, sock, reader, pool, delivered, responses, hist, threads>>

\* recv_process returned -1, with EAGAIN, in whichever of the three readers.
Again ==
    /\ pc \in {"line", "linecr", "head", "headcr", "body"}
    /\ sock = <<>> /\ ~(pc = "body" /\ rest = 0)
    /\ Return
    /\ UNCHANGED <<reqs, sent, sock, pool, delivered, responses, hist, threads>>

\* http_read_request_line.
ReadLine ==
    /\ pc = "line" /\ sock # <<>>
    /\ sock' = Tail(sock)
    /\ IF Head(sock) = Cr THEN pc' = "linecr" /\ UNCHANGED line
       ELSE pc' = pc /\ line' = Append(line, Head(sock))
    /\ UNCHANGED <<reqs, sent, head, body, rest, pool, delivered, responses, hist, threads>>

\* http_parse_request_line: the line begins with GET or POST.
ParseLine(l) ==
    l # <<>> /\ l[1].kind = "line" /\ reqs[l[1].of].method \in {"GET", "POST"}

\* The byte after CR ends the line or belongs to it.
ReadLineCr ==
    /\ pc = "linecr" /\ sock # <<>>
    /\ sock' = Tail(sock)
    /\ IF Head(sock) = Lf
       THEN IF ParseLine(line) THEN pc' = "head" /\ UNCHANGED reader ELSE Return
       ELSE /\ pc' = "line"
            /\ line' = line \o <<Cr, Head(sock)>>
            /\ UNCHANGED <<head, body, rest>>
    /\ UNCHANGED <<reqs, sent, pool, delivered, responses, hist, threads>>

\* http_read_request_head.
ReadHead ==
    /\ pc = "head" /\ sock # <<>>
    /\ sock' = Tail(sock)
    /\ IF Head(sock) = Cr THEN pc' = "headcr" /\ UNCHANGED head
       ELSE pc' = pc /\ head' = Append(head, Head(sock))
    /\ UNCHANGED <<reqs, sent, line, body, rest, pool, delivered, responses, hist, threads>>

\* http_parse_request_head: the value of the last Content-Length of the lines.
ContentLength(h) ==
    LET with == {k \in 1..Len(h) : h[k].kind = "head" /\ reqs[h[k].of].len # Absent}
        last == CHOOSE k \in with : \A l \in with : l <= k
    IN  IF with = {} THEN Absent ELSE reqs[h[last].of].len

\* After CR LF the next two bytes are peeked at.  Both have to be there: if
\* not, the end of the head is taken for one more line.
ReadHeadCr ==
    /\ pc = "headcr" /\ sock # <<>>
    /\ IF Head(sock) = Lf /\ Len(sock) >= 3 /\ SubSeq(sock, 2, 3) = <<Cr, Lf>>
       THEN /\ sock' = SubSeq(sock, 4, Len(sock))
            /\ pc' = "body"
            /\ rest' = IF ContentLength(head) = Absent THEN 0 ELSE ContentLength(head)
            /\ UNCHANGED head
       ELSE /\ sock' = Tail(sock)
            /\ pc' = "head"
            /\ head' = IF Head(sock) = Lf THEN Append(head, Lf) ELSE head \o <<Cr, Head(sock)>>
            /\ UNCHANGED rest
    /\ UNCHANGED <<reqs, sent, line, body, pool, delivered, responses, hist, threads>>

\* http_read_request_body: recv of what is missing.
ReadBody ==
    /\ pc = "body" /\ rest > 0 /\ sock # <<>>
    /\ LET n == IF Len(sock) < rest THEN Len(sock) ELSE rest IN
          /\ body' = body \o SubSeq(sock, 1, n)
          /\ sock' = SubSeq(sock, n + 1, Len(sock))
          /\ rest' = rest - n
    /\ UNCHANGED <<reqs, sent, pc, line, head, pool, delivered, responses, hist, threads>>

\* Mutant: the body is handed over as soon as a piece of it is there.
BodyDone_Early == pc = "body" /\ (rest = 0 \/ body # <<>>)

BodyDone == pc = "body" /\ rest = 0

\* A Content-Length of 0 makes http_read_request_body return 0, which the
\* handler takes for a failure.
EmptyBody ==
    /\ BodyDone /\ ContentLength(head) = 0
    /\ Return
    /\ UNCHANGED <<reqs, sent, sock, pool, delivered, responses, hist, threads>>

\* The body of a POST without Content-Length is a null pointer to strcpy.
NoBody ==
    /\ BodyDone /\ ContentLength(head) = Absent /\ reqs[line[1].of].method = "POST"
    /\ pc' = "crashed"
    /\ UNCHANGED <<reqs, sent, sock, reader, pool, delivered, responses, hist, threads>>

\* Mutant: what came behind the request is thrown away with it.
Deliver_Flushes ==
    /\ BodyDone /\ ContentLength(head) # 0
    /\ LET i == line[1].of
           m == [of |-> i, body |-> IF reqs[i].method = "POST" THEN body ELSE <<>>]
       IN  /\ ~(ContentLength(head) = Absent /\ reqs[i].method = "POST")
           /\ pool' = pool \cup {m}
           /\ delivered' = Append(delivered, m)
    /\ Return
    /\ sock' = <<>>
    /\ UNCHANGED <<reqs, sent, responses, hist, threads>>

\* The message goes to the thread pool: method and uri of the line, for a POST
\* the body.
Deliver ==
    /\ BodyDone /\ ContentLength(head) # 0
    /\ LET i == line[1].of
           m == [of |-> i, body |-> IF reqs[i].method = "POST" THEN body ELSE <<>>]
       IN  /\ ~(ContentLength(head) = Absent /\ reqs[i].method = "POST")
           /\ pool' = pool \cup {m}
           /\ delivered' = Append(delivered, m)
    /\ Return
    /\ UNCHANGED <<reqs, sent, sock, responses, hist, threads>>

-----------------------------------------------------------------------------
(* th_msg_process_func and http_write_response, in a pool thread. *)

\* Contents are appended to the response as a C string: up to the first NUL.
CString(s) ==
    LET nul == {k \in 1..Len(s) : s[k] = "NUL"}
    IN  IF nul = {} THEN s ELSE SubSeq(s, 1, (CHOOSE k \in nul : \A l \in nul : k <= l) - 1)

Response(i, status, length, content) ==
    [of |-> i, status |-> status, length |-> length, content |-> content]

\* Mutant: a file that is not there is answered with 200.
Answer_Always200(m) ==
    LET r == reqs[m.of] IN
    IF r.method = "POST" THEN Response(m.of, 200, Len(m.body), m.body)
    ELSE IF Content[r.uri] = Missing THEN Response(m.of, 200, 0, <<>>)
    ELSE Response(m.of, 200, Len(Content[r.uri]), CString(Content[r.uri]))

\* The file and 200, or 404 without the text of 404.html here; a POST is echoed.
Answer(m) ==
    LET r == reqs[m.of] IN
    IF r.method = "POST" THEN Response(m.of, 200, Len(m.body), m.body)
    ELSE IF Content[r.uri] = Missing THEN Response(m.of, 404, 0, <<>>)
    ELSE Response(m.of, 200, Len(Content[r.uri]), CString(Content[r.uri]))

\* Mutant: the answer is given first, and the database asked afterwards.
Serve_RespondsFirst(m) ==
    /\ m \in pool
    /\ pool' = pool \ {m}
    /\ queried' = queried \cup {m}
    /\ responses' = responses \cup {Answer(m)}
    /\ QueryTable(m)
    /\ UNCHANGED <<reqs, sent, sock, pc, reader, delivered, hist>>

\* The file or the body is put into the response; query_table is called.
Serve(m) ==
    /\ m \in pool
    /\ pool' = pool \ {m}
    /\ queried' = queried \cup {m}
    /\ QueryTable(m)
    /\ UNCHANGED <<reqs, sent, sock, pc, reader, delivered, responses, hist>>

\* The size or the contents of an open file cannot be read: no response.
ServeFails(m) ==
    /\ m \in pool
    /\ reqs[m.of].method = "GET" /\ Content[reqs[m.of].uri] # Missing
    /\ pool' = pool \ {m}
    /\ failed' = failed \cup {m.of}
    /\ UNCHANGED <<reqs, sent, sock, pc, reader, delivered, responses, splits, piped, threads>>

\* A step of query_table.
Database(m) ==
    /\ m \in queried
    /\ QueryFails(m) \/ QuerySucceeds(m) \/ StoreFails(m) \/ DisplayRes(m)
    /\ UNCHANGED <<reqs, sent, sock, pc, reader, pool, queried, delivered, responses, hist>>

\* query_table has returned, whatever came of it: the response is sent.
Respond(m) ==
    /\ m \in queried /\ \A c \in calls : c.user # m
    /\ queried' = queried \ {m}
    /\ responses' = responses \cup {Answer(m)}
    /\ UNCHANGED <<reqs, sent, sock, pc, reader, pool, delivered, hist, sql_vars>>

DatabaseCrash ==
    /\ Undefined
    /\ pc' = "crashed"
    /\ UNCHANGED <<reqs, sent, sock, reader, pool, delivered, responses, hist, threads>>

-----------------------------------------------------------------------------
ReadStep ==
    \/ Start
    \/ Again
    \/ ReadLine
    \/ ReadLineCr
    \/ ReadHead
    \/ ReadHeadCr
    \/ ReadBody
    \/ EmptyBody
    \/ NoBody
    \/ Deliver

PoolStep ==
    \/ \E m \in pool : Serve(m) \/ ServeFails(m)
    \/ \E m \in queried : Database(m) \/ Respond(m)

Next ==
    /\ pc # "crashed"
    /\ \/ \E n \in 1..End[Count] : Arrive(n)
       \/ ReadStep
       \/ PoolStep
       \/ DatabaseCrash

Spec == Init /\ [][Next]_vars

\* The event loop and the pool threads are scheduled; nothing obliges the peer
\* to send.
FairSpec ==
    /\ Spec
    /\ WF_vars(pc # "crashed" /\ ReadStep)
    /\ WF_vars(pc # "crashed" /\ PoolStep)

-----------------------------------------------------------------------------
(* Properties. *)

\* What the thread pool gets is a request of the peer: in order, none twice, and
\* with exactly its own body.  It holds for requests that arrive in pieces, and
\* for requests sent one after the other without waiting, as long as the peer
\* does not do both: after a request that was cut at the end of its head the
\* reader takes the next one for a part of it.
DeliveredIsRequest ==
    splits = 0 \/ ~piped =>
        /\ \A k \in 1..Len(delivered) :
              LET m == delivered[k] IN
              m.body = IF reqs[m.of].method = "POST"
                       THEN [l \in 1..BodyLen(m.of) |-> Symbol("body", m.of)] ELSE <<>>
        /\ \A k, l \in 1..Len(delivered) : k < l => delivered[k].of < delivered[l].of

\* Requests that are answered; a Content-Length of 0 is taken for a failure.
Answerable(i) ==
    \/ reqs[i].method = "GET" /\ reqs[i].len # 0
    \/ reqs[i].method = "POST" /\ reqs[i].len \notin {Absent, 0}

\* What the peer gets back is for a request it has sent to the end: an echo of
\* exactly the body it sent, or 404 for a file that is not there, or the file,
\* and the announced Content-Length is the number of bytes that follow.  A file
\* with a NUL byte is the exception: its contents are cut there.
ResponseIsRight ==
    splits = 0 \/ ~piped =>
        \A r \in responses :
            LET q == reqs[r.of]
                file == Content[q.uri]
            IN  /\ sent >= End[r.of] /\ Answerable(r.of)
                /\ r.status = 404 <=> q.method = "GET" /\ file = Missing
                /\ \/ q.method = "POST" /\ r.content = [l \in 1..q.len |-> Symbol("body", r.of)]
                   \/ q.method = "GET" /\ (file = Missing \/ r.content = CString(file))
                /\ \/ r.length = Len(r.content)
                   \/ q.method = "GET" /\ \E k \in 1..Len(file) : file[k] = "NUL"

\* The connection's database object has no lock, and none is needed while the
\* peer waits for every answer before it sends on: the handler answers after
\* query_table, so no second thread is in the object.  Then the names that
\* display__res asks for are there as well, also after a query that failed and
\* left the result set of an earlier one, unless a result could not be stored.
SqlIsSafe ==
    ~piped =>
        /\ Cardinality(calls) <= 1
        /\ res = Null \/ res.made
              => \A c \in calls : c.at = "display" => InBounds

\* A request that arrives whole is answered, if its file can be read: also when
\* several arrive at once, since epoll reports what the handler left behind.
WholeIsAnswered ==
    \A i \in 1..Count :
        (sent >= End[i] /\ splits = 0 /\ Answerable(i))
            ~> (Answered(i) \/ i \in failed \/ pc = "crashed")
=============================================================================
